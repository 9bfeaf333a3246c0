--------------------------- MODULE MessagesSender ---------------------------
(***************************************************************************)
(* MessagesSender (sync/messagessender.cpp): the second half of sending.   *)
(* The uploader has stored a message with an unsent row in `delivery` for  *)
(* each participant (dao/deliverydao.cpp); a run of the sender posts the   *)
(* message to the server of each of them and records the outcome.  The     *)
(* user may remove a message and cancel the sync meanwhile, requests and   *)
(* answers get lost, and the program may die.  A step ends at an HTTP      *)
(* request or a commit.                                                    *)
(***************************************************************************)
EXTENDS Naturals

CONSTANTS
    None,           \* an EncodedMessage nothing was encoded into, and message id 0
    Msgs,           \* ids
    Recipients,     \* addresses, numbered in their order
    Participants,   \* of the conversation of a message
    NoAccount,      \* recipients that are unknown to their server
    Unencodable,    \* messages encodeMessage() throws for
    Removable,      \* messages the user may remove
    MaxFaults       \* bound on lost requests and answers, cancels and crashes

ASSUME SenderAssumption ==
    /\ Msgs \subseteq Nat /\ Recipients \subseteq Nat /\ None \notin Msgs
    /\ Participants \in [Msgs -> SUBSET Recipients]
    /\ NoAccount \subseteq Recipients
    /\ Unencodable \subseteq Msgs /\ Removable \subseteq Msgs
    /\ MaxFaults \in Nat

VARIABLES
    delivery,   \* the rows of `delivery`, by message and recipient
    stored,     \* messages there are
    removed,    \* those of them that are deleted
    pc,         \* where run() is
    rest,       \* idsAndRecipients, what is left of them; visited in order
    current,    \* currentMessageId
    encoded,    \* the message encodedMessage is made from
    cancelled,  \* shouldCancel
    received,   \* how often a content arrived at a recipient's server
    aborts,     \* runs that ended between a post and its outcome
    faults

db   == <<delivery, stored, removed>>
vars == <<db, pc, rest, current, encoded, cancelled, received, aborts, faults>>

Slots    == Msgs \X Recipients
Contents == Msgs \cup {None}
States   == {"absent", "unsent", "delivered", "doesnt_exist", "unknown"}

\* The types; whenever something is posted, there is a row left it is posted for.
TypeOK ==
    /\ delivery \in [Slots -> States]
    /\ stored \subseteq Msgs
    /\ removed \subseteq stored \cap Removable
    /\ pc \in {"idle", "loop", "encoded", "ready", "accepted"}
    /\ rest \subseteq Slots
    /\ current \in Contents
    /\ encoded \in Contents
    /\ pc \in {"encoded", "ready", "accepted"} => rest # {}
    /\ cancelled \in BOOLEAN
    /\ received \in [Contents \X Recipients -> Nat]
    /\ aborts \in 0 .. MaxFaults
    /\ faults \in 0 .. MaxFaults

Init ==
    /\ delivery = [s \in Slots |-> "absent"]
    /\ stored = {} /\ removed = {}
    /\ pc = "idle"
    /\ rest = {}
    /\ current = None /\ encoded = None
    /\ cancelled = FALSE
    /\ received = [s \in Contents \X Recipients |-> 0]
    /\ aborts = 0 /\ faults = 0

-----------------------------------------------------------------------------
(* Everyone else.                                                          *)

\* The uploader, which runs on the same thread before the sender.
InsertDelivery(m) ==
    /\ pc = "idle"
    /\ m \notin stored
    /\ stored' = stored \cup {m}
    /\ delivery' = [s \in Slots |-> IF s[1] = m /\ s[2] \in Participants[m]
                                    THEN "unsent" ELSE delivery[s]]
    /\ UNCHANGED <<removed, pc, rest, current, encoded, cancelled, received, aborts, faults>>

\* The user removes a message, on another thread.
RemoveMessage(m) ==
    /\ m \in (stored \cap Removable) \ removed
    /\ removed' = removed \cup {m}
    /\ UNCHANGED <<delivery, stored, pc, rest, current, encoded, cancelled, received, aborts, faults>>

Fault == faults < MaxFaults /\ faults' = faults + 1

Cancel ==
    /\ pc # "idle" /\ ~cancelled
    /\ Fault
    /\ cancelled' = TRUE
    /\ UNCHANGED <<db, pc, rest, current, encoded, received, aborts>>

-----------------------------------------------------------------------------
(* run().                                                                  *)

\* ORDER BY message_id, recipient
InOrder(a, b) == a[1] < b[1] \/ (a[1] = b[1] /\ a[2] < b[2])

\* DeliveryDao::unsentMessages(), read once for the run.
Unsent == {s \in Slots : delivery[s] = "unsent"}

Start ==
    /\ pc = "idle"
    /\ pc' = "loop"
    /\ rest' = Unsent
    /\ UNCHANGED <<db, current, encoded, cancelled, received, aborts, faults>>

\* The pass of the loop that is under way.
First == CHOOSE s \in rest : \A t \in rest : s = t \/ InOrder(s, t)
Rcpt  == First[2]

\* run() ends or throws SyncCanceled, and its local variables are gone.
Leave ==
    /\ pc' = "idle"
    /\ rest' = {}
    /\ current' = None /\ encoded' = None
    /\ cancelled' = FALSE

Continue(rows) ==
    /\ delivery' = rows
    /\ pc' = "loop"
    /\ rest' = rest \ {First}
    /\ UNCHANGED <<stored, removed, cancelled>>

\* An UPDATE: nothing happens when there is no such row.
Marked(s, state) ==
    IF delivery[s] = "absent" THEN delivery ELSE [delivery EXCEPT ![s] = state]

MarkAsFailed_Slip(reason) ==    \* a failure that may pass is tried again
    Continue(IF reason = "unknown" THEN delivery ELSE Marked(First, reason))

MarkAsFailed(reason) == Continue(Marked(First, reason))

Load_Slip ==       \* the rows of a removed message stay
    LET m == First[1] IN
    /\ current' = m
    /\ IF m \in removed \cup Unencodable
       THEN Continue(delivery) /\ UNCHANGED encoded
       ELSE encoded' = m /\ pc' = "encoded" /\ UNCHANGED <<rest, cancelled, db>>

\* The message is loaded and encoded for the first of its recipients only.
Load ==
    LET m == First[1] IN
    /\ current' = m
    /\ IF m = current
       THEN pc' = "encoded" /\ UNCHANGED <<encoded, rest, cancelled, db>>
       ELSE \/ /\ m \in removed
               /\ Continue([s \in Slots |-> IF s[1] = m THEN "absent" ELSE delivery[s]])
               /\ UNCHANGED encoded
            \/ /\ m \in Unencodable \ removed
               /\ MarkAsFailed("unknown") /\ UNCHANGED encoded
            \/ /\ m \notin removed \cup Unencodable
               /\ encoded' = m
               /\ pc' = "encoded" /\ UNCHANGED <<rest, cancelled, db>>

NextRecipient ==
    /\ pc = "loop"
    /\ IF rest = {}
       THEN Leave /\ UNCHANGED db
       ELSE ~cancelled /\ Load
    /\ UNCHANGED <<received, aborts, faults>>

ThrowCanceled ==
    /\ pc \in {"loop", "encoded"} /\ rest # {}
    /\ cancelled
    /\ Leave
    /\ UNCHANGED <<db, received, aborts, faults>>

GetPublicKey ==
    /\ pc = "encoded" /\ ~cancelled
    /\ UNCHANGED <<current, encoded>>
    /\ \/ pc' = "ready" /\ UNCHANGED <<db, rest, cancelled, faults>>
       \/ Rcpt \in NoAccount /\ MarkAsFailed("doesnt_exist") /\ UNCHANGED faults
       \/ Fault /\ MarkAsFailed("unknown")
    /\ UNCHANGED <<received, aborts>>

Arrive == received' = [received EXCEPT ![<<encoded, Rcpt>>] = @ + 1]

\* Nobody knows whether the request came to its end.
MayArrive == (Rcpt \notin NoAccount /\ Arrive) \/ UNCHANGED received

Post_Slip ==        \* throwOnError() is not called
    /\ pc = "ready"
    /\ MayArrive
    /\ pc' = "accepted"
    /\ UNCHANGED <<db, current, encoded, rest, cancelled, aborts, faults>>

\* POST /<recipient>/messages, with every way it can go wrong.
Post ==
    /\ pc = "ready"
    /\ \/ /\ Rcpt \notin NoAccount
          /\ Arrive
          /\ pc' = "accepted"
          /\ UNCHANGED <<db, current, encoded, rest, cancelled, aborts, faults>>
       \/ /\ Rcpt \in NoAccount
          /\ MarkAsFailed("doesnt_exist")
          /\ UNCHANGED <<current, encoded, received, aborts, faults>>
       \/ /\ Fault
          /\ MarkAsFailed("unknown")
          /\ MayArrive
          /\ UNCHANGED <<current, encoded, aborts>>
       \/ /\ cancelled
          /\ Leave
          /\ MayArrive
          /\ aborts' = aborts + 1
          /\ UNCHANGED <<db, faults>>

MarkAsDelivered ==
    /\ pc = "accepted"
    /\ Continue(Marked(First, "delivered"))
    /\ UNCHANGED <<current, encoded, received, aborts, faults>>

\* The program dies and is started again; what is in the database is left.
Restart ==
    /\ pc # "idle"
    /\ Fault
    /\ Leave
    /\ aborts' = IF pc = "accepted" THEN aborts + 1 ELSE aborts
    /\ UNCHANGED <<db, received>>

Run  == Start \/ NextRecipient \/ ThrowCanceled \/ GetPublicKey \/ Post \/ MarkAsDelivered
Next == (\E m \in Msgs : InsertDelivery(m) \/ RemoveMessage(m)) \/ Cancel \/ Run \/ Restart

Spec == Init /\ [][Next]_vars

\* The app asks for syncs again and again, and the thread is scheduled.
FairSpec == Spec /\ WF_vars(Run)

-----------------------------------------------------------------------------
(* Properties.                                                             *)

\* What is posted to a recipient is a message whose delivery to that recipient
\* is recorded and has no outcome yet: never another recipient's message, never
\* the message before, never one that is done.
PostsAreUnsent ==
    [][\A c \in Contents, r \in Recipients :
          received'[<<c, r>>] # received[<<c, r>>]
             => c \in Msgs /\ delivery[<<c, r>>] = "unsent"]_vars

\* "delivered" is shown only for what the server of the recipient has got.
DeliveredWasReceived ==
    \A s \in Slots : delivery[s] = "delivered" => received[s] > 0

\* No other message that may fail to be loaded or encoded goes to the recipient of
\* this row and to a second one: then the buffer of this row's message is not posted
\* again in its place.
Shielded(s) ==
    \A m \in (Removable \cup Unencodable) \ {s[1]} :
        s[2] \in Participants[m] => Participants[m] = {s[2]}

\* A message arrives once, and once more at most for each run that ended between a
\* post and its mark, unless it is posted in the place of another one.
AtMostOnce ==
    \A s \in Slots : Shielded(s) => received[s] <= 1 + aborts

\* Every recipient of every message gets an outcome, or the row goes with a
\* message that was removed.
Settles ==
    \A s \in Slots :
        delivery[s] = "unsent" ~> delivery[s] # "unsent"

=============================================================================
