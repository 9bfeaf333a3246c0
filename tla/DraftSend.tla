------------------------------ MODULE DraftSend -----------------------------
(***************************************************************************)
(* The first half of sending: the user writes a draft (DraftsImpl and      *)
(* DraftAttachmentsImpl, a cache of DAOs on the app's thread, and the      *)
(* worker that adds an attachment), and MessagesUploader                   *)
(* (sync/messagesuploader.cpp) posts it to the user's own server, turns it *)
(* into a stored message and clears it.  Both write the row of the draft   *)
(* as a whole, from copies of their own, and the app's copy follows by     *)
(* events.  A step ends at an HTTP request, a commit or a read.            *)
(***************************************************************************)
EXTENDS Naturals, SequencesExt

CONSTANTS
    None,
    Convs,          \* conversations, each has one draft
    Texts,          \* texts a user types
    Empty,          \* the text ""
    Large,          \* texts above MESSAGE_CONTENT_MAX_BYTES
    MaxAtts,        \* bound on the attachments of a draft
    Careful,        \* does the app leave a draft alone that is being sent?
    MaxSends,       \* bound on prepareToSend()
    MaxFaults       \* bound on errors, cancels and crashes

ASSUME DraftAssumption ==
    /\ None \notin Convs /\ Empty \notin Texts
    /\ Large \subseteq Texts /\ MaxAtts \in Nat
    /\ Careful \in BOOLEAN
    /\ MaxSends \in Nat /\ MaxFaults \in Nat

VARIABLES
    draft,          \* the rows of `drafts`
    atts,           \* idx of the rows of `attachments` with draft = 1
    messages,       \* the stored messages, by id
    server,         \* what was posted; the id of a message is its place
    cached,         \* DraftsImpl::drafts_
    cachedAtts,     \* DraftAttachmentsImpl::attachments_
    adding,         \* drafts with a DraftAttachmentsAddWorker at work
    events,         \* events on their way to the app's thread
    pc,             \* where the uploader is
    job,            \* its copy of a draft, and the attachments it encoded
    cancelled,      \* shouldCancel, and the listener that is dropped with it
    missed,         \* was an event dropped since the program started?
    prepared,       \* how often each draft was prepared for sending
    aborts,         \* runs that ended between a post and the clearing of the draft
    faults

db   == <<draft, atts, messages>>
ui   == <<cached, cachedAtts, adding>>
vars == <<db, server, ui, events, pc, job, cancelled, missed, prepared, aborts, faults>>

Row     == [text : Texts \cup {Empty}, state : {"editing", "sending"}]
AttIds  == 0 .. MaxAtts - 1
Content == [conv : Convs, text : Texts \cup {Empty}, atts : SUBSET AttIds]
Event   == [kind : {"draftModified", "draftRemoved"}, conv : Convs]
           \cup [kind : {"attAdded", "attRemoved"}, conv : Convs, att : AttIds]
Cleared == [text |-> Empty, state |-> "editing"]

ASSUME NoneIsNoRecord == None \notin Row \cup Content

\* The types, and a draft that is being sent has a row.
TypeOK ==
    /\ draft \in [Convs -> Row \cup {None}]
    /\ atts \in [Convs -> SUBSET AttIds]
    /\ server \in Seq(Content)
    /\ DOMAIN messages \subseteq DOMAIN server
    /\ \A id \in DOMAIN messages : messages[id] \in Content
    /\ cached \in [Convs -> Row \cup {None}]
    /\ cachedAtts \in [Convs -> SUBSET AttIds]
    /\ adding \subseteq Convs
    /\ events \in Seq(Event)
    /\ pc \in {"idle", "loop", "loaded", "encoded", "posted", "stored"}
    /\ job \in Content \cup {None}
    /\ pc \in {"loaded", "encoded", "posted", "stored"} => job # None /\ draft[job.conv] # None
    /\ cancelled \in BOOLEAN /\ missed \in BOOLEAN
    /\ prepared \in [Convs -> 0 .. MaxSends]
    /\ aborts \in 0 .. MaxFaults /\ faults \in 0 .. MaxFaults

Init ==
    /\ draft = [c \in Convs |-> None]
    /\ atts = [c \in Convs |-> {}]
    /\ messages = <<>>
    /\ server = <<>>
    /\ cached = draft /\ cachedAtts = atts
    /\ adding = {}
    /\ events = <<>>
    /\ pc = "idle" /\ job = None
    /\ cancelled = FALSE /\ missed = FALSE
    /\ prepared = [c \in Convs |-> 0]
    /\ aborts = 0 /\ faults = 0

-----------------------------------------------------------------------------
(* The app's thread.                                                       *)

sync == <<server, messages, pc, job, cancelled, missed, aborts, faults>>

Sending(row) == row # None /\ row.state = "sending"

\* A careful app waits for the draft to be sent and for attachments to be shown.
MayEdit(c) == ~(Careful /\ Sending(cached[c]))
Shown(c)   == ~Careful \/ (c \notin adding /\ \A i \in DOMAIN events : events[i].conv # c)

SaveCached(c, row) ==
    /\ cached' = [cached EXCEPT ![c] = row]
    /\ draft' = [draft EXCEPT ![c] = row]

SetText(c, text) ==
    /\ MayEdit(c)
    /\ IF cached[c] = None
       THEN SaveCached(c, [text |-> text, state |-> "editing"])
       ELSE cached[c].text # text /\ SaveCached(c, [cached[c] EXCEPT !.text = text])
    /\ UNCHANGED <<atts, cachedAtts, adding, events, prepared, sync>>

PrepareToSend(c) ==
    /\ MayEdit(c) /\ Shown(c)
    /\ prepared[c] < MaxSends
    /\ prepared' = [prepared EXCEPT ![c] = @ + 1]
    /\ SaveCached(c, [text |-> IF cached[c] = None THEN Empty ELSE cached[c].text,
                      state |-> "sending"])
    /\ UNCHANGED <<atts, cachedAtts, adding, events, sync>>

Clear(c) ==
    /\ MayEdit(c) /\ Shown(c)
    /\ cached[c] # None
    /\ SaveCached(c, Cleared)
    /\ events' = Append(events, [kind |-> "draftRemoved", conv |-> c])
    /\ UNCHANGED <<atts, cachedAtts, adding, prepared, sync>>

AddAsync(c) ==
    /\ MayEdit(c)
    /\ c \notin adding
    /\ adding' = adding \cup {c}
    /\ UNCHANGED <<db, cached, cachedAtts, events, prepared, server, pc, job,
                   cancelled, missed, aborts, faults>>

idForNewDraftAttachment(c) == IF atts[c] = {} THEN 0 ELSE Max(atts[c]) + 1

\* DraftAttachmentsAddWorker commits, or fails.
Added(c) ==
    LET att == idForNewDraftAttachment(c) IN
    /\ c \in adding
    /\ adding' = adding \ {c}
    /\ \/ /\ att \in AttIds
          /\ atts' = [atts EXCEPT ![c] = @ \cup {att}]
          /\ events' = Append(events, [kind |-> "attAdded", conv |-> c, att |-> att])
       \/ UNCHANGED <<atts, events>>
    /\ UNCHANGED <<draft, cached, cachedAtts, prepared, sync>>

RemoveAttachment(c, att) ==
    /\ MayEdit(c)
    /\ att \in cachedAtts[c]
    /\ atts' = [atts EXCEPT ![c] = @ \ {att}]
    /\ cachedAtts' = [cachedAtts EXCEPT ![c] = @ \ {att}]
    /\ UNCHANGED <<draft, cached, adding, events, prepared, sync>>

\* draftModified(), draftAttachmentAdded(), -Removed() and draftRemoved().
Notify ==
    LET e == Head(events) IN
    /\ events # <<>>
    /\ events' = Tail(events)
    /\ CASE e.kind = "draftModified" ->
              /\ cached' = [cached EXCEPT ![e.conv] = draft[e.conv]]
              /\ UNCHANGED <<cachedAtts, atts>>
         [] e.kind = "attAdded" ->
              /\ cachedAtts' = [cachedAtts EXCEPT ![e.conv] = @ \cup ({e.att} \cap atts[e.conv])]
              /\ UNCHANGED <<cached, atts>>
         [] e.kind = "attRemoved" ->
              /\ cachedAtts' = [cachedAtts EXCEPT ![e.conv] = @ \ {e.att}]
              /\ UNCHANGED <<cached, atts>>
         [] e.kind = "draftRemoved" ->
              /\ atts' = [atts EXCEPT ![e.conv] = @ \ cachedAtts[e.conv]]
              /\ cachedAtts' = [cachedAtts EXCEPT ![e.conv] = {}]
              /\ UNCHANGED cached
    /\ UNCHANGED <<draft, adding, prepared, sync>>

-----------------------------------------------------------------------------
(* The uploader.                                                           *)

Fault == faults < MaxFaults /\ faults' = faults + 1

Cancel ==
    /\ pc # "idle" /\ ~cancelled
    /\ Fault
    /\ cancelled' = TRUE
    /\ UNCHANGED <<db, ui, server, events, pc, job, missed, prepared, aborts>>

\* What a worker emits after it was cancelled goes nowhere.
Emit(es) ==
    /\ events' = IF cancelled THEN events ELSE events \o es
    /\ missed' = (missed \/ (cancelled /\ es # <<>>))

\* The ids come in ascending order.
Nth(ids, i) == CHOOSE id \in ids : Cardinality({other \in ids : other <= id}) = i

Removals_Slip(c, ids) ==    \* counts from 1
    [i \in 1 .. Cardinality(ids) |->
        [kind |-> "attRemoved", conv |-> c, att |-> Nth(ids, i) + 1]]

Removals(c, ids) ==
    [i \in 1 .. Cardinality(ids) |->
        [kind |-> "attRemoved", conv |-> c, att |-> Nth(ids, i)]]
Modified(c) == <<[kind |-> "draftModified", conv |-> c]>>

Start ==
    /\ pc = "idle"
    /\ \E c \in Convs : Sending(draft[c])
    /\ pc' = "loop"
    /\ cancelled' = FALSE
    /\ UNCHANGED <<db, ui, server, events, job, missed, prepared, aborts, faults>>

\* run() returns, throws SyncCanceled or dies.
Leave == pc' = "idle" /\ job' = None /\ cancelled' = FALSE

FirstSendable ==
    /\ pc = "loop"
    /\ LET sendable == {c \in Convs : Sending(draft[c])} IN
       \/ sendable = {} /\ Leave
       \/ /\ ~cancelled
          /\ \E c \in sendable :
                job' = [conv |-> c, text |-> draft[c].text, atts |-> {}]
          /\ pc' = "loaded"
          /\ UNCHANGED cancelled
    /\ UNCHANGED <<db, ui, server, events, missed, prepared, aborts, faults>>

ThrowCanceled ==
    /\ cancelled
    /\ \/ pc = "loop" /\ \E c \in Convs : Sending(draft[c])
       \/ pc \in {"loaded", "encoded", "posted"}
    /\ Leave
    /\ aborts' = IF pc = "posted" THEN aborts + 1 ELSE aborts
    /\ UNCHANGED <<db, ui, server, events, missed, prepared, faults>>

SaveJob_Slip(text) == draft' = [draft EXCEPT ![job.conv].text = text]   \* without setState()

\* save() of the copy, whose state and perhaps text were changed.
SaveJob(text) == draft' = [draft EXCEPT ![job.conv] = [text |-> text, state |-> "editing"]]

Encode_Slip ==          \* a draft that is too large is only reported
    /\ pc = "loaded" /\ ~cancelled
    /\ \/ /\ job.text \notin Large
          /\ job' = [job EXCEPT !.atts = atts[job.conv]]
          /\ pc' = "encoded"
       \/ job.text \in Large /\ pc' = "loop" /\ job' = None
    /\ UNCHANGED <<db, ui, server, events, cancelled, missed, prepared, aborts, faults>>

\* The attachments are read; a draft that is too large is not sent.
Encode ==
    /\ pc = "loaded" /\ ~cancelled
    /\ \/ /\ job.text \notin Large
          /\ job' = [job EXCEPT !.atts = atts[job.conv]]
          /\ pc' = "encoded"
          /\ UNCHANGED <<draft, events, missed>>
       \/ /\ job.text \in Large
          /\ SaveJob(job.text)
          /\ Emit(Modified(job.conv))
          /\ pc' = "loop" /\ job' = None
    /\ UNCHANGED <<atts, messages, ui, server, cancelled, prepared, aborts, faults>>

Arrive == server' = Append(server, job)

\* sendMessageToSelf() succeeds, or is cancelled.
Post ==
    /\ pc = "encoded"
    /\ \/ ~cancelled /\ Arrive /\ pc' = "posted" /\ UNCHANGED <<job, cancelled, aborts>>
       \/ cancelled /\ Arrive /\ Leave /\ aborts' = aborts + 1
    /\ UNCHANGED <<db, ui, events, missed, prepared, faults>>

HandleFailed_Slip ==    \* clears the draft
    /\ pc \in {"loaded", "encoded"}
    /\ Fault
    /\ atts' = [atts EXCEPT ![job.conv] = {}]
    /\ SaveJob(Empty)
    /\ Emit(Removals(job.conv, atts[job.conv]) \o Modified(job.conv))
    /\ pc' = "loop" /\ job' = None
    /\ UNCHANGED <<messages, server, aborts, ui, cancelled, prepared>>

\* Any other exception: the attachments go, and the draft is edited again.
HandleFailed ==
    /\ pc \in {"loaded", "encoded"}
    /\ Fault
    /\ \/ UNCHANGED <<server, aborts>>
       \/ pc = "encoded" /\ Arrive /\ aborts' = aborts + 1
    /\ atts' = [atts EXCEPT ![job.conv] = {}]
    /\ SaveJob(job.text)
    /\ Emit(Removals(job.conv, atts[job.conv]) \o Modified(job.conv))
    /\ pc' = "loop" /\ job' = None
    /\ UNCHANGED <<messages, ui, cancelled, prepared>>

\* MessageAdder, under the id that the server gave.
SaveMessage(content) ==
    messages' = [id \in DOMAIN messages \cup {Len(server)} |->
                    IF id = Len(server) THEN content ELSE messages[id]]

AddMessage_Slip ==      \* the attachments are not converted
    /\ pc = "posted" /\ ~cancelled
    /\ SaveMessage([job EXCEPT !.atts = {}])
    /\ pc' = "stored"
    /\ UNCHANGED <<draft, atts, job, server, ui, events, cancelled, missed, prepared, aborts, faults>>

\* The transaction: the draft's attachments become the message's.
AddMessage ==
    /\ pc = "posted" /\ ~cancelled
    /\ SaveMessage([job EXCEPT !.atts = atts[job.conv]])
    /\ job' = [job EXCEPT !.atts = atts[job.conv]]
    /\ atts' = [atts EXCEPT ![job.conv] = {}]
    /\ pc' = "stored"
    /\ UNCHANGED <<draft, server, ui, events, cancelled, missed, prepared, aborts, faults>>

ClearDraft ==
    /\ pc = "stored"
    /\ SaveJob(Empty)
    /\ Emit(Removals(job.conv, job.atts) \o Modified(job.conv))
    /\ pc' = "loop" /\ job' = None
    /\ UNCHANGED <<atts, messages, server, ui, cancelled, prepared, aborts, faults>>

\* The program dies and is started again.
Restart ==
    /\ Fault
    /\ Leave
    /\ aborts' = IF pc \in {"posted", "stored"} THEN aborts + 1 ELSE aborts
    /\ cached' = draft /\ cachedAtts' = atts
    /\ adding' = {} /\ events' = <<>> /\ missed' = FALSE
    /\ UNCHANGED <<db, server, prepared>>

-----------------------------------------------------------------------------
App ==
    \/ \E c \in Convs : \/ \E text \in Texts : SetText(c, text)
                         \/ PrepareToSend(c) \/ Clear(c) \/ AddAsync(c) \/ Added(c)
                         \/ \E att \in AttIds : RemoveAttachment(c, att)
    \/ Cancel \/ Restart

Run == Start \/ FirstSendable \/ ThrowCanceled \/ Encode \/ Post \/ HandleFailed
       \/ AddMessage \/ ClearDraft

Next == App \/ Notify \/ Run

Spec == Init /\ [][Next]_vars

\* Syncs are requested again and again, and all threads are scheduled.
FairSpec == Spec /\ WF_vars(Run) /\ WF_vars(Notify)

-----------------------------------------------------------------------------
(* Properties.                                                             *)

PostsOf(c) == {i \in DOMAIN server : server[i].conv = c}

\* A draft is posted once for each time the user asked for it, and again only if
\* a run ended between a post and the clearing of the draft.
SentAsAsked ==
    \A c \in Convs : Cardinality(PostsOf(c)) <= prepared[c] + aborts

\* The sender's own copy of a message is what was posted under its id.
StoredIsPosted ==
    \A id \in DOMAIN messages : messages[id] = server[id]

\* The uploader takes a text from a draft only when the message made from that
\* text is stored.
NothingLost ==
    [][\A c \in Convs :
          draft[c] # None /\ draft'[c] # draft[c] /\ UNCHANGED cached
             => \/ draft'[c].text = draft[c].text
                \/ \E id \in DOMAIN messages :
                      messages[id].conv = c /\ messages[id].text = draft[c].text]_vars

\* "The draft will be sent on the next sync", or be given back to the user.
Sends ==
    \A c \in Convs :
        Sending(draft[c]) ~> ~Sending(draft[c])

=============================================================================
