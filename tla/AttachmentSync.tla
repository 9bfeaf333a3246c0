--------------------------- MODULE AttachmentSync ---------------------------
(***************************************************************************)
(* The download of attachments: AttachmentSyncer (sync/attachmentsyncer    *)
(* .cpp), the stream that decrypts, inflates, splits and stores the one    *)
(* block that holds all attachments of a message, and the removal of a     *)
(* message by the user on the app's thread.  A step ends at an HTTP        *)
(* request or a commit; MessageAttachmentSink commits twice for each       *)
(* attachment, zeros first and then what was received.                     *)
(***************************************************************************)
EXTENDS Naturals, FiniteSetsExt

CONSTANTS
    None,
    Messages,       \* ids of the messages with attachments
    Last,           \* attachments of a message are 1 .. Last
    Offered,        \* the Blocks the server may hold of each message
    MaxFaults,      \* bound on network errors and cancels
    MaxCrashes

Attachments == 1 .. Last

\* "large": more than SizeLimitingFilter lets through, "stream": the stream
\* breaks (GZipStreamError, IntegrityFailure) before a byte of the attachment is
\* written, "partial": after some, "hash": the hash is that of some other bytes,
\* "long": bytes are left after the last attachment.
DefectKinds == {"large", "stream", "partial", "hash", "long"}

\* A stream breaks where bytes are: behind an attachment that has some, or at the
\* first.  Nothing is requested for attachments without any.
Places(kind, blank) ==
    IF blank = Attachments
    THEN IF kind = "hash" THEN Attachments ELSE {}
    ELSE CASE kind = "large"   -> {1}
           [] kind = "stream"  -> {a \in 1 .. Last + 1 : a - 1 \notin blank}
           [] kind = "partial" -> Attachments \ blank
           [] kind = "hash"    -> Attachments
           [] kind = "long"    -> {Last + 1}
Blocks ==
    [defect : {"none"}, at : {0}, blank : SUBSET Attachments]
    \cup {b \in [defect : DefectKinds, at : 1 .. Last + 1, blank : SUBSET Attachments] :
            b.at \in Places(b.defect, b.blank)}

ASSUME AttachmentAssumption ==
    /\ Messages \subseteq Nat \ {0} /\ None \notin Messages
    /\ Last \in Nat \ {0}
    /\ Offered \in [Messages -> SUBSET Blocks]
    /\ MaxFaults \in Nat /\ MaxCrashes \in Nat

VARIABLES
    block,      \* what the server holds of each message: a defect and its place,
                \* and the attachments without a byte
    content,    \* attachments_content.content of each attachment
    withKey,    \* messages that are no tombstones: clearData() drops the key
    removed,    \* MessageRemovedEvents on their way to the app's thread
    announced,  \* messages with a messageAttachmentsDownloaded event
    pc,         \* where AttachmentSyncer is
    single,     \* downloadForMessage() alone, without run()
    msg, att,   \* the message being downloaded, the attachment of its stream
    tried,      \* the keys of progress_.attachmentsBlocks
    cancelled, faults, crashes

rows   == <<content, withKey>>
syncer == <<pc, single, msg, att, tried, cancelled>>
vars   == <<block, rows, removed, announced, syncer, faults, crashes>>

Intact(m)   == block[m].defect = "none"
AllBlank(m) == block[m].blank = Attachments

\* The attachments before the first one with bytes, and behind the last.
Leading(m)  == {a \in Attachments : 1 .. a \subseteq block[m].blank}
Trailing(m) == {a \in Attachments : a .. Last \subseteq block[m].blank}

Contents == {"null", "zeros", "wrong", "whole", "gone"}

Requesting == {"load", "request"}
Writing    == {"open", "store", "unwind"}

\* The types; a message that is being written was entered in progress_.
TypeOK ==
    /\ block \in [Messages -> Blocks]
    /\ content \in [Messages -> [Attachments -> Contents]]
    /\ withKey \subseteq Messages /\ removed \subseteq Messages /\ announced \subseteq Messages
    /\ pc \in {"idle", "next"} \cup Requesting \cup Writing
    /\ single \in BOOLEAN
    /\ msg \in Messages \cup {None} /\ att \in 1 .. Last + 1
    /\ pc \in Requesting \cup Writing <=> msg # None
    /\ tried \subseteq Messages
    /\ pc \in {"request"} \cup Writing => msg \in tried
    /\ pc = "store" => att \in Attachments
    /\ cancelled \in BOOLEAN
    /\ faults \in 0 .. MaxFaults /\ crashes \in 0 .. MaxCrashes

\* The messages have just been added, with NULL contents.
Init ==
    /\ block \in {b \in [Messages -> Blocks] : \A m \in Messages : b[m] \in Offered[m]}
    /\ content = [m \in Messages |-> [a \in Attachments |-> "null"]]
    /\ withKey = Messages /\ removed = {} /\ announced = {}
    /\ pc = "idle" /\ single = FALSE /\ msg = None /\ att = 1 /\ tried = {}
    /\ cancelled = FALSE /\ faults = 0 /\ crashes = 0

-----------------------------------------------------------------------------
(* The app's thread.                                                       *)

\* requestSync(Everything) reaches the attachments; the Syncer is a new one.
RequestAll ==
    /\ pc = "idle" /\ pc' = "next" /\ single' = FALSE /\ tried' = {}
    /\ UNCHANGED <<block, rows, removed, announced, msg, att, cancelled, faults, crashes>>

\* requestDownloadingAttachmentsForMessage(m)
RequestOne(m) ==
    /\ pc = "idle" /\ pc' = "load" /\ single' = TRUE /\ msg' = m /\ tried' = {}
    /\ UNCHANGED <<block, rows, removed, announced, att, cancelled, faults, crashes>>

Cancel ==
    /\ pc # "idle" /\ ~cancelled /\ faults < MaxFaults
    /\ cancelled' = TRUE /\ faults' = faults + 1
    /\ UNCHANGED <<block, rows, removed, announced, pc, single, msg, att, tried, crashes>>

\* MessagesImpl::remove(): the row keeps neither the key nor anything else.
Remove(m) ==
    /\ m \in withKey
    /\ withKey' = withKey \ {m} /\ removed' = removed \cup {m}
    /\ UNCHANGED <<block, content, announced, syncer, faults, crashes>>

\* MessageAttachmentsImpl::messageRemoved(): one transaction per attachment.
HandleRemoved_Slip(m) ==
    /\ m \in removed /\ removed' = removed \ {m}
    /\ content' = [content EXCEPT ![m][1] = "gone"]
    /\ UNCHANGED <<block, withKey, announced, syncer, faults, crashes>>
HandleRemoved(m) ==
    LET left == {a \in Attachments : content[m][a] # "gone"}
    IN  /\ m \in removed
        /\ IF left = {}
           THEN removed' = removed \ {m} /\ UNCHANGED content
           ELSE content' = [content EXCEPT ![m][Min(left)] = "gone"] /\ UNCHANGED removed
        /\ UNCHANGED <<block, withKey, announced, syncer, faults, crashes>>

-----------------------------------------------------------------------------
(* AttachmentSyncer.                                                       *)

\* length(content) IS NULL is all the code knows about a missing attachment.
Missing(m) == \E a \in Attachments : content[m][a] = "null"
allAttachmentsDownloaded(m) == ~Missing(m)

\* downloadForMessage() returns; run() looks for the next message.
Return ==
    /\ pc' = IF single THEN "idle" ELSE "next"
    /\ msg' = None /\ att' = 1
    /\ cancelled' = (cancelled /\ ~single)
    /\ UNCHANGED <<tried, single>>

\* run() returns, or SyncCanceled or another exception ends the sync.
Leave ==
    /\ pc' = "idle" /\ msg' = None /\ att' = 1 /\ cancelled' = FALSE
    /\ UNCHANGED <<tried, single>>

\* msgIdForFirstDownloadable()
Next1 ==
    LET missing == {m \in Messages : Missing(m)}
    IN  /\ pc = "next"
        /\ IF cancelled \/ missing = {}
           THEN Leave
           ELSE /\ pc' = "load" /\ msg' = Min(missing)
                /\ UNCHANGED <<att, tried, single, cancelled>>
        /\ UNCHANGED <<block, rows, removed, announced, faults, crashes>>

\* Reads the rows and builds the stream, for which a tombstone has no key.
\* kulloAssert(insertionOk) throws when the message was tried before.
Load ==
    /\ pc = "load"
    /\ CASE allAttachmentsDownloaded(msg) -> Return
         [] ~allAttachmentsDownloaded(msg) /\ (cancelled \/ msg \notin withKey) -> Leave
         [] OTHER -> /\ pc' = CASE msg \in tried -> "unwind"
                               [] msg \notin tried /\ AllBlank(msg) -> "open"
                               [] OTHER -> "request"
                     /\ tried' = tried \cup {msg}
                     /\ UNCHANGED <<msg, att, single, cancelled>>
    /\ UNCHANGED <<block, rows, removed, announced, faults, crashes>>

DefectHere(kind) == block[msg].defect = kind /\ block[msg].at = att

TooLarge     == DefectHere("large")
Unreadable   == DefectHere("stream")
Breaks       == DefectHere("partial")
HashMismatch == DefectHere("hash")
TooMuch      == DefectHere("long")

\* getMessageAttachments(): the block comes as a whole, or Canceled is thrown.
Fetch ==
    /\ pc = "request"
    /\ pc' = IF cancelled \/ TooLarge THEN "unwind" ELSE "open"
    /\ UNCHANGED <<msg, att, single, tried, cancelled>>
    /\ UNCHANGED <<block, rows, removed, announced, faults, crashes>>

NetworkError ==
    /\ pc = "request" /\ faults < MaxFaults
    /\ pc' = "unwind" /\ faults' = faults + 1
    /\ UNCHANGED <<msg, att, single, tried, cancelled>>
    /\ UNCHANGED <<block, rows, removed, announced, crashes>>

\* The exception destroys a stream no byte was written to, and ~FilterChain()
\* closes it: filters that saw nothing have no objection, and the splitting sink
\* stores the leading attachments without bytes, until one has some, which its
\* hash refutes, or throws.  (Behind the first byte DecryptingFilter::close()
\* throws, or the chain is closed already, and the sink is left alone.)
Unwind_Slip ==
    /\ pc = "unwind"
    /\ IF att <= Last /\ ~HashMismatch /\ content[msg][att] # "gone"
       THEN /\ content' = [content EXCEPT ![msg][att] =
                    IF att \in block[msg].blank THEN "whole" ELSE "zeros"]
            /\ att' = att + 1
            /\ UNCHANGED <<pc, msg, single, tried, cancelled>>
       ELSE Leave /\ UNCHANGED content
    /\ UNCHANGED <<block, withKey, removed, announced, faults, crashes>>
Unwind ==
    /\ pc = "unwind"
    /\ IF att \in block[msg].blank /\ ~HashMismatch /\ content[msg][att] # "gone"
       THEN /\ content' = [content EXCEPT ![msg][att] = "whole"]
            /\ att' = att + 1
            /\ UNCHANGED <<pc, msg, single, tried, cancelled>>
       ELSE Leave /\ UNCHANGED content
    /\ UNCHANGED <<block, withKey, removed, announced, faults, crashes>>

\* MessageAttachmentSink::openIfNotOpen(): zeroblob(size), committed at once.
\* The row may be gone since.  The sink of a trailing attachment without bytes is
\* opened when it is closed, behind the check of its hash.
Open ==
    /\ pc = "open" /\ att <= Last /\ ~Unreadable
    /\ IF content[msg][att] = "gone" \/ (att \in Trailing(msg) /\ HashMismatch)
       THEN Leave /\ UNCHANGED content
       ELSE /\ content' = [content EXCEPT ![msg][att] =
                    IF att \in block[msg].blank /\ ~HashMismatch THEN "whole" ELSE "zeros"]
            /\ pc' = "store"
            /\ UNCHANGED <<msg, att, single, tried, cancelled>>
    /\ UNCHANGED <<block, withKey, removed, announced, faults, crashes>>

\* The attachment is written, its hash is compared, its BLOB is closed, which
\* commits what was written even when an exception closes it.  A write finds out
\* that the row is gone; nothing is written of a trailing attachment of no bytes.
Store_Slip ==
    /\ pc = "store"
    /\ content' = [content EXCEPT ![msg][att] =
            IF HashMismatch \/ Breaks THEN "wrong" ELSE "whole"]
    /\ IF Breaks THEN Return
       ELSE pc' = "open" /\ att' = att + 1 /\ UNCHANGED <<msg, single, tried, cancelled>>
    /\ UNCHANGED <<block, withKey, removed, announced, faults, crashes>>
Store ==
    /\ pc = "store"
    /\ CASE content[msg][att] = "gone" /\ att \notin Trailing(msg) -> Leave /\ UNCHANGED content
         [] content[msg][att] # "gone" /\ HashMismatch ->
                Leave /\ content' = [content EXCEPT ![msg][att] = "wrong"]
         [] content[msg][att] # "gone" /\ Breaks ->
                Return /\ content' = [content EXCEPT ![msg][att] = "wrong"]
         [] OTHER ->
                /\ content' = [content EXCEPT ![msg][att] = IF @ = "gone" THEN @ ELSE "whole"]
                /\ pc' = "open" /\ att' = att + 1
                /\ UNCHANGED <<msg, single, tried, cancelled>>
    /\ UNCHANGED <<block, withKey, removed, announced, faults, crashes>>

\* GZipStreamError and IntegrityFailure: "skipping", without an event.
Skip ==
    /\ pc = "open" /\ Unreadable
    /\ Return
    /\ UNCHANGED <<block, rows, removed, announced, faults, crashes>>

\* "stream is too long"
TooLong ==
    /\ pc = "open" /\ TooMuch
    /\ Leave
    /\ UNCHANGED <<block, rows, removed, announced, faults, crashes>>

Downloaded ==
    /\ pc = "open" /\ att = Last + 1 /\ ~Unreadable /\ ~TooMuch
    /\ announced' = announced \cup {msg}
    /\ Return
    /\ UNCHANGED <<block, rows, removed, faults, crashes>>

\* The process ends: the database is left, the events are lost.
Crash ==
    /\ crashes < MaxCrashes /\ crashes' = crashes + 1
    /\ removed' = {}
    /\ pc' = "idle" /\ single' = FALSE /\ msg' = None /\ att' = 1 /\ tried' = {}
    /\ cancelled' = FALSE
    /\ UNCHANGED <<block, rows, announced, faults>>

-----------------------------------------------------------------------------
SyncerStep == Next1 \/ Load \/ Fetch \/ Unwind \/ Open \/ Store \/ Skip \/ TooLong \/ Downloaded
Next ==
    \/ RequestAll \/ Cancel
    \/ \E m \in Messages : RequestOne(m) \/ Remove(m) \/ HandleRemoved(m)
    \/ SyncerStep \/ NetworkError \/ Crash

Spec == Init /\ [][Next]_vars

\* The worker's thread and the app's event loop run on; the app asks for a full
\* sync again and again.  The user, the network and a crash owe nothing.
FairSpec ==
    /\ Spec
    /\ WF_vars(SyncerStep) /\ SF_vars(RequestAll)
    /\ \A m \in Messages : WF_vars(HandleRemoved(m))

-----------------------------------------------------------------------------
(* Properties.                                                             *)

\* A message whose messageAttachmentsDownloaded event was emitted has every
\* attachment as its sender hashed it, for ever: no later sync, defect or crash
\* touches it again, and only its removal takes it away.
AnnouncedIsWhole ==
    \A m \in announced \cap withKey, a \in Attachments : content[m][a] = "whole"

\* Between two syncs, if no process died, a message with an intact block has
\* all of its attachments or none with a byte in it: an HTTP error or a cancel
\* may store leading attachments of no bytes, which are whole, and never what
\* could be taken for a part of the block.  So a NULL is left where anything is.
AllOrNothing ==
    \A m \in withKey :
        pc = "idle" /\ crashes = 0 /\ Intact(m) =>
            \/ \A a \in Attachments : content[m][a] = "whole"
            \/ \A a \in Attachments :
                   content[m][a] = "null" \/ (a \in Leading(m) /\ content[m][a] = "whole")

\* If no process dies and no block is broken, every message is downloaded in the
\* end, or removed with its attachments, whatever was cancelled, failed, or
\* removed in the middle of its download.
Fetched ==
    (\A m \in Messages : Intact(m)) =>
        \/ <>(crashes > 0)
        \/ \A m \in Messages :
            <>[](\/ \A a \in Attachments : content[m][a] = "whole"
                 \/ \A a \in Attachments : content[m][a] = "gone")

=============================================================================
