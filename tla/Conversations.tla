--------------------------- MODULE Conversations ----------------------------
(***************************************************************************)
(* Conversations, the messages in them and their removal: ConversationsImpl*)
(* and the parts of MessagesImpl and DraftsImpl that RemovalEventDispatcher*)
(* calls (app's thread), and MessageAdder in the two places that use it    *)
(* (sync's thread): MessagesSyncer for incoming and MessagesUploader for   *)
(* sent messages.  A step ends at a commit, an HTTP request or the emission*)
(* of events.  A cancelled sync is forgotten at once, and its listener with*)
(* it: what it commits before it sees the cancel, the app is not told.     *)
(***************************************************************************)
EXTENDS Naturals, FiniteSetsExt, SequencesExt

CONSTANTS
    None,
    Participants,   \* the strings of addresses a conversation is found by
    MaxId,          \* bound on the ids of conversations
    MaxMessages,    \* bound on the ids of messages; the newest is the largest
    Hasty,          \* does the user act during a sync and before all events?
    MaxActions,     \* bounds on what the user does, and on deletions elsewhere
    MaxDeletes

ASSUME ConversationsAssumption ==
    /\ None \notin Participants
    /\ MaxId \in Nat \ {0} /\ MaxMessages \in Nat
    /\ Hasty \in BOOLEAN /\ MaxActions \in Nat /\ MaxDeletes \in Nat

VARIABLES
    conversations,  \* the table: id to participants
    inConv,         \* the table `messages`: 0 for none and for a tombstone
    sentTo,         \* whom a message was exchanged with
    sendable,       \* conversations with a draft in state Sending
    cached,         \* ConversationsImpl::conversations_
    idOf,           \* ConversationsImpl::participantsToConversationId_
    latest,         \* ConversationsImpl::latestMessageTimestampsCache_
    cachedMsgs,     \* MessagesImpl::messages_ and idsForConvId_
    events,         \* on their way to the app's thread
    removing, stage, left,  \* the conversation being removed, what of it comes next
    pc,             \* where the sync is
    job,            \* the conversation the uploader has loaded
    out,            \* what the sync emits next
    old,            \* a cancelled SyncerWorker that has not noticed yet
    overran,        \* has a cancelled sync done more than end?
    thrown,         \* the first exception or assertion of a kind that matters
    actions, deletes

tables == <<conversations, inConv, sentTo, sendable>>
caches == <<cached, idOf, latest, cachedMsgs>>
app    == <<removing, stage, left>>
sync   == <<pc, job, out, old, overran>>
cancelled == <<old, overran>>
vars   == <<tables, caches, events, app, sync, thrown, actions, deletes>>

Ids      == 1 .. MaxId
Messages == 1 .. MaxMessages
Kinds    == {"messageAdded", "messageRemoved", "conversationAdded",
             "conversationModified", "conversationWillBeRemoved"}
Event    == [kind : Kinds, conv : Ids \cup {0}, msg : Messages \cup {0}]
Job      == [conv : Ids, parts : Participants \cup {None}]
Phases   == {"loop", "loading", "posting", "inbox"}
Old      == [pc : Phases, job : Job \cup {None}]
Thrown   == {"add", "added", "modified", "erased", "conv"}

ASSUME NoneIsNoValue == None \notin Job \cup Old /\ None \notin Thrown /\ None \notin 0 .. MaxMessages

\* The types; the table's participants are UNIQUE.
TypeOK ==
    /\ conversations \in [Ids -> Participants \cup {None}]
    /\ \A c, d \in Ids : conversations[c] = conversations[d] /\ conversations[c] # None => c = d
    /\ inConv \in [Messages -> 0 .. MaxId]
    /\ sentTo \in [Messages -> Participants \cup {None}]
    /\ sendable \subseteq Ids
    /\ cached \in [Ids -> Participants \cup {None}]
    /\ idOf \in [Participants -> 0 .. MaxId]
    /\ latest \in [Ids -> 0 .. MaxMessages \cup {None}]
    /\ cachedMsgs \in [Messages -> 0 .. MaxId]
    /\ events \in Seq(Event) /\ out \in Seq(Event)
    /\ removing \in 0 .. MaxId
    /\ stage \in {"none", "messages", "draft", "conversation"} /\ left \subseteq Messages
    /\ removing = 0 <=> stage = "none"
    /\ pc \in {"idle", "emitSent", "emitNew"} \cup Phases
    /\ job \in Job \cup {None}
    /\ pc \in {"loading", "posting"} <=> job # None
    /\ pc = "posting" => job.parts # None
    /\ pc \in {"emitSent", "emitNew"} <=> out # <<>>
    /\ old \in Old \cup {None} /\ overran \in BOOLEAN
    /\ old # None /\ old.pc \in {"loading", "posting"} => old.job # None
    /\ old # None /\ old.pc = "posting" => old.job.parts # None
    /\ thrown \in Thrown \cup {None}
    /\ actions \in 0 .. MaxActions /\ deletes \in 0 .. MaxDeletes

Init ==
    /\ conversations = [c \in Ids |-> None]
    /\ inConv = [m \in Messages |-> 0] /\ sentTo = [m \in Messages |-> None]
    /\ sendable = {}
    /\ cached = conversations /\ idOf = [p \in Participants |-> 0]
    /\ latest = [c \in Ids |-> None] /\ cachedMsgs = inConv
    /\ events = <<>> /\ removing = 0 /\ stage = "none" /\ left = {}
    /\ pc = "idle" /\ job = None /\ out = <<>>
    /\ old = None /\ overran = FALSE
    /\ thrown = None /\ actions = 0 /\ deletes = 0

-----------------------------------------------------------------------------
(* The tables.                                                             *)

Ev(kind, c, m) == [kind |-> kind, conv |-> c, msg |-> m]

Existing(p) == {c \in Ids : conversations[c] = p}

\* INTEGER PRIMARY KEY without AUTOINCREMENT: the largest id in use plus one.
NewId == 1 + Max({c \in Ids : conversations[c] # None} \cup {0})

\* loadLastMessageTime(): 0 for an empty conversation.
LatestOf(c) == Max({m \in Messages : inConv[m] = c} \cup {0})

NextMessage == {m \in Messages : sentTo[m] = None /\ \A n \in 1 .. m - 1 : sentTo[n] # None}

-----------------------------------------------------------------------------
(* The app's thread: calls of the user.                                    *)

Quiet == pc = "idle" /\ events = <<>> /\ removing = 0

Acts ==
    /\ removing = 0
    /\ Hasty \/ Quiet
    /\ actions < MaxActions /\ actions' = actions + 1

\* Looks for the participants in the cache only; INSERT fails on a duplicate.
add(p) ==
    /\ Acts
    /\ idOf[p] = 0
    /\ IF Existing(p) # {}
       THEN thrown' = "add" /\ UNCHANGED <<conversations, events>>
       ELSE /\ NewId \in Ids
            /\ conversations' = [conversations EXCEPT ![NewId] = p]
            /\ events' = Append(events, Ev("conversationAdded", NewId, 0))
            /\ UNCHANGED thrown
    /\ UNCHANGED <<inConv, sentTo, sendable, caches, app, sync, deletes>>

triggerRemoval(c) ==
    /\ Acts
    /\ cached[c] # None
    /\ events' = Append(events, Ev("conversationWillBeRemoved", c, 0))
    /\ UNCHANGED <<tables, caches, app, sync, thrown, deletes>>

latestMessageTimestamp(c) ==
    /\ removing = 0
    /\ cached[c] # None /\ latest[c] = None
    /\ latest' = [latest EXCEPT ![c] = LatestOf(c)]
    /\ UNCHANGED <<tables, cached, idOf, cachedMsgs, events, app, sync, thrown, actions, deletes>>

\* MessagesImpl::remove()
RemoveMessage(m) ==
    /\ Acts
    /\ cachedMsgs[m] # 0
    /\ cachedMsgs' = [cachedMsgs EXCEPT ![m] = 0]
    /\ inConv' = [inConv EXCEPT ![m] = 0]
    /\ events' = events \o <<Ev("conversationModified", cachedMsgs[m], 0),
                             Ev("messageRemoved", cachedMsgs[m], m)>>
    /\ UNCHANGED <<conversations, sentTo, sendable, cached, idOf, latest, app, sync, thrown, deletes>>

\* DraftsImpl::prepareToSend()
PrepareToSend(c) ==
    /\ Acts
    /\ cached[c] # None /\ c \notin sendable
    /\ sendable' = sendable \cup {c}
    /\ UNCHANGED <<conversations, inConv, sentTo, caches, events, app, sync, thrown, deletes>>

-----------------------------------------------------------------------------
(* The app's thread: SessionImpl::notify().                                *)

Handles(kind) ==
    /\ removing = 0 /\ events # <<>> /\ Head(events).kind = kind
    /\ events' = Tail(events)

MessageAdded ==
    /\ Handles("messageAdded")
    /\ LET m == Head(events).msg IN cachedMsgs' = [cachedMsgs EXCEPT ![m] = inConv[m]]
    /\ UNCHANGED <<tables, cached, idOf, latest, app, sync, thrown, actions, deletes>>

MessageRemoved ==
    /\ Handles("messageRemoved")
    /\ cachedMsgs' = [cachedMsgs EXCEPT ![Head(events).msg] = 0]
    /\ UNCHANGED <<tables, cached, idOf, latest, app, sync, thrown, actions, deletes>>

\* DatabaseIntegrityError when the row is gone.  emplace() keeps what is there.
ConversationAdded ==
    /\ Handles("conversationAdded")
    /\ LET c == Head(events).conv
           p == conversations[c]
       IN  IF p = None
           THEN thrown' = "added" /\ UNCHANGED <<cached, idOf>>
           ELSE /\ idOf' = [idOf EXCEPT ![p] = c]
                /\ cached' = [cached EXCEPT ![c] = IF @ = None THEN p ELSE @]
                /\ UNCHANGED thrown
    /\ UNCHANGED <<tables, latest, cachedMsgs, app, sync, actions, deletes>>

ConversationModified_Slip ==
    /\ Handles("conversationModified")
    /\ LET c == Head(events).conv
           p == conversations[c]
       IN  IF p = None
           THEN thrown' = "modified" /\ UNCHANGED cached
           ELSE cached' = [cached EXCEPT ![c] = p] /\ UNCHANGED thrown
    /\ UNCHANGED <<tables, idOf, latest, cachedMsgs, app, sync, actions, deletes>>
ConversationModified ==
    /\ Handles("conversationModified")
    /\ LET c == Head(events).conv
           p == conversations[c]
       IN  IF p = None
           THEN thrown' = "modified" /\ UNCHANGED <<cached, latest>>
           ELSE /\ cached' = [cached EXCEPT ![c] = p]
                /\ latest' = [latest EXCEPT ![c] = LatestOf(c)]
                /\ UNCHANGED thrown
    /\ UNCHANGED <<tables, idOf, cachedMsgs, app, sync, actions, deletes>>

\* RemovalEventDispatcher: the messages that are cached, the draft, then the
\* conversation; each in a transaction of its own.
ConversationWillBeRemoved_Slip ==
    /\ Handles("conversationWillBeRemoved")
    /\ removing' = Head(events).conv /\ stage' = "draft"
    /\ UNCHANGED <<tables, caches, left, sync, thrown, actions, deletes>>
ConversationWillBeRemoved ==
    /\ Handles("conversationWillBeRemoved")
    /\ removing' = Head(events).conv /\ stage' = "messages"
    /\ left' = {m \in Messages : cachedMsgs[m] = Head(events).conv}
    /\ UNCHANGED <<tables, caches, sync, thrown, actions, deletes>>

RemoveNextMessage ==
    /\ stage = "messages"
    /\ IF left = {}
       THEN stage' = "draft" /\ UNCHANGED <<left, cachedMsgs, inConv, events>>
       ELSE LET m == Min(left)
            IN  /\ left' = left \ {m}
                /\ cachedMsgs' = [cachedMsgs EXCEPT ![m] = 0]
                /\ inConv' = [inConv EXCEPT ![m] = 0]
                /\ events' = Append(events, Ev("messageRemoved", removing, m))
                /\ UNCHANGED stage
    /\ UNCHANGED <<conversations, sentTo, sendable, cached, idOf, latest, removing, sync,
                   thrown, actions, deletes>>

RemoveDraft_Slip ==
    /\ stage = "draft" /\ stage' = "conversation"
    /\ UNCHANGED <<tables, caches, events, removing, left, sync, thrown, actions, deletes>>
RemoveDraft ==
    /\ stage = "draft" /\ stage' = "conversation"
    /\ sendable' = sendable \ {removing}
    /\ UNCHANGED <<conversations, inConv, sentTo, caches, events, removing, left, sync,
                   thrown, actions, deletes>>

\* kulloAssert(countErased > 0)
RemoveConversation ==
    /\ stage = "conversation"
    /\ LET p == cached[removing]
       IN  CASE p = None -> UNCHANGED <<conversations, cached, idOf, latest, thrown>>
             [] p # None /\ idOf[p] = 0 ->
                    thrown' = "erased" /\ UNCHANGED <<conversations, cached, idOf, latest>>
             [] OTHER -> /\ conversations' = [conversations EXCEPT ![removing] = None]
                         /\ cached' = [cached EXCEPT ![removing] = None]
                         /\ idOf' = [idOf EXCEPT ![p] = 0]
                         /\ latest' = [latest EXCEPT ![removing] = None]
                         /\ UNCHANGED thrown
    /\ removing' = 0 /\ stage' = "none"
    /\ UNCHANGED <<left, inConv, sentTo, sendable, cachedMsgs, events, sync, actions, deletes>>

-----------------------------------------------------------------------------
(* The sync's thread.                                                      *)

\* A patient app starts no sync before a removal it triggered is done.
StartSync ==
    /\ pc = "idle" /\ pc' = "loop"
    /\ Hasty \/ (removing = 0 /\ \A i \in DOMAIN events : events[i].kind # "conversationWillBeRemoved")
    /\ UNCHANGED <<tables, caches, events, app, job, out, cancelled, thrown, actions, deletes>>

\* firstSendable(): the draft, whose conversation is loaded by a later read.
FirstSendable ==
    /\ pc = "loop"
    /\ \/ /\ sendable = {} /\ pc' = "inbox" /\ UNCHANGED job
       \/ /\ sendable # {} /\ pc' = "loading"
          /\ \E c \in sendable : job' = [conv |-> c, parts |-> None]
    /\ UNCHANGED <<tables, caches, events, app, out, cancelled, thrown, actions, deletes>>

\* loadConversation() throws when the row is gone; the handler of the exception
\* then uses the null pointer.
LoadConversation ==
    /\ pc = "loading"
    /\ IF conversations[job.conv] = None
       THEN pc' = "idle" /\ job' = None /\ thrown' = "conv"
       ELSE /\ pc' = "posting"
            /\ job' = [job EXCEPT !.parts = conversations[job.conv]]
            /\ UNCHANGED thrown
    /\ UNCHANGED <<tables, caches, events, app, out, cancelled, actions, deletes>>

\* MessageAdder, in the uploader's or the syncer's transaction, and behind it.
addMessage(m, c, p) ==
    /\ inConv' = [inConv EXCEPT ![m] = c]
    /\ sentTo' = [sentTo EXCEPT ![m] = p]
emitSignals(m, c, isNew) ==
    out' = <<Ev("messageAdded", c, m),
             Ev(IF isNew THEN "conversationAdded" ELSE "conversationModified", c, 0)>>

\* sendMessageToSelf() was answered.  conversation.save() does nothing, because
\* the row was there when it was loaded.  clearDraft() is part of the step.
Posted ==
    /\ pc = "posting"
    /\ \E m \in NextMessage : addMessage(m, job.conv, job.parts) /\ emitSignals(m, job.conv, FALSE)
    /\ sendable' = sendable \ {job.conv}
    /\ job' = None /\ pc' = "emitSent"
    /\ UNCHANGED <<conversations, caches, events, app, cancelled, thrown, actions, deletes>>

\* The request fails: resetDraftToEditing(), and on with the next draft.
GiveBack ==
    /\ pc = "posting" /\ pc' = "loop"
    /\ sendable' = sendable \ {job.conv} /\ job' = None
    /\ UNCHANGED <<conversations, inConv, sentTo, caches, events, app, out, cancelled, thrown,
                   actions, deletes>>

\* Another exception, or the end of the sync.
Leave ==
    /\ pc \in {"loop", "posting", "inbox"}
    /\ pc' = "idle" /\ job' = None
    /\ UNCHANGED <<tables, caches, events, app, out, cancelled, thrown, actions, deletes>>

\* The conversation of p is c, which is a new row if there was none.
makeConversation(p, c, isNew) ==
    \/ ~isNew /\ c \in Existing(p) /\ UNCHANGED conversations
    \/ /\ isNew /\ Existing(p) = {} /\ c = NewId
       /\ conversations' = [conversations EXCEPT ![c] = p]

\* handleNewMessage(): makeConversation() and addMessage() in one transaction.
NewMessage(p) ==
    /\ pc = "inbox" /\ pc' = "emitNew"
    /\ \E m \in NextMessage, c \in Ids, isNew \in BOOLEAN :
          makeConversation(p, c, isNew) /\ addMessage(m, c, p) /\ emitSignals(m, c, isNew)
    /\ UNCHANGED <<sendable, caches, events, app, job, cancelled, thrown, actions, deletes>>

\* handleDeletedMessage(): no conversationModified.
DeletedMessage(m) ==
    /\ pc = "inbox" /\ inConv[m] # 0
    /\ deletes < MaxDeletes /\ deletes' = deletes + 1
    /\ inConv' = [inConv EXCEPT ![m] = 0]
    /\ out' = <<Ev("messageRemoved", inConv[m], m)>> /\ pc' = "emitNew"
    /\ UNCHANGED <<conversations, sentTo, sendable, caches, events, app, job, cancelled, thrown, actions>>

\* The uploader looks for the next draft, the syncer for the next message.
AfterEmit == IF pc = "emitSent" THEN "loop" ELSE "inbox"
Emit ==
    /\ pc \in {"emitSent", "emitNew"}
    /\ events' = events \o out /\ out' = <<>>
    /\ pc' = AfterEmit
    /\ UNCHANGED <<tables, caches, app, job, cancelled, thrown, actions, deletes>>

-----------------------------------------------------------------------------
(* A cancelled sync.                                                       *)

\* SyncerImpl::cancel(): no sync runs for the app, which may act and start the
\* next one; what the old one has not emitted yet is dropped.
Cancel ==
    /\ pc # "idle" /\ old = None
    /\ old' = [pc |-> IF pc \in Phases THEN pc ELSE AfterEmit, job |-> job]
    /\ overran' = (overran \/ out # <<>>)
    /\ pc' = "idle" /\ job' = None /\ out' = <<>>
    /\ UNCHANGED <<tables, caches, events, app, thrown, actions, deletes>>

\* A check of shouldCancel, of which there is one between any two commits.
OldLeaves ==
    /\ old # None /\ old' = None
    /\ UNCHANGED <<tables, caches, events, app, pc, job, out, overran, thrown, actions, deletes>>

\* Past its last check it finishes what it has in hand, and tells nobody.
Overruns(phase) ==
    /\ old # None /\ old.pc = phase /\ old' = None /\ overran' = TRUE
    /\ UNCHANGED <<caches, events, app, pc, job, out, actions>>
OldLoads ==
    /\ Overruns("loading")
    /\ thrown' = IF conversations[old.job.conv] = None THEN "conv" ELSE thrown
    /\ UNCHANGED <<tables, deletes>>
OldPosts ==
    /\ Overruns("posting")
    /\ \/ \E m \in NextMessage : addMessage(m, old.job.conv, old.job.parts)
       \/ UNCHANGED <<inConv, sentTo>>  \* as in GiveBack
    /\ sendable' = sendable \ {old.job.conv}
    /\ UNCHANGED <<conversations, thrown, deletes>>
OldReceives(p) ==
    /\ Overruns("inbox")
    /\ \E m \in NextMessage, c \in Ids, isNew \in BOOLEAN :
          makeConversation(p, c, isNew) /\ addMessage(m, c, p)
    /\ UNCHANGED <<sendable, thrown, deletes>>
OldDeletes(m) ==
    /\ Overruns("inbox") /\ inConv[m] # 0
    /\ deletes < MaxDeletes /\ deletes' = deletes + 1
    /\ inConv' = [inConv EXCEPT ![m] = 0]
    /\ UNCHANGED <<conversations, sentTo, sendable, thrown>>

-----------------------------------------------------------------------------
AppStep ==
    \/ MessageAdded \/ MessageRemoved \/ ConversationAdded \/ ConversationModified
    \/ ConversationWillBeRemoved \/ RemoveNextMessage \/ RemoveDraft \/ RemoveConversation
SyncStep ==
    \/ StartSync \/ FirstSendable \/ LoadConversation \/ Posted \/ GiveBack \/ Leave \/ Emit
    \/ \E p \in Participants : NewMessage(p)
    \/ \E m \in Messages : DeletedMessage(m)
OldStep ==
    \/ Cancel \/ OldLeaves \/ OldLoads \/ OldPosts
    \/ \E p \in Participants : OldReceives(p)
    \/ \E m \in Messages : OldDeletes(m)
Next ==
    \/ AppStep \/ SyncStep \/ OldStep
    \/ \E p \in Participants : add(p)
    \/ \E c \in Ids : triggerRemoval(c) \/ latestMessageTimestamp(c) \/ PrepareToSend(c)
    \/ \E m \in Messages : RemoveMessage(m)

Spec == Init /\ [][Next]_vars

-----------------------------------------------------------------------------
(* Properties.  They hold until a cancelled sync has gone on: of what that  *)
(* commits the caches never learn, however long the user waits.            *)

\* A message is in the conversation of the people it was exchanged with: it is
\* no orphan of a removed one, and none that got the same id shows it.
RightConversation ==
    ~overran => \A m \in Messages : inConv[m] # 0 => conversations[inConv[m]] = sentTo[m]

\* No call and no event of a patient app ends in an exception or a failed
\* assertion, and no upload finds its conversation gone.
NothingThrown == ~overran => thrown = None

\* Once all events are handled the app shows what the tables hold, finds each
\* conversation by its participants, and nothing else, and sorts it by its latest
\* message, if no message was deleted by another device.
CacheAgrees ==
    Quiet /\ ~overran =>
        /\ cached = conversations
        /\ cachedMsgs = inConv
        /\ \A p \in Participants, c \in Ids : idOf[p] = c <=> conversations[c] = p
        /\ deletes = 0 => \A c \in Ids : latest[c] \in {None, LatestOf(c)}

=============================================================================
