----------------------------- MODULE MessageSync ----------------------------
(***************************************************************************)
(* Synchronisation of the messages of one account: the worker thread runs  *)
(* MessagesSyncer (sync/messagessyncer.cpp) against the server and the     *)
(* database, while the main thread changes messages through MessagesImpl   *)
(* (api_impl/messagesimpl.cpp), whose cached MessageDao objects are        *)
(* refreshed by events that the worker posts after its commits.            *)
(*                                                                         *)
(* One step of the worker is one database transaction, one statement       *)
(* outside of a transaction, or one HTTP exchange; the main thread and the *)
(* other devices of the user act between any two of them.                  *)
(***************************************************************************)
EXTENDS MessageDao, Sequences, FiniteSets

CONSTANTS
    Msgs,           \* message ids
    RemoteStates,   \* meta data that senders and other devices write
    Own,            \* messages whose sender is the user
    Undecodable,    \* messages that tryDecrypt() or tryDecode() reject
    PageSize,       \* messages in one reply to getMessages()
    ConcurrentUi,   \* may the user act before a sync and its events are over?
    Budget          \* bounds the steps of the environment, see Spend

\* The parties whose steps are bounded: other devices and senders, the user
\* of this device, network errors and crashes, and Syncer::cancel().
Kinds == {"remote", "user", "fault", "cancel"}

ASSUME ConstantsAssumption ==
    /\ RemoteStates \subseteq [meta: Nat, read: BOOLEAN, done: BOOLEAN]
    /\ Own \subseteq Msgs
    /\ Undecodable \subseteq Msgs
    /\ PageSize \in Nat \ {0}
    /\ ConcurrentUi \in BOOLEAN
    /\ Budget \in [Kinds -> Nat]

VARIABLES
    server,     \* the server's rows; lm is the version it gave the message
    clock,      \* the last version the server gave out
    local,      \* messages with old = 0
    old,        \* messages with old = 1
    timestamp,  \* SyncDao::timestamp(Message)
    cache,      \* MessagesImpl::messages_
    index,      \* MessagesImpl::idsForConvId_: the conversations listing an id
    events,     \* internal events posted and not yet notified
    pc,         \* where the worker is
    batch,      \* messages of the current getMessages() result, unprocessed
    more,       \* result.countReturned < result.countLeft
    loaded,     \* `local` of the loop in downloadAndProcessMessages()
    todo,       \* ids left in the loop of uploadModifications()
    reply,      \* IdLastModified returned by deleteMessage() or modifyMeta()
    cancelled,  \* *shouldCancel_, and sessionListener_ dropped
    budget      \* steps each environment party may still take

serverVars == <<server, clock>>
dbVars     == <<local, old, timestamp>>
uiVars     == <<cache, index, events>>
loopVars   == <<batch, more, loaded, todo, reply>>
vars == <<server, clock, local, old, timestamp, cache, index, events,
          pc, batch, more, loaded, todo, reply, cancelled, budget>>

Entry == [msg: Msgs, row: Row]
Event == [type: {"added", "modified", "removed"}, msg: Msgs]
PCs   == {"idle", "download", "process", "handle", "stamp", "upload", "reply"}

\* The types; an event that no handler knows would be one of them broken.
TypeOK ==
    /\ server \in [Msgs -> Row \cup {None}]
    /\ clock \in Nat
    /\ local \in [Msgs -> Row \cup {None}]
    /\ old \in [Msgs -> Row \cup {None}]
    /\ timestamp \in Nat
    /\ cache \in [Msgs -> Row \cup {None}]
    /\ index \in [Msgs -> SUBSET ConvIds]
    /\ events \in Seq(Event)
    /\ pc \in PCs
    /\ batch \in SUBSET Entry
    /\ more \in BOOLEAN
    /\ loaded \in Row \cup {None}
    /\ todo \in SUBSET Msgs
    /\ reply \in [msg: Msgs, lm: Nat] \cup {None}
    /\ cancelled \in BOOLEAN
    /\ budget \in [Kinds -> Nat]

Init ==
    /\ server = [m \in Msgs |-> None]
    /\ clock = 0
    /\ local = [m \in Msgs |-> None]
    /\ old = [m \in Msgs |-> None]
    /\ timestamp = 0
    /\ cache = [m \in Msgs |-> None]
    /\ index = [m \in Msgs |-> {}]
    /\ events = <<>>
    /\ pc = "idle"
    /\ batch = {}
    /\ more = FALSE
    /\ loaded = None
    /\ todo = {}
    /\ reply = None
    /\ cancelled = FALSE
    /\ budget = Budget

Spend(kind) ==
    /\ budget[kind] > 0
    /\ budget' = [budget EXCEPT ![kind] = @ - 1]

-----------------------------------------------------------------------------
(* The server, as the other devices and senders of the user change it.     *)

Live(row) == row # None /\ ~row.deleted

\* A message arrives, or another device writes the state of one.
RemoteWrite(m, s) ==
    /\ Spend("remote")
    /\ server[m] = None \/ Live(server[m])
    /\ clock' = clock + 1
    /\ server' = [server EXCEPT ![m] =
            [lm |-> clock', deleted |-> FALSE,
             meta |-> s.meta, read |-> s.read, done |-> s.done]]
    /\ UNCHANGED <<dbVars, uiVars, pc, loopVars, cancelled>>

RemoteDelete(m) ==
    /\ Spend("remote")
    /\ Live(server[m])
    /\ clock' = clock + 1
    /\ server' = [server EXCEPT ![m] = Tombstone(clock')]
    /\ UNCHANGED <<dbVars, uiVars, pc, loopVars, cancelled>>

-----------------------------------------------------------------------------
(* The worker: MessagesSyncer::run.                                        *)

Emit_Slip(type, m) ==   \* the syncer's messageDeleted is not renamed
    events' = IF cancelled THEN events
              ELSE Append(events, [type |-> IF type = "removed" THEN "deleted" ELSE type,
                                   msg |-> m])

\* sendEvent(): after SyncerWorker::cancel() there is no listener to tell.
Emit(type, m) ==
    events' = IF cancelled THEN events
              ELSE Append(events, [type |-> type, msg |-> m])

\* What parseMeta() makes of the stored meta data: the user's own messages, and
\* those with meta data of an unknown version, count as read and done.
DecodedState(m, row, state) ==
    m \in Own \/ row.meta > LATEST_META_VERSION \/ row[state]

StartSync ==
    /\ pc = "idle"
    /\ pc' = "download"
    /\ cancelled' = FALSE
    /\ UNCHANGED <<serverVars, dbVars, uiVars, loopVars, budget>>

\* The messages getMessages(modifiedAfter = timestamp) may return: the page
\* of those that changed first.
Changed == {m \in Msgs : server[m] # None /\ server[m].lm > timestamp}

Pages == {p \in SUBSET Changed :
            /\ Cardinality(p) = PageSize \/ (p = Changed /\ Cardinality(p) < PageSize)
            /\ \A m \in p, n \in Changed \ p : server[m].lm < server[n].lm}

Download_Slip ==    \* `<=` in the loop condition
    /\ pc = "download"
    /\ \E p \in Pages : batch' = {[msg |-> m, row |-> server[m]] : m \in p}
    /\ more' = TRUE
    /\ pc' = "process"
    /\ UNCHANGED <<serverVars, dbVars, uiVars, loaded, todo, reply, cancelled, budget>>

Download ==
    /\ pc = "download"
    /\ \E p \in Pages :
        /\ batch' = {[msg |-> m, row |-> server[m]] : m \in p}
        /\ more' = (p # Changed)
    /\ pc' = "process"
    /\ UNCHANGED <<serverVars, dbVars, uiVars, loaded, todo, reply, cancelled, budget>>

\* The message the loop over result.messages is at.
IsNext(e) == e \in batch /\ \A f \in batch : e.row.lm <= f.row.lm

LoadLocal_Slip ==   \* the timestamp is advanced before the message is handled
    /\ pc = "process"
    /\ ~cancelled
    /\ \E e \in batch : IsNext(e) /\ loaded' = local[e.msg] /\ timestamp' = e.row.lm
    /\ pc' = "handle"
    /\ UNCHANGED <<serverVars, local, old, uiVars, batch, more, todo, reply,
                   cancelled, budget>>

\* The head of the loop; the row is loaded outside of any transaction.
LoadLocal ==
    /\ pc = "process"
    /\ ~cancelled
    /\ \E e \in batch : IsNext(e) /\ loaded' = local[e.msg]
    /\ pc' = "handle"
    /\ UNCHANGED <<serverVars, dbVars, uiVars, batch, more, todo, reply, cancelled, budget>>

HandleNewTombstone(e) ==
    /\ loaded = None /\ e.row.deleted
    /\ local' = [local EXCEPT ![e.msg] = Tombstone(e.row.lm)]
    /\ UNCHANGED <<old, events>>

\* The row the decoder makes of a downloaded message; it does not look at the
\* meta data of the user's own ones.
Decoded(m, row) ==
    [row EXCEPT !.meta = IF m \in Own THEN LATEST_META_VERSION ELSE @,
                !.read = DecodedState(m, row, "read"),
                !.done = DecodedState(m, row, "done")]

\* tryDecrypt() and tryDecode(): a message whose keys are missing, whose content
\* is malformed or of an unknown version, or whose signature is wrong is skipped.
Decodes(m) == m \notin Undecodable

HandleNewMessage(e) ==
    LET remote == Decoded(e.msg, e.row) IN
    /\ loaded = None /\ ~e.row.deleted
    /\ IF ~Decodes(e.msg)
       THEN UNCHANGED <<local, old, events>>
       ELSE /\ IF remote.meta < LATEST_META_VERSION
               THEN /\ local' = [local EXCEPT ![e.msg] =
                                    [remote EXCEPT !.meta = LATEST_META_VERSION]]
                    /\ old' = [old EXCEPT ![e.msg] = remote]
               ELSE /\ local' = [local EXCEPT ![e.msg] = remote]
                    /\ UNCHANGED old
            /\ Emit("added", e.msg)

\* save(CreateOld::No) of the loaded object writes all columns, but only when
\* one of its fields was changed.
SaveLoaded(m, row) ==
    local' = [local EXCEPT ![m] = IF row = loaded THEN @ ELSE row]

HandleDeletedMessage(e) ==
    /\ loaded # None /\ e.row.deleted
    /\ old' = [old EXCEPT ![e.msg] = None]
    /\ SaveLoaded(e.msg, Tombstone(e.row.lm))
    /\ Emit("removed", e.msg)

MergedState_Slip(state, mine, base, remote) == remote[state]    \* remote wins

\* The state a merge keeps: the remote one only if it alone was changed.
MergedState(state, mine, base, remote) ==
    IF mine[state] # remote[state] /\ base[state] = mine[state]
    THEN remote[state] ELSE mine[state]

Merge_Slip(mine, base, remote) == remote   \* no look at local.deleted()

Merge(mine, base, remote) ==
    LET versioned == [mine EXCEPT !.lm = remote.lm] IN
    IF base = None
    THEN [versioned EXCEPT !.read = remote.read, !.done = remote.done]
    ELSE IF mine.deleted
    THEN versioned
    ELSE [versioned EXCEPT !.read = MergedState("read", mine, base, remote),
                           !.done = MergedState("done", mine, base, remote)]

\* "update old with remote"
RefreshOld(base, remote) ==
    [base EXCEPT !.lm = remote.lm, !.deleted = FALSE,
                 !.read = remote.read, !.done = remote.done]

HandleModifiedMessage(e) ==
    LET m == e.msg
        remote == Decoded(m, e.row)
        merged == Merge(loaded, old[m], remote)
    IN  /\ loaded # None /\ ~e.row.deleted
        /\ IF ~Decodes(m)
           THEN UNCHANGED <<local, old, events>>
           ELSE /\ old' = [old EXCEPT ![m] =
                        IF @ = None \/ SameContent(merged, @) THEN None
                        ELSE RefreshOld(@, remote)]
                /\ SaveLoaded(m, merged)
                /\ IF merged = loaded THEN UNCHANGED events ELSE Emit("modified", m)

Handle ==
    /\ pc = "handle"
    /\ \E e \in batch :
        /\ IsNext(e)
        /\ \/ HandleNewTombstone(e)
           \/ HandleNewMessage(e)
           \/ HandleDeletedMessage(e)
           \/ HandleModifiedMessage(e)
    /\ pc' = "stamp"
    /\ UNCHANGED <<serverVars, timestamp, cache, index, loopVars, cancelled, budget>>

Stamp_Slip ==       \* the server's current version instead of the message's
    /\ pc = "stamp"
    /\ \E e \in batch : IsNext(e) /\ batch' = batch \ {e}
    /\ timestamp' = clock
    /\ loaded' = None
    /\ pc' = "process"
    /\ UNCHANGED <<serverVars, local, old, uiVars, more, todo, reply, cancelled, budget>>

\* SyncDao::setTimestamp(), in a transaction of its own.
Stamp ==
    /\ pc = "stamp"
    /\ \E e \in batch :
        /\ IsNext(e)
        /\ timestamp' = e.row.lm
        /\ batch' = batch \ {e}
    /\ loaded' = None
    /\ pc' = "process"
    /\ UNCHANGED <<serverVars, local, old, uiVars, more, todo, reply, cancelled, budget>>

LocallyModified_Slip ==     \* `<` instead of `<=`
    {m \in Msgs : old[m] # None /\ old[m].meta < LATEST_META_VERSION}

\* MessageDao::locallyModifiedMessages(LATEST_META_VERSION).
LocallyModified ==
    {m \in Msgs : old[m] # None /\ old[m].meta <= LATEST_META_VERSION}

\* The loop over a page ends: get the next page or go on to the upload.
PageDone ==
    /\ pc = "process"
    /\ batch = {}
    /\ IF more
       THEN pc' = "download" /\ UNCHANGED todo
       ELSE /\ pc' = "upload"
            /\ todo' = LocallyModified
    /\ UNCHANGED <<serverVars, dbVars, uiVars, batch, more, loaded, reply, cancelled, budget>>

\* What deleteMessage() or modifyMeta() make of the row on the server.
Uploaded(mine) ==
    IF mine.deleted THEN Tombstone(clock + 1)
    ELSE [lm |-> clock + 1, deleted |-> FALSE, meta |-> LATEST_META_VERSION,
          read |-> mine.read, done |-> mine.done]

\* One turn of the loop in uploadModifications() up to the server's answer:
\* nothing to send, a conflict, or a success.
Upload(m) ==
    /\ pc = "upload"
    /\ ~cancelled
    /\ m \in todo
    /\ todo' = todo \ {m}
    /\ LET nothing  == old[m] = None \/ SameContent(local[m], old[m])
           accepted == Live(server[m]) /\ server[m].lm = old[m].lm
       IN  IF nothing \/ ~accepted
           THEN UNCHANGED <<server, clock, pc, reply>>
           ELSE /\ server' = [server EXCEPT ![m] = Uploaded(local[m])]
                /\ clock' = clock + 1
                /\ reply' = [msg |-> m, lm |-> clock']
                /\ pc' = "reply"
    /\ UNCHANGED <<dbVars, uiVars, batch, more, loaded, cancelled, budget>>

HandleSuccessfulModification_Slip ==    \* messageModified is not emitted
    /\ pc = "reply"
    /\ local' = [local EXCEPT ![reply.msg].lm = reply.lm]
    /\ old' = [old EXCEPT ![reply.msg] = None]
    /\ reply' = None
    /\ pc' = "upload"
    /\ UNCHANGED <<serverVars, timestamp, uiVars, batch, more, loaded, todo,
                   cancelled, budget>>

HandleSuccessfulModification ==
    /\ pc = "reply"
    /\ LET m == reply.msg IN
        /\ local' = [local EXCEPT ![m].lm = reply.lm]
        /\ old' = [old EXCEPT ![m] = None]
        /\ IF local[m].deleted THEN UNCHANGED events ELSE Emit("modified", m)
    /\ reply' = None
    /\ pc' = "upload"
    /\ UNCHANGED <<serverVars, timestamp, cache, index, batch, more, loaded, todo,
                   cancelled, budget>>

ResetLoops ==
    /\ pc' = "idle"
    /\ batch' = {} /\ more' = FALSE /\ loaded' = None /\ todo' = {} /\ reply' = None
    /\ cancelled' = FALSE

Finish ==
    /\ pc = "upload"
    /\ todo = {}
    /\ ResetLoops
    /\ UNCHANGED <<serverVars, dbVars, uiVars, budget>>

\* A network error, an HTTP status other than Conflict, or a database that stays
\* busy ends the sync.  The server may have done what was asked ("reply").
Fail ==
    /\ pc # "idle"
    /\ Spend("fault")
    /\ ResetLoops
    /\ UNCHANGED <<serverVars, dbVars, uiVars>>

\* SyncerWorker::cancel(): the worker runs on until it looks at the flag.
Cancel ==
    /\ pc # "idle"
    /\ ~cancelled
    /\ Spend("cancel")
    /\ cancelled' = TRUE
    /\ UNCHANGED <<serverVars, dbVars, uiVars, pc, loopVars>>

ThrowCanceled ==
    /\ cancelled
    /\ \/ pc = "process" /\ batch # {}
       \/ pc = "upload" /\ todo # {}
    /\ ResetLoops
    /\ UNCHANGED <<serverVars, dbVars, uiVars, budget>>

-----------------------------------------------------------------------------
(* The main thread: MessagesImpl.                                          *)

UiMayAct == ConcurrentUi \/ (pc = "idle" /\ events = <<>>)

\* The app learns ids from allForConversation().
Shown(m) == "conv" \in index[m] /\ cache[m] # None

\* removeFromCache() can find the id in idsForConvId_.
CanRemoveFromCache(m) == ConvOf(cache[m]) \in index[m]

RemoveFromCache(m) ==
    /\ cache' = [cache EXCEPT ![m] = None]
    /\ index' = [index EXCEPT ![m] = @ \ {ConvOf(cache[m])}]

\* save(CreateOld::Yes) of a cached object.
SaveCached(m, row) ==
    /\ old' = [old EXCEPT ![m] = OldOnSave(@, local[m])]
    /\ local' = [local EXCEPT ![m] = row]

SetState(m, state, value) ==
    /\ UiMayAct
    /\ Shown(m)
    /\ cache[m][state] # value
    /\ Spend("user")
    /\ LET row == [cache[m] EXCEPT ![state] = value] IN
        /\ SaveCached(m, row)
        /\ cache' = [cache EXCEPT ![m] = row]
    /\ UNCHANGED <<serverVars, timestamp, index, events, pc, loopVars, cancelled>>

Remove(m) ==
    /\ UiMayAct
    /\ Shown(m)
    /\ CanRemoveFromCache(m)
    /\ Spend("user")
    /\ RemoveFromCache(m)
    /\ SaveCached(m, Tombstone(cache[m].lm))
    /\ events' = Append(events, [type |-> "removed", msg |-> m])
    /\ UNCHANGED <<serverVars, timestamp, pc, loopVars, cancelled>>

\* Session::notify() hands the oldest event to MessagesImpl.  When
\* removeFromCache() cannot find the id its assertion throws, nothing changes.
Notify ==
    /\ events # <<>>
    /\ events' = Tail(events)
    /\ LET m == Head(events).msg
           type == Head(events).type
       IN  \/ /\ type = "added"
              /\ cache' = [cache EXCEPT ![m] = IF @ = None THEN local[m] ELSE @]
              /\ index' = [index EXCEPT ![m] = @ \cup {ConvOf(local[m])}]
           \/ /\ type = "modified"
              /\ cache' = [cache EXCEPT ![m] = local[m]]
              /\ UNCHANGED index
           \/ /\ type = "removed"
              /\ IF cache[m] # None /\ CanRemoveFromCache(m)
                 THEN RemoveFromCache(m)
                 ELSE UNCHANGED <<cache, index>>
    /\ UNCHANGED <<serverVars, dbVars, pc, loopVars, cancelled, budget>>

\* The process dies and a new session loads all rows with old = 0.
Restart ==
    /\ Spend("fault")
    /\ ResetLoops
    /\ cache' = local
    /\ index' = [m \in Msgs |-> IF local[m] = None THEN {} ELSE {ConvOf(local[m])}]
    /\ events' = <<>>
    /\ UNCHANGED <<serverVars, dbVars>>

-----------------------------------------------------------------------------
Worker ==
    \/ StartSync \/ Download \/ LoadLocal \/ Handle \/ Stamp \/ PageDone
    \/ \E m \in Msgs : Upload(m)
    \/ HandleSuccessfulModification \/ Finish \/ ThrowCanceled

User ==
    \E m \in Msgs :
        \/ \E s \in States, b \in BOOLEAN : SetState(m, s, b)
        \/ Remove(m)

Remote ==
    \E m \in Msgs :
        \/ \E s \in RemoteStates : RemoteWrite(m, s)
        \/ RemoteDelete(m)

Next == Worker \/ Notify \/ User \/ Remote \/ Fail \/ Cancel \/ Restart

Spec == Init /\ [][Next]_vars

\* The worker thread and the main thread keep running and the app requests a
\* sync again and again; nobody else has to do anything.
FairSpec == Spec /\ WF_vars(Worker) /\ WF_vars(Notify)

-----------------------------------------------------------------------------
(* Properties.                                                             *)

\* The state of m that the client believes the server to have.
Base(m) == IF old[m] # None THEN old[m] ELSE local[m]

\* A row is the server's as this client decodes it.  A state that it uploaded
\* for a message of the user's own is the server's as well, although it will not
\* decode it as such when it meets the message again.
AgreesWith(m, row, remote) ==
    /\ row.deleted = remote.deleted
    /\ ~row.deleted => \A s \in States :
           row[s] = DecodedState(m, remote, s) \/ (m \in Own /\ row[s] = remote[s])

\* What the client believes of the server is so wherever it relies on it: below
\* the cursor, which downloadAndProcessMessages() moves message by message and
\* never back, and under the server's own version, with which the next upload
\* would overwrite a change of another device that the client does not know.
VersionsAreTrue ==
    \A m \in Msgs \ Undecodable :
        /\ server[m] # None
        /\ server[m].lm <= timestamp \/ (Base(m) # None /\ Base(m).lm = server[m].lm)
        => Base(m) # None /\ AgreesWith(m, Base(m), server[m])

\* A message the cursor has passed is in the database: no interleaving with
\* the user, a crash or a cancelled sync makes the client miss a message.
NothingUnseen ==
    \A m \in Msgs \ Undecodable :
        server[m] # None /\ server[m].lm <= timestamp => local[m] # None

\* cancel() drops the events that a worker still emits, and with them what the
\* user should see; CacheIsCurrent, DeletedForever and Converges are about the time before.
Uncancelled == budget["cancel"] = Budget["cancel"]

\* Once all events are delivered, what the user sees is what is stored.
CacheIsCurrent ==
    Uncancelled /\ pc = "idle" /\ events = <<>> =>
        \A m \in Msgs :
            /\ Live(local[m]) => cache[m] = local[m] /\ "conv" \in index[m]
            /\ Live(cache[m]) => Live(local[m])

\* "A remotely deleted message overrides all local changes", and "local
\* deletion > remote modification": no step turns a tombstone back.
DeletedForever ==
    [][Uncancelled => \A m \in Msgs : local[m] # None /\ local[m].deleted => local'[m].deleted]_vars

\* "local modification > remote modification": handling a download keeps a
\* state that was changed here and not yet uploaded.
LocalModificationWins ==
    [][Handle => \A m \in Msgs, s \in States :
            Live(local[m]) /\ old[m] # None /\ old[m][s] # local[m][s] =>
                local'[m].deleted \/ local'[m][s] = local[m][s]]_vars

\* locallyModifiedMessages() never offers a change of a message that came from a
\* newer client: it stays on this device.
HeldBack(m) == old[m] # None /\ old[m].meta > LATEST_META_VERSION

\* Every pending change of the user is eventually settled, and the replica ends
\* up saying what the server's rows decode to, but for messages that cannot be
\* decoded and changes that are held back.
Replicated(m) ==
    /\ local[m] # None
    /\ local[m].deleted = server[m].deleted
    /\ ~local[m].deleted =>
           \A s \in States : local[m][s] = DecodedState(m, server[m], s)

Converges ==
    []Uncancelled => <>[](\A m \in Msgs \ Undecodable :
                              server[m] # None => Replicated(m) \/ HeldBack(m))

\* A sync comes to an end, whatever the others do meanwhile.
SyncEnds == pc # "idle" ~> pc = "idle"

=============================================================================
