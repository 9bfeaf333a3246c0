-------------------------- MODULE MessageSyncProofs -------------------------
(***************************************************************************)
(* Theorems about MessageSync, for any set of messages, any page size, any *)
(* number of steps of the environment.                                     *)
(***************************************************************************)
EXTENDS MessageSync, TLAPS

\* What typing needs beside the types: a row with old = 1 has a row with
\* old = 0 beside it, and so has the message whose upload was confirmed.
Stored ==
    /\ \A m \in Msgs : old[m] # None => local[m] # None
    /\ pc = "reply" => reply \in [msg: Msgs, lm: Nat] /\ local[reply.msg] # None

\* Every operation on rows yields a row.
LEMMA RowTypes ==
    /\ \A lm \in Nat : Tombstone(lm) \in Row
    /\ \A m, row : row \in Row => Decoded(m, row) \in Row
    /\ \A base \in Row, remote \in Row : RefreshOld(base, remote) \in Row
    /\ \A mine \in Row, base \in Row \cup {None}, remote \in Row :
            Merge(mine, base, remote) \in Row
<1>1. \A lm \in Nat : Tombstone(lm) \in Row
    BY DEF Tombstone, Row
<1>2. \A m, row : row \in Row => Decoded(m, row) \in Row
    <2> SUFFICES ASSUME NEW m, NEW row \in Row PROVE Decoded(m, row) \in Row
        OBVIOUS
    <2>1. /\ DecodedState(m, row, "read") \in BOOLEAN
          /\ DecodedState(m, row, "done") \in BOOLEAN
        BY DEF DecodedState, Row
    <2> QED BY <2>1 DEF Decoded, Row, LATEST_META_VERSION
<1>3. \A base \in Row, remote \in Row : RefreshOld(base, remote) \in Row
    BY DEF RefreshOld, Row
<1>4. \A mine \in Row, base \in Row \cup {None}, remote \in Row :
            Merge(mine, base, remote) \in Row
    <2> TAKE mine \in Row, base \in Row \cup {None}, remote \in Row
    <2>1. /\ MergedState("read", mine, base, remote) \in BOOLEAN
          /\ MergedState("done", mine, base, remote) \in BOOLEAN
        BY DEF MergedState, Row
    <2> QED BY <2>1 DEF Merge, Row
<1> QED BY <1>1, <1>2, <1>3, <1>4

\* The initial state is well typed.
LEMMA TypeInit == Init => TypeOK
<1> SUFFICES ASSUME Init PROVE TypeOK
    OBVIOUS
<1>1. events \in Seq(Event)
    BY DEF Init
<1> QED BY <1>1, ConstantsAssumption DEF Init, TypeOK, PCs

\* A spent budget is a budget.
LEMMA SpendType ==
    ASSUME TypeOK, NEW k \in Kinds, Spend(k)
    PROVE  budget' \in [Kinds -> Nat]
BY DEF TypeOK, Spend

\* Posting an event, or dropping it after a cancel, leaves a queue of events.
LEMMA EmitType ==
    ASSUME TypeOK, NEW m \in Msgs, NEW t \in {"added", "modified", "removed"}, Emit(t, m)
    PROVE  events' \in Seq(Event)
<1>1. [type |-> t, msg |-> m] \in Event
    BY DEF Event
<1> HIDE DEF Event
<1>2. events \in Seq(Event)
    BY DEF TypeOK
<1>3. Append(events, [type |-> t, msg |-> m]) \in Seq(Event)
    BY <1>1, <1>2
<1> QED BY <1>2, <1>3 DEF Emit

\* The worker's local variables are well typed when a sync is over.
LEMMA ResetType ==
    ASSUME ResetLoops
    PROVE  /\ pc' \in PCs /\ batch' \in SUBSET Entry /\ more' \in BOOLEAN
           /\ loaded' \in Row \cup {None} /\ todo' \in SUBSET Msgs
           /\ reply' \in [msg: Msgs, lm: Nat] \cup {None} /\ cancelled' \in BOOLEAN
BY DEF ResetLoops, PCs

\* Handling a downloaded message keeps the types.
LEMMA TypeHandle == TypeOK /\ Handle => TypeOK'
<1> SUFFICES ASSUME TypeOK, Handle PROVE TypeOK'
    OBVIOUS
<1> PICK e \in batch :
        /\ IsNext(e)
        /\ \/ HandleNewTombstone(e)
           \/ HandleNewMessage(e)
           \/ HandleDeletedMessage(e)
           \/ HandleModifiedMessage(e)
    BY DEF Handle
<1>1. e.msg \in Msgs /\ e.row \in Row /\ e.row.lm \in Nat
    BY DEF TypeOK, Entry, Row
<1>2. /\ local' \in [Msgs -> Row \cup {None}]
      /\ old' \in [Msgs -> Row \cup {None}]
      /\ events' \in Seq(Event)
    <2>1. CASE HandleNewTombstone(e)
        BY <1>1, <2>1, RowTypes DEF HandleNewTombstone, TypeOK
    <2>2. CASE HandleNewMessage(e)
        <3> DEFINE remote == Decoded(e.msg, e.row)
        <3>1. remote \in Row /\ [remote EXCEPT !.meta = LATEST_META_VERSION] \in Row
            <4>1. remote \in Row
                BY <1>1, RowTypes
            <4> QED BY <4>1 DEF Row, LATEST_META_VERSION
        <3> HIDE DEF remote
        <3>2. CASE Decodes(e.msg)
            <4>1. Emit("added", e.msg)
                BY <2>2, <3>2 DEF HandleNewMessage
            <4>2. events' \in Seq(Event)
                BY <1>1, <4>1, EmitType
            <4>3. /\ local \in [Msgs -> Row \cup {None}] /\ old \in [Msgs -> Row \cup {None}]
                BY DEF TypeOK
            <4>4. /\ \/ local' = [local EXCEPT ![e.msg] = [remote EXCEPT !.meta = LATEST_META_VERSION]]
                     \/ local' = [local EXCEPT ![e.msg] = remote]
                  /\ old' = old \/ old' = [old EXCEPT ![e.msg] = remote]
                BY <2>2, <3>2 DEF HandleNewMessage, remote
            <4>5. local' \in [Msgs -> Row \cup {None}]
                BY <1>1, <3>1, <4>3, <4>4
            <4>6. old' \in [Msgs -> Row \cup {None}]
                BY <1>1, <3>1, <4>3, <4>4
            <4> QED BY <4>2, <4>5, <4>6
        <3>3. CASE ~Decodes(e.msg)
            BY <2>2, <3>3 DEF HandleNewMessage, TypeOK
        <3> QED BY <3>2, <3>3
    <2>3. CASE HandleDeletedMessage(e)
        <3>1. events' \in Seq(Event)
            BY <1>1, <2>3, EmitType DEF HandleDeletedMessage
        <3> QED BY <1>1, <2>3, <3>1, RowTypes DEF HandleDeletedMessage, SaveLoaded, TypeOK
    <2>4. CASE HandleModifiedMessage(e)
        <3> DEFINE m == e.msg
                   remote == Decoded(e.msg, e.row)
                   merged == Merge(loaded, old[m], remote)
        <3>1. remote \in Row
            BY <1>1, RowTypes
        <3>2. loaded \in Row /\ old[m] \in Row \cup {None}
            BY <1>1, <2>4 DEF HandleModifiedMessage, TypeOK
        <3>3. merged \in Row
            <4> HIDE DEF remote
            <4> QED BY <3>1, <3>2, RowTypes
        <3>4. old[m] # None => RefreshOld(old[m], remote) \in Row
            <4> HIDE DEF remote
            <4> QED BY <3>1, <3>2, RowTypes
        <3> HIDE DEF remote, merged
        <3>5. CASE Decodes(m)
            <4>1. events' \in Seq(Event)
                <5>1. CASE merged = loaded
                    BY <2>4, <3>5, <5>1 DEF HandleModifiedMessage, TypeOK, merged, remote
                <5>2. CASE merged # loaded
                    <6>1. Emit("modified", m)
                        BY <2>4, <3>5, <5>2 DEF HandleModifiedMessage, merged, remote
                    <6> QED BY <1>1, <6>1, EmitType
                <5> QED BY <5>1, <5>2
            <4>2. local' = [local EXCEPT ![m] = IF merged = loaded THEN @ ELSE merged]
                BY <2>4, <3>5 DEF HandleModifiedMessage, SaveLoaded, merged, remote
            <4>3. old' = [old EXCEPT ![m] =
                            IF @ = None \/ SameContent(merged, @) THEN None
                            ELSE RefreshOld(@, remote)]
                BY <2>4, <3>5 DEF HandleModifiedMessage, merged, remote
            <4>4. local' \in [Msgs -> Row \cup {None}]
                BY <1>1, <3>3, <4>2 DEF TypeOK
            <4>5. old' \in [Msgs -> Row \cup {None}]
                BY <1>1, <3>4, <4>3 DEF TypeOK
            <4> QED BY <4>1, <4>4, <4>5
        <3>6. CASE ~Decodes(m)
            BY <2>4, <3>6 DEF HandleModifiedMessage, TypeOK
        <3> QED BY <3>5, <3>6
    <2> QED BY <2>1, <2>2, <2>3, <2>4
<1>3. /\ pc' \in PCs
      /\ UNCHANGED <<server, clock, timestamp, cache, index, batch, more, loaded,
                     todo, reply, cancelled, budget>>
    BY DEF Handle, serverVars, loopVars, PCs
<1> QED BY <1>2, <1>3 DEF TypeOK

\* Every step of the worker keeps the types.
LEMMA TypeWorker == TypeOK /\ Stored /\ Worker => TypeOK'
<1> SUFFICES ASSUME TypeOK, Stored, Worker PROVE TypeOK'
    OBVIOUS
<1> USE DEF serverVars, dbVars, uiVars, loopVars
<1>1. CASE StartSync
    BY <1>1 DEF StartSync, TypeOK, PCs
<1>2. CASE Download
    <2> PICK p \in Pages : /\ batch' = {[msg |-> m, row |-> server[m]] : m \in p}
                           /\ more' = (p # Changed)
        BY <1>2 DEF Download
    <2>1. batch' \in SUBSET Entry
        BY DEF Pages, Changed, TypeOK, Entry
    <2> QED BY <1>2, <2>1 DEF Download, TypeOK, PCs
<1>3. CASE LoadLocal
    <2>1. loaded' \in Row \cup {None}
        BY <1>3 DEF LoadLocal, TypeOK, Entry
    <2> QED BY <1>3, <2>1 DEF LoadLocal, TypeOK, PCs
<1>4. CASE Handle
    BY <1>4, TypeHandle
<1>5. CASE Stamp
    <2>1. timestamp' \in Nat /\ batch' \in SUBSET Entry
        BY <1>5 DEF Stamp, TypeOK, Entry, Row
    <2> QED BY <1>5, <2>1 DEF Stamp, TypeOK, PCs
<1>6. CASE PageDone
    BY <1>6 DEF PageDone, LocallyModified, TypeOK, PCs
<1>7. ASSUME NEW m \in Msgs, Upload(m) PROVE TypeOK'
    <2>1. CASE UNCHANGED <<server, clock, pc, reply>>
        BY <1>7, <2>1 DEF Upload, TypeOK
    <2>2. CASE /\ server' = [server EXCEPT ![m] = Uploaded(local[m])]
               /\ clock' = clock + 1
               /\ reply' = [msg |-> m, lm |-> clock']
               /\ pc' = "reply"
               /\ ~SameContent(local[m], old[m]) /\ old[m] # None
        <3>1. clock + 1 \in Nat /\ reply' \in [msg: Msgs, lm: Nat] \cup {None}
            BY <2>2 DEF TypeOK
        <3>2. server' \in [Msgs -> Row \cup {None}]
            <4>1. local[m] \in Row
                BY <2>2 DEF TypeOK, Stored
            <4>2. /\ local[m].deleted \in BOOLEAN /\ local[m].read \in BOOLEAN
                  /\ local[m].done \in BOOLEAN
                BY <4>1 DEF Row
            <4>3. Uploaded(local[m]) \in Row
                BY <3>1, <4>2, RowTypes DEF Uploaded, LATEST_META_VERSION, Row
            <4> QED BY <2>2, <4>3 DEF TypeOK
        <3>3. /\ todo' \in SUBSET Msgs /\ pc' \in PCs /\ clock' \in Nat
              /\ UNCHANGED <<local, old, timestamp, cache, index, events, batch, more,
                             loaded, cancelled, budget>>
            BY <1>7, <2>2, <3>1 DEF Upload, TypeOK, PCs
        <3> HIDE DEF Row, Event, Entry, PCs
        <3> QED BY <3>1, <3>2, <3>3 DEF TypeOK
    <2> QED BY <1>7, <2>1, <2>2 DEF Upload
<1>8. CASE HandleSuccessfulModification
    <2>1. /\ reply.msg \in Msgs /\ reply.lm \in Nat
          /\ local[reply.msg] \in Row
        BY <1>8 DEF HandleSuccessfulModification, Stored, TypeOK
    <2>2. events' \in Seq(Event)
        BY <1>8, <2>1, EmitType DEF HandleSuccessfulModification, TypeOK
    <2>3. [local[reply.msg] EXCEPT !.lm = reply.lm] \in Row
        BY <2>1 DEF Row
    <2>4. local' \in [Msgs -> Row \cup {None}] /\ old' \in [Msgs -> Row \cup {None}]
        BY <1>8, <2>1, <2>3 DEF HandleSuccessfulModification, TypeOK
    <2> QED BY <1>8, <2>2, <2>4 DEF HandleSuccessfulModification, TypeOK, PCs
<1>9. CASE Finish
    BY <1>9, ResetType DEF Finish, TypeOK
<1>10. CASE ThrowCanceled
    BY <1>10, ResetType DEF ThrowCanceled, TypeOK
<1> QED BY <1>1, <1>2, <1>3, <1>4, <1>5, <1>6, <1>7, <1>8, <1>9, <1>10 DEF Worker

\* The user's setState() and remove() keep the types.
LEMMA TypeUser == TypeOK /\ User => TypeOK'
<1> SUFFICES ASSUME TypeOK, NEW m \in Msgs,
                    \/ \E s \in States, b \in BOOLEAN : SetState(m, s, b)
                    \/ Remove(m)
             PROVE  TypeOK'
    BY DEF User
<1> USE DEF serverVars, loopVars
<1>1. ASSUME NEW s \in States, NEW b \in BOOLEAN, SetState(m, s, b) PROVE TypeOK'
    <2> DEFINE row == [cache[m] EXCEPT ![s] = b]
    <2>1. cache[m] \in Row
        BY <1>1 DEF SetState, Shown, TypeOK
    <2>2. row \in Row
        BY <2>1 DEF Row, States
    <2>3. SaveCached(m, row) /\ cache' = [cache EXCEPT ![m] = row]
        BY <1>1 DEF SetState
    <2>4. budget' \in [Kinds -> Nat]
        BY <1>1, SpendType DEF SetState, Kinds
    <2> HIDE DEF row
    <2>5. /\ local' \in [Msgs -> Row \cup {None}] /\ old' \in [Msgs -> Row \cup {None}]
          /\ cache' \in [Msgs -> Row \cup {None}]
        BY <2>2, <2>3 DEF SaveCached, OldOnSave, TypeOK
    <2>6. UNCHANGED <<server, clock, timestamp, index, events, pc, batch, more, loaded,
                      todo, reply, cancelled>>
        BY <1>1 DEF SetState
    <2> QED BY <2>4, <2>5, <2>6 DEF TypeOK
<1>2. CASE Remove(m)
    <2>1. cache[m] \in Row
        BY <1>2 DEF Remove, Shown, TypeOK
    <2>2. Tombstone(cache[m].lm) \in Row
        BY <2>1, RowTypes DEF Row
    <2>3. budget' \in [Kinds -> Nat]
        BY <1>2, SpendType DEF Remove, Kinds
    <2>4. events' \in Seq(Event)
        <3>1. [type |-> "removed", msg |-> m] \in Event
            BY DEF Event
        <3> HIDE DEF Event
        <3> QED BY <1>2, <3>1 DEF Remove, TypeOK
    <2> QED BY <1>2, <2>2, <2>3, <2>4
        DEF Remove, RemoveFromCache, SaveCached, OldOnSave, TypeOK
<1> QED BY <1>1, <1>2

\* The delivery of an event keeps the types.
LEMMA TypeNotify == TypeOK /\ Notify => TypeOK'
<1> SUFFICES ASSUME TypeOK, Notify PROVE TypeOK'
    OBVIOUS
<1>1. Head(events) \in Event /\ events' \in Seq(Event)
    <2>1. events \in Seq(Event) /\ events # <<>> /\ events' = Tail(events)
        BY DEF TypeOK, Notify
    <2> HIDE DEF Event
    <2> QED BY <2>1
<1>2. Head(events).msg \in Msgs
    BY <1>1 DEF Event
<1>3. cache' \in [Msgs -> Row \cup {None}] /\ index' \in [Msgs -> SUBSET ConvIds]
    <2> DEFINE m == Head(events).msg
    <2>1. m \in Msgs /\ local[m] \in Row \cup {None} /\ ConvOf(local[m]) \in ConvIds
        BY <1>2 DEF TypeOK, ConvOf, ConvIds
    <2>2. /\ \/ cache' = [cache EXCEPT ![m] = None]
             \/ cache' = [cache EXCEPT ![m] = local[m]]
             \/ cache' = cache
          /\ \/ index' = [index EXCEPT ![m] = @ \ {ConvOf(cache[m])}]
             \/ index' = [index EXCEPT ![m] = @ \cup {ConvOf(local[m])}]
             \/ index' = index
        <3>1. CASE Head(events).type = "added"
            BY <2>1, <3>1 DEF Notify, TypeOK
        <3>2. CASE Head(events).type = "modified"
            BY <3>2 DEF Notify
        <3>3. CASE Head(events).type = "removed"
            BY <3>3 DEF Notify, RemoveFromCache
        <3> QED BY <3>1, <3>2, <3>3 DEF Notify
    <2>3. cache \in [Msgs -> Row \cup {None}] /\ index \in [Msgs -> SUBSET ConvIds]
        BY DEF TypeOK
    <2>4. ConvOf(cache[m]) \in ConvIds
        BY DEF ConvOf, ConvIds
    <2> HIDE DEF m
    <2>5. cache' \in [Msgs -> Row \cup {None}]
        BY <2>1, <2>2, <2>3
    <2>6. index' \in [Msgs -> SUBSET ConvIds]
        BY <2>1, <2>2, <2>3, <2>4
    <2> QED BY <2>5, <2>6
<1> QED BY <1>1, <1>3 DEF Notify, TypeOK, serverVars, dbVars, loopVars

\* Other devices, failures, cancels and restarts keep the types.
LEMMA TypeOthers == TypeOK /\ (Remote \/ Fail \/ Cancel \/ Restart) => TypeOK'
<1> SUFFICES ASSUME TypeOK, Remote \/ Fail \/ Cancel \/ Restart PROVE TypeOK'
    OBVIOUS
<1> USE DEF serverVars, dbVars, uiVars, loopVars
<1>1. ASSUME NEW m \in Msgs, NEW s \in RemoteStates, RemoteWrite(m, s) PROVE TypeOK'
    <2>1. [lm |-> clock', deleted |-> FALSE,
           meta |-> s.meta, read |-> s.read, done |-> s.done] \in Row
        BY <1>1, ConstantsAssumption DEF RemoteWrite, TypeOK, Row
    <2>2. budget' \in [Kinds -> Nat]
        BY <1>1, SpendType DEF RemoteWrite, Kinds
    <2> QED BY <1>1, <2>1, <2>2 DEF RemoteWrite, TypeOK
<1>2. ASSUME NEW m \in Msgs, RemoteDelete(m) PROVE TypeOK'
    <2>1. clock' \in Nat /\ Tombstone(clock') \in Row
        BY <1>2, RowTypes DEF RemoteDelete, TypeOK
    <2>2. budget' \in [Kinds -> Nat]
        BY <1>2, SpendType DEF RemoteDelete, Kinds
    <2> QED BY <1>2, <2>1, <2>2 DEF RemoteDelete, TypeOK
<1>3. CASE Fail
    BY <1>3, ResetType, SpendType DEF Fail, TypeOK, Kinds
<1>4. CASE Cancel
    BY <1>4, SpendType DEF Cancel, TypeOK, Kinds
<1>5. CASE Restart
    <2>1. <<>> \in Seq(Event)
        OBVIOUS
    <2> HIDE DEF Event
    <2> QED BY <1>5, <2>1, ResetType, SpendType DEF Restart, TypeOK, Kinds, ConvOf, ConvIds
<1> QED BY <1>1, <1>2, <1>3, <1>4, <1>5 DEF Remote

\* Every step keeps the types.
LEMMA TypeNext == TypeOK /\ Stored /\ [Next]_vars => TypeOK'
<1>1. TypeOK /\ UNCHANGED vars => TypeOK'
    BY DEF TypeOK, vars
<1> QED BY <1>1, TypeWorker, TypeUser, TypeNotify, TypeOthers DEF Next

-----------------------------------------------------------------------------
(* A row that is in the database stays there.                              *)

\* No step takes the row of a message away.
LEMMA LocalStays ==
    ASSUME TypeOK, Stored, [Next]_vars, NEW m \in Msgs, local[m] # None
    PROVE  local'[m] # None
<1> USE DEF serverVars, dbVars, uiVars, loopVars
<1>1. CASE Handle
    <2> PICK e \in batch :
            \/ HandleNewTombstone(e)
            \/ HandleNewMessage(e)
            \/ HandleDeletedMessage(e)
            \/ HandleModifiedMessage(e)
        BY <1>1 DEF Handle
    <2>1. e.msg \in Msgs /\ e.row \in Row /\ e.row.lm \in Nat
        BY DEF TypeOK, Entry, Row
    <2>2. CASE HandleNewTombstone(e)
        BY <2>1, <2>2, RowTypes, NoneIsNoRow DEF HandleNewTombstone, TypeOK
    <2>3. CASE HandleNewMessage(e)
        <3>1. /\ Decoded(e.msg, e.row) \in Row
              /\ [Decoded(e.msg, e.row) EXCEPT !.meta = LATEST_META_VERSION] \in Row
            <4>1. Decoded(e.msg, e.row) \in Row
                BY <2>1, RowTypes
            <4> QED BY <4>1 DEF Row, LATEST_META_VERSION
        <3> QED BY <2>1, <2>3, <3>1, NoneIsNoRow DEF HandleNewMessage, TypeOK
    <2>4. CASE HandleDeletedMessage(e)
        BY <2>1, <2>4, RowTypes, NoneIsNoRow DEF HandleDeletedMessage, SaveLoaded, TypeOK
    <2>5. CASE HandleModifiedMessage(e)
        <3>1. Merge(loaded, old[e.msg], Decoded(e.msg, e.row)) \in Row
            <4>1. /\ Decoded(e.msg, e.row) \in Row /\ loaded \in Row
                  /\ old[e.msg] \in Row \cup {None}
                BY <2>1, <2>5, RowTypes DEF HandleModifiedMessage, TypeOK
            <4> QED BY <4>1, RowTypes
        <3> QED BY <2>1, <2>5, <3>1, NoneIsNoRow DEF HandleModifiedMessage, SaveLoaded, TypeOK
    <2> QED BY <2>2, <2>3, <2>4, <2>5
<1>2. CASE HandleSuccessfulModification
    <2>1. reply.msg \in Msgs /\ [local[reply.msg] EXCEPT !.lm = reply.lm] \in Row
        <3>1. reply.msg \in Msgs /\ local[reply.msg] \in Row /\ reply.lm \in Nat
            BY <1>2 DEF HandleSuccessfulModification, Stored, TypeOK
        <3> QED BY <3>1 DEF Row
    <2> QED BY <1>2, <2>1, NoneIsNoRow DEF HandleSuccessfulModification, TypeOK
<1>3. ASSUME NEW n \in Msgs, NEW s \in States, NEW b \in BOOLEAN, SetState(n, s, b)
      PROVE  local'[m] # None
    <2>1. [cache[n] EXCEPT ![s] = b] \in Row
        <3>1. cache[n] \in Row
            BY <1>3 DEF SetState, Shown, TypeOK
        <3> QED BY <3>1 DEF Row, States
    <2> QED BY <1>3, <2>1, NoneIsNoRow DEF SetState, SaveCached, TypeOK
<1>4. ASSUME NEW n \in Msgs, Remove(n) PROVE local'[m] # None
    <2>1. Tombstone(cache[n].lm) \in Row
        <3>1. cache[n] \in Row
            BY <1>4 DEF Remove, Shown, TypeOK
        <3> QED BY <3>1, RowTypes DEF Row
    <2> QED BY <1>4, <2>1, NoneIsNoRow DEF Remove, SaveCached, TypeOK
<1>5. CASE UNCHANGED local
    BY <1>5
<1>6. \/ Handle \/ HandleSuccessfulModification \/ User \/ UNCHANGED local
    BY DEF Next, Worker, Remote, vars, StartSync, Download, LoadLocal, Stamp, PageDone,
        Upload, Finish, ThrowCanceled, Notify, RemoteWrite, RemoteDelete, Fail, Cancel,
        Restart
<1> QED BY <1>1, <1>2, <1>3, <1>4, <1>5, <1>6 DEF User

\* Every step keeps a row with old = 1 beside a row with old = 0.
LEMMA StoredNext == TypeOK /\ Stored /\ [Next]_vars => Stored'
<1> SUFFICES ASSUME TypeOK, Stored, [Next]_vars PROVE Stored'
    OBVIOUS
<1> USE DEF serverVars, dbVars, uiVars, loopVars
<1>1. ASSUME NEW m \in Msgs, old'[m] # None PROVE local'[m] # None
    <2>1. CASE local[m] # None
        BY <2>1, LocalStays
    <2>2. CASE local[m] = None
        <3>1. old[m] = None
            BY <2>2 DEF Stored
        <3>2. CASE Handle
            <4> PICK e \in batch :
                    \/ HandleNewTombstone(e)
                    \/ HandleNewMessage(e)
                    \/ HandleDeletedMessage(e)
                    \/ HandleModifiedMessage(e)
                BY <3>2 DEF Handle
            <4>1. e.msg \in Msgs /\ e.row \in Row
                BY DEF TypeOK, Entry
            <4>2. CASE HandleNewMessage(e)
                <5> DEFINE remote == Decoded(e.msg, e.row)
                <5>1. remote \in Row
                    BY <4>1, RowTypes
                <5> HIDE DEF remote
                <5>2. /\ old' \in {old, [old EXCEPT ![e.msg] = remote]}
                      /\ old' # old =>
                            local' = [local EXCEPT ![e.msg] =
                                        [remote EXCEPT !.meta = LATEST_META_VERSION]]
                    BY <4>2 DEF HandleNewMessage, remote
                <5>3. m = e.msg /\ old' # old
                    BY <1>1, <3>1, <5>2 DEF TypeOK
                <5>4. [remote EXCEPT !.meta = LATEST_META_VERSION] \in Row
                    BY <5>1 DEF Row, LATEST_META_VERSION
                <5> QED BY <5>2, <5>3, <5>4, NoneIsNoRow DEF TypeOK
            <4>3. CASE ~HandleNewMessage(e)
                <5>1. old'[m] = None
                    BY <3>1, <4>1, <4>3
                    DEF HandleNewTombstone, HandleDeletedMessage, HandleModifiedMessage, TypeOK
                <5> QED BY <1>1, <5>1
            <4> QED BY <4>2, <4>3
        <3>3. CASE HandleSuccessfulModification
            BY <1>1, <3>1, <3>3 DEF HandleSuccessfulModification, TypeOK, Stored
        <3>4. CASE User
            BY <1>1, <2>2, <3>1, <3>4 DEF User, SetState, Remove, SaveCached, OldOnSave, TypeOK
        <3>5. CASE UNCHANGED old
            BY <1>1, <3>1, <3>5
        <3> QED BY <3>2, <3>3, <3>4, <3>5
            DEF Next, Worker, Remote, vars, StartSync, Download, LoadLocal, Stamp, PageDone,
                Upload, Finish, ThrowCanceled, Notify, RemoteWrite, RemoteDelete, Fail,
                Cancel, Restart
    <2> QED BY <2>1, <2>2
<1>2. ASSUME pc' = "reply"
      PROVE  reply' \in [msg: Msgs, lm: Nat] /\ local'[reply'.msg] # None
    <2>1. CASE pc = "reply" /\ UNCHANGED reply
        BY <2>1, LocalStays DEF Stored
    <2>2. ASSUME NEW m \in Msgs, Upload(m), pc # "reply"
          PROVE  reply' \in [msg: Msgs, lm: Nat] /\ local'[reply'.msg] # None
        BY <1>2, <2>2 DEF Upload, Stored, TypeOK
    <2> QED BY <1>2, <2>1, <2>2
        DEF Next, Worker, User, Remote, vars, StartSync, Download, LoadLocal, Handle, Stamp,
            PageDone, Upload, HandleSuccessfulModification, Finish, ThrowCanceled, Notify,
            SetState, Remove, RemoteWrite, RemoteDelete, Fail, Cancel, Restart, ResetLoops
<1> QED BY <1>1, <1>2 DEF Stored

\* Every variable keeps its type, and a server row, a row of the database or a
\* cached object is never half written: no handler indexes a missing row.
THEOREM TypeCorrect == Spec => []TypeOK
<1>1. Init => TypeOK /\ Stored
    <2>1. Init => Stored
        BY DEF Init, Stored
    <2> QED BY <2>1, TypeInit
<1>2. TypeOK /\ Stored /\ [Next]_vars => TypeOK' /\ Stored'
    BY TypeNext, StoredNext
<1> QED BY <1>1, <1>2, PTL DEF Spec

-----------------------------------------------------------------------------
(* The cursor passes no message that was not taken in.  A message is below *)
(* the cursor only after it was the next of a batch; so the invariant says *)
(* what a batch is: everything the server has between the cursor and each  *)
(* of its entries is in it, while the server gives out higher versions.    *)

Versions ==
    /\ timestamp <= clock
    /\ \A m \in Msgs : server[m] # None => server[m].lm > 0 /\ server[m].lm <= clock
    /\ \A m, n \in Msgs :
            server[m] # None /\ server[n] # None /\ server[m].lm = server[n].lm => m = n

BatchComplete ==
    /\ \A e \in batch : timestamp < e.row.lm /\ e.row.lm <= clock
    /\ \A e, f \in batch : e.row.lm = f.row.lm => e = f
    /\ \A e \in batch, m \in Msgs :
            /\ server[m] # None
            /\ timestamp < server[m].lm /\ server[m].lm <= e.row.lm
            => [msg |-> m, row |-> server[m]] \in batch

HandledIsStored ==
    /\ pc = "handle" /\ loaded # None =>
            \A e \in batch : IsNext(e) => local[e.msg] # None
    /\ pc = "stamp" =>
            \A e \in batch : IsNext(e) /\ Decodes(e.msg) => local[e.msg] # None

CursorInv ==
    TypeOK /\ Stored /\ Versions /\ BatchComplete /\ HandledIsStored /\ NothingUnseen

\* The invariant about the cursor holds in the beginning.
LEMMA CursorInit == Init => CursorInv
<1> SUFFICES ASSUME Init PROVE CursorInv
    OBVIOUS
<1>1. Stored
    BY DEF Init, Stored
<1>2. Versions /\ BatchComplete /\ HandledIsStored /\ NothingUnseen
    BY DEF Init, Versions, BatchComplete, HandledIsStored, NothingUnseen
<1> QED BY <1>1, <1>2, TypeInit DEF CursorInv

\* A new version is above the cursor and above all entries of the batch.
LEMMA NewVersion ==
    ASSUME CursorInv, NEW m \in Msgs, NEW row \in Row, row.lm = clock + 1,
           server' = [server EXCEPT ![m] = row], clock' = clock + 1,
           UNCHANGED <<local, timestamp, batch, loaded>>,
           pc' = pc \/ pc' \notin {"handle", "stamp"}
    PROVE  Versions' /\ BatchComplete' /\ HandledIsStored' /\ NothingUnseen'
<1>1. /\ clock \in Nat /\ timestamp \in Nat /\ server \in [Msgs -> Row \cup {None}]
      /\ \A e \in batch : e.row.lm \in Nat
      /\ \A n \in Msgs : server[n] # None => server[n].lm \in Nat
    BY DEF CursorInv, TypeOK, Entry, Row
<1>2. /\ server'[m] = row
      /\ \A n \in Msgs : n # m => server'[n] = server[n]
    BY <1>1
<1>3. Versions'
    BY <1>1, <1>2 DEF CursorInv, Versions
<1>4. BatchComplete'
    BY <1>1, <1>2 DEF CursorInv, Versions, BatchComplete
<1>5. HandledIsStored'
    BY DEF CursorInv, HandledIsStored, IsNext
<1>6. NothingUnseen'
    BY <1>1, <1>2 DEF CursorInv, Versions, NothingUnseen
<1> QED BY <1>3, <1>4, <1>5, <1>6

\* Rows are not lost, so what the handlers and the main thread do to the
\* database, and what happens to the worker otherwise, is harmless.
LEMMA CursorUnmoved ==
    ASSUME CursorInv, [Next]_vars,
           UNCHANGED <<server, clock, timestamp>>,
           batch' = batch \/ batch' = {},
           \/ pc' \notin {"handle", "stamp"}
           \/ UNCHANGED <<pc, loaded>>
    PROVE  Versions' /\ BatchComplete' /\ HandledIsStored' /\ NothingUnseen'
<1>1. \A m \in Msgs : local[m] # None => local'[m] # None
    BY LocalStays DEF CursorInv
<1>2. Versions' /\ BatchComplete'
    BY DEF CursorInv, Versions, BatchComplete
<1>3. NothingUnseen'
    BY <1>1 DEF CursorInv, NothingUnseen
<1>4. HandledIsStored'
    <2>1. \A e \in batch : e.msg \in Msgs
        BY DEF CursorInv, TypeOK, Entry
    <2> QED BY <1>1, <2>1 DEF CursorInv, HandledIsStored, IsNext
<1> QED BY <1>2, <1>3, <1>4

\* A page holds all that changed between the cursor and its last message.
LEMMA CursorDownload ==
    ASSUME CursorInv, Download
    PROVE  Versions' /\ BatchComplete' /\ HandledIsStored' /\ NothingUnseen'
<1> USE DEF serverVars, dbVars, uiVars
<1>1. UNCHANGED <<server, clock, timestamp, local>> /\ pc' = "process"
    BY DEF Download
<1> PICK p \in Pages : batch' = {[msg |-> m, row |-> server[m]] : m \in p}
    BY DEF Download
<1>2. \A m \in p : m \in Msgs /\ server[m] # None /\ server[m].lm > timestamp
    BY DEF Pages, Changed
<1>3. \A m \in Changed \ p, n \in p : server[n].lm < server[m].lm
    BY DEF Pages
<1>4. Versions' /\ HandledIsStored' /\ NothingUnseen'
    BY <1>1 DEF CursorInv, Versions, HandledIsStored, NothingUnseen
<1>5. BatchComplete'
    <2>1. \A e \in batch' : timestamp < e.row.lm /\ e.row.lm <= clock
        BY <1>2 DEF CursorInv, Versions, TypeOK, Row
    <2>2. \A e, f \in batch' : e.row.lm = f.row.lm => e = f
        BY <1>2 DEF CursorInv, Versions
    <2>3. ASSUME NEW e \in batch', NEW m \in Msgs, server[m] # None,
                 timestamp < server[m].lm, server[m].lm <= e.row.lm
          PROVE  [msg |-> m, row |-> server[m]] \in batch'
        <3>1. PICK n \in p : e = [msg |-> n, row |-> server[n]]
            OBVIOUS
        <3>2. m \in Changed /\ server[m].lm \in Nat /\ server[n].lm \in Nat
            BY <1>2, <2>3 DEF Changed, CursorInv, TypeOK, Row
        <3>3. m \in p
            BY <1>3, <2>3, <3>1, <3>2
        <3> QED BY <3>3
    <2> QED BY <1>1, <2>1, <2>2, <2>3 DEF BatchComplete
<1> QED BY <1>4, <1>5

\* Going on to the next message does not move the cursor.
LEMMA CursorLoadLocal ==
    ASSUME CursorInv, LoadLocal
    PROVE  Versions' /\ BatchComplete' /\ HandledIsStored' /\ NothingUnseen'
<1> USE DEF serverVars, dbVars, uiVars
<1>1. UNCHANGED <<server, clock, timestamp, local, batch>> /\ pc' = "handle"
    BY DEF LoadLocal
<1>2. Versions' /\ BatchComplete' /\ NothingUnseen'
    BY <1>1 DEF CursorInv, Versions, BatchComplete, NothingUnseen
<1>3. PICK e \in batch : IsNext(e) /\ loaded' = local[e.msg]
    BY DEF LoadLocal
<1>4. ASSUME NEW f \in batch, IsNext(f) PROVE f = e
    BY <1>3, <1>4 DEF IsNext, CursorInv, BatchComplete, TypeOK, Entry, Row
<1>5. HandledIsStored'
    BY <1>1, <1>3, <1>4 DEF HandledIsStored, IsNext
<1> QED BY <1>2, <1>5

\* A message that was handled is stored.
LEMMA CursorHandle ==
    ASSUME CursorInv, Handle
    PROVE  Versions' /\ BatchComplete' /\ HandledIsStored' /\ NothingUnseen'
<1> USE DEF serverVars, dbVars, uiVars, loopVars
<1>1. UNCHANGED <<server, clock, timestamp, batch>> /\ pc' = "stamp" /\ pc = "handle"
    BY DEF Handle
<1>2. \A m \in Msgs : local[m] # None => local'[m] # None
    BY LocalStays DEF CursorInv, Next, Worker
<1>3. Versions' /\ BatchComplete' /\ NothingUnseen'
    BY <1>1, <1>2 DEF CursorInv, Versions, BatchComplete, NothingUnseen
<1>4. PICK e \in batch :
        /\ IsNext(e)
        /\ \/ HandleNewTombstone(e)
           \/ HandleNewMessage(e)
           \/ HandleDeletedMessage(e)
           \/ HandleModifiedMessage(e)
    BY DEF Handle
<1>5. ASSUME NEW f \in batch, IsNext(f) PROVE f = e
    BY <1>4, <1>5 DEF IsNext, CursorInv, BatchComplete, TypeOK, Entry, Row
<1>6. e.msg \in Msgs /\ e.row \in Row /\ e.row.lm \in Nat
    BY DEF CursorInv, TypeOK, Entry, Row
<1>7. Decodes(e.msg) => local'[e.msg] # None
    <2>1. CASE HandleNewTombstone(e)
        BY <1>6, <2>1, RowTypes, NoneIsNoRow DEF HandleNewTombstone, CursorInv, TypeOK
    <2>2. CASE HandleNewMessage(e) /\ Decodes(e.msg)
        <3> DEFINE remote == Decoded(e.msg, e.row)
        <3>1. remote \in Row
            BY <1>6, RowTypes
        <3> HIDE DEF remote
        <3>2. [remote EXCEPT !.meta = LATEST_META_VERSION] \in Row
            BY <3>1 DEF Row, LATEST_META_VERSION
        <3>3. \/ local' = [local EXCEPT ![e.msg] = remote]
              \/ local' = [local EXCEPT ![e.msg] = [remote EXCEPT !.meta = LATEST_META_VERSION]]
            BY <2>2 DEF HandleNewMessage, remote
        <3> QED BY <1>6, <3>1, <3>2, <3>3, NoneIsNoRow DEF CursorInv, TypeOK
    <2>3. CASE loaded # None
        BY <1>1, <1>2, <1>4, <1>6, <2>3 DEF CursorInv, HandledIsStored
    <2> QED BY <1>4, <2>1, <2>2, <2>3 DEF HandleDeletedMessage, HandleModifiedMessage,
        HandleNewMessage
<1>8. HandledIsStored'
    BY <1>1, <1>5, <1>7 DEF HandledIsStored, IsNext
<1> QED BY <1>3, <1>8

\* The step that moves the cursor.
LEMMA CursorStamp ==
    ASSUME CursorInv, Stamp
    PROVE  Versions' /\ BatchComplete' /\ HandledIsStored' /\ NothingUnseen'
<1> USE DEF serverVars, uiVars
<1>1. UNCHANGED <<server, clock, local>> /\ pc' = "process" /\ pc = "stamp"
    BY DEF Stamp
<1>2. PICK e \in batch : IsNext(e) /\ timestamp' = e.row.lm /\ batch' = batch \ {e}
    BY DEF Stamp
<1>3. /\ \A f \in batch : f.row.lm \in Nat /\ f.msg \in Msgs
      /\ \A m \in Msgs : server[m] # None => server[m].lm \in Nat
      /\ timestamp \in Nat
    BY DEF CursorInv, TypeOK, Entry, Row
<1>4. \A f \in batch' : e.row.lm < f.row.lm
    BY <1>2, <1>3 DEF IsNext, CursorInv, BatchComplete
<1>5. Versions' /\ HandledIsStored'
    BY <1>1, <1>2 DEF CursorInv, Versions, BatchComplete, HandledIsStored
<1>6. BatchComplete'
    <2>1. ASSUME NEW f \in batch', NEW m \in Msgs, server[m] # None,
                 e.row.lm < server[m].lm, server[m].lm <= f.row.lm
          PROVE  [msg |-> m, row |-> server[m]] \in batch'
        <3>1. timestamp < e.row.lm
            BY DEF CursorInv, BatchComplete
        <3>2. [msg |-> m, row |-> server[m]] \in batch
            BY <1>2, <1>3, <2>1, <3>1 DEF CursorInv, BatchComplete
        <3> QED BY <1>2, <1>3, <2>1, <3>2
    <2> QED BY <1>1, <1>2, <1>4, <2>1 DEF CursorInv, BatchComplete
<1>7. NothingUnseen'
    <2> SUFFICES ASSUME NEW m \in Msgs \ Undecodable,
                        server[m] # None, server[m].lm <= e.row.lm
                 PROVE  local[m] # None
        BY <1>1, <1>2 DEF NothingUnseen
    <2>1. CASE server[m].lm <= timestamp
        BY <2>1 DEF CursorInv, NothingUnseen
    <2>2. CASE timestamp < server[m].lm
        <3>1. [msg |-> m, row |-> server[m]] \in batch
            BY <2>2 DEF CursorInv, BatchComplete
        <3>2. e.row.lm <= server[m].lm
            BY <1>2, <3>1 DEF IsNext
        <3>3. e.row.lm = server[m].lm
            BY <1>3, <3>2
        <3>4. e = [msg |-> m, row |-> server[m]]
            BY <3>1, <3>3 DEF CursorInv, BatchComplete
        <3> QED BY <1>1, <1>2, <3>4 DEF CursorInv, HandledIsStored, Decodes
    <2> QED BY <1>3, <2>1, <2>2
<1> QED BY <1>5, <1>6, <1>7

\* Every step keeps the invariant about the cursor.
LEMMA CursorNext == CursorInv /\ [Next]_vars => CursorInv'
<1> SUFFICES ASSUME CursorInv, [Next]_vars PROVE CursorInv'
    OBVIOUS
<1> USE DEF serverVars, dbVars, uiVars, loopVars
<1> DEFINE Rest == Versions' /\ BatchComplete' /\ HandledIsStored' /\ NothingUnseen'
<1>1. TypeOK' /\ Stored'
    BY TypeNext, StoredNext DEF CursorInv
<1>2. ASSUME Download PROVE Rest
    BY <1>2, CursorDownload
<1>3. ASSUME LoadLocal PROVE Rest
    BY <1>3, CursorLoadLocal
<1>4. ASSUME Handle PROVE Rest
    BY <1>4, CursorHandle
<1>5. ASSUME Stamp PROVE Rest
    BY <1>5, CursorStamp
<1>6. ASSUME NEW m \in Msgs, Upload(m) PROVE Rest
    <2>1. CASE UNCHANGED <<server, clock, pc>>
        <3>1. UNCHANGED <<timestamp, batch, loaded>>
            BY <1>6 DEF Upload
        <3> QED BY <2>1, <3>1, CursorUnmoved
    <2>2. CASE ~UNCHANGED <<server, clock, pc>>
        <3>1. /\ server' = [server EXCEPT ![m] = Uploaded(local[m])]
              /\ clock' = clock + 1 /\ pc' = "reply"
              /\ UNCHANGED <<local, timestamp, batch, loaded>>
            BY <1>6, <2>2 DEF Upload
        <3>2. clock + 1 \in Nat /\ local[m] \in Row
            <4>1. old[m] # None
                BY <1>6, <2>2 DEF Upload
            <4> QED BY <4>1 DEF CursorInv, TypeOK, Stored
        <3>3. Uploaded(local[m]) \in Row /\ Uploaded(local[m]).lm = clock + 1
            <4>1. Tombstone(clock + 1) \in Row
                BY <3>2, RowTypes
            <4> QED BY <3>2, <4>1 DEF Uploaded, Tombstone, Row, LATEST_META_VERSION
        <3> HIDE DEF Row
        <3> QED BY <3>1, <3>3, NewVersion
    <2> QED BY <2>1, <2>2
<1>7. ASSUME NEW m \in Msgs, NEW s \in RemoteStates, RemoteWrite(m, s) PROVE Rest
    <2> DEFINE row == [lm |-> clock', deleted |-> FALSE,
                       meta |-> s.meta, read |-> s.read, done |-> s.done]
    <2>1. /\ server' = [server EXCEPT ![m] = row] /\ clock' = clock + 1
          /\ UNCHANGED <<pc, local, timestamp, batch, loaded>>
        BY <1>7 DEF RemoteWrite
    <2>2. row \in Row /\ row.lm = clock + 1
        BY <2>1, ConstantsAssumption DEF CursorInv, TypeOK, Row
    <2> HIDE DEF row, Row
    <2> QED BY <2>1, <2>2, NewVersion
<1>8. ASSUME NEW m \in Msgs, RemoteDelete(m) PROVE Rest
    <2>1. /\ server' = [server EXCEPT ![m] = Tombstone(clock + 1)] /\ clock' = clock + 1
          /\ UNCHANGED <<pc, local, timestamp, batch, loaded>>
        BY <1>8 DEF RemoteDelete
    <2>2. Tombstone(clock + 1) \in Row /\ Tombstone(clock + 1).lm = clock + 1
        BY RowTypes DEF CursorInv, TypeOK, Tombstone
    <2> QED BY <2>1, <2>2, NewVersion
<1>9. ASSUME UNCHANGED <<server, clock, timestamp>>, batch' = batch \/ batch' = {},
             pc' \notin {"handle", "stamp"} \/ UNCHANGED <<pc, loaded>>
      PROVE  Rest
    BY <1>9, CursorUnmoved
<1>10. \/ Download \/ LoadLocal \/ Handle \/ Stamp
       \/ \E m \in Msgs : Upload(m)
       \/ \E m \in Msgs : \E s \in RemoteStates : RemoteWrite(m, s)
       \/ \E m \in Msgs : RemoteDelete(m)
       \/ /\ UNCHANGED <<server, clock, timestamp>> /\ (batch' = batch \/ batch' = {})
          /\ pc' \notin {"handle", "stamp"} \/ UNCHANGED <<pc, loaded>>
    BY DEF Next, Worker, User, Remote, vars, StartSync, PageDone, HandleSuccessfulModification,
        Finish, ThrowCanceled, Notify, SetState, Remove, Fail, Cancel, Restart, ResetLoops
<1>11. Rest
    BY <1>2, <1>3, <1>4, <1>5, <1>6, <1>7, <1>8, <1>9, <1>10
<1> QED BY <1>1, <1>11 DEF CursorInv

\* A message the cursor has passed is in the database, for any number of
\* messages, any page size, and any interleaving of the worker with the user,
\* other devices, crashes, network errors and cancelled syncs.
THEOREM NothingUnseenCorrect == Spec => []NothingUnseen
<1>1. CursorInv => NothingUnseen
    BY DEF CursorInv
<1> QED BY <1>1, CursorInit, CursorNext, PTL DEF Spec

\* The row of a message, once there, is never lost: deletions leave tombstones.
THEOREM RowsStay == Spec => [][\A m \in Msgs : local[m] # None => local'[m] # None]_vars
<1>1. TypeOK /\ Stored /\ [Next]_vars =>
        [\A m \in Msgs : local[m] # None => local'[m] # None]_vars
    BY LocalStays
<1>2. Init => TypeOK /\ Stored
    BY CursorInit DEF CursorInv
<1>3. TypeOK /\ Stored /\ [Next]_vars => TypeOK' /\ Stored'
    BY TypeNext, StoredNext
<1> QED BY <1>1, <1>2, <1>3, PTL DEF Spec

-----------------------------------------------------------------------------
(* Nothing goes back, whenever the user acts.  What the client holds of a  *)
(* message, in the database or before the user's eyes, is never ahead of   *)
(* the server, and never ahead of what is on its way: the entries of the   *)
(* batch are above the cursor, and the answer to an upload is the newest   *)
(* version there is.  The user's own steps copy versions from one row to   *)
(* another and make none.                                                  *)

VersionsOf(m) == {row.lm : row \in {local[m], old[m], cache[m]} \ {None}}
UpTo(m, v) == \A w \in VersionsOf(m) : w <= v

NotAhead == \A m \in Msgs : VersionsOf(m) # {} => server[m] # None /\ UpTo(m, server[m].lm)

BatchBrings ==
    /\ batch # {} => pc \in {"process", "handle", "stamp"}
    /\ \A e \in batch :
        server[e.msg] # None /\ e.row.lm <= server[e.msg].lm /\ UpTo(e.msg, e.row.lm)

ReplyBrings ==
    pc = "reply" =>
        /\ server[reply.msg] # None /\ reply.lm <= server[reply.msg].lm
        /\ UpTo(reply.msg, reply.lm)

Behind == NotAhead /\ BatchBrings /\ ReplyBrings
ForwardInv == CursorInv /\ Behind

\* The bases of local changes, and the rows the worker writes.
BasesGrow ==
    \A m \in Msgs : old[m] # None /\ old'[m] # None => old[m].lm <= old'[m].lm
WorkerBrings ==
    Worker => \A m \in Msgs : local[m] # None => local[m].lm <= local'[m].lm
VersionsGrow == timestamp <= timestamp' /\ BasesGrow /\ WorkerBrings

\* The client starts without rows.
LEMMA ForwardInit == Init => ForwardInv
<1> SUFFICES ASSUME Init PROVE Behind
    BY CursorInit DEF ForwardInv
<1>1. \A m \in Msgs : VersionsOf(m) = {}
    BY DEF Init, VersionsOf
<1> QED BY <1>1 DEF Init, Behind, NotAhead, BatchBrings, ReplyBrings

\* Versions are numbers; each row has its own.
LEMMA ForwardTypes ==
    ASSUME ForwardInv
    PROVE  /\ local \in [Msgs -> Row \cup {None}] /\ old \in [Msgs -> Row \cup {None}]
           /\ cache \in [Msgs -> Row \cup {None}] /\ loaded \in Row \cup {None}
           /\ \A row \in Row : row.lm \in Nat
           /\ None \notin Row /\ clock \in Nat /\ timestamp \in Nat
           /\ \A m \in Msgs : server[m] # None =>
                server[m] \in Row /\ server[m].lm \in Nat /\ server[m].lm <= clock
           /\ \A e \in batch : e.msg \in Msgs /\ e.row \in Row /\ e.row.lm \in Nat
           /\ pc = "reply" => reply.msg \in Msgs /\ reply.lm \in Nat
<1>1. \A row \in Row : row.lm \in Nat
    BY DEF Row
<1>2. \A m \in Msgs : server[m] # None =>
        server[m] \in Row /\ server[m].lm \in Nat /\ server[m].lm <= clock
    BY <1>1 DEF ForwardInv, CursorInv, Versions, TypeOK
<1>3. \A e \in batch : e.msg \in Msgs /\ e.row \in Row /\ e.row.lm \in Nat
    BY <1>1 DEF ForwardInv, CursorInv, TypeOK, Entry
<1>4. pc = "reply" => reply.msg \in Msgs /\ reply.lm \in Nat
    BY DEF ForwardInv, CursorInv, Stored
<1> QED BY <1>1, <1>2, <1>3, <1>4, NoneIsNoRow DEF ForwardInv, CursorInv, TypeOK

LEMMA VersionsAre ==
    ASSUME ForwardInv, NEW m \in Msgs
    PROVE  /\ VersionsOf(m) \subseteq Nat
           /\ local[m] # None => local[m].lm \in VersionsOf(m)
           /\ old[m] # None => old[m].lm \in VersionsOf(m)
           /\ cache[m] # None => cache[m].lm \in VersionsOf(m)
<1>1. /\ local[m] # None => local[m].lm \in Nat
      /\ old[m] # None => old[m].lm \in Nat
      /\ cache[m] # None => cache[m].lm \in Nat
    BY ForwardTypes
<1> QED BY <1>1 DEF VersionsOf

\* The versions after a step are those of the rows after it.
LEMMA VersionsFrom ==
    ASSUME NEW m \in Msgs, NEW S,
           local'[m] = None \/ local'[m].lm \in S,
           old'[m] = None \/ old'[m].lm \in S,
           cache'[m] = None \/ cache'[m].lm \in S
    PROVE  VersionsOf(m)' \subseteq S
BY DEF VersionsOf

\* A step that makes no version here, while those of the server only grow, and
\* that starts neither a batch nor an upload.
LEMMA ForwardUnmoved ==
    ASSUME ForwardInv,
           \A m \in Msgs : VersionsOf(m)' \subseteq VersionsOf(m),
           \A m \in Msgs : server[m] # None =>
                /\ server'[m] # None /\ server'[m].lm \in Nat
                /\ server[m].lm <= server'[m].lm,
           batch' \subseteq batch, batch' # {} => pc' \in {"process", "handle", "stamp"},
           pc' = "reply" => pc = "reply" /\ reply' = reply
    PROVE  Behind'
<1>1. ASSUME NEW m \in Msgs, NEW v \in Nat, UpTo(m, v) PROVE UpTo(m, v)'
    BY <1>1 DEF UpTo
<1>2. NotAhead'
    <2> SUFFICES ASSUME NEW m \in Msgs, NEW w \in VersionsOf(m)'
                 PROVE  server'[m] # None /\ w <= server'[m].lm
        BY DEF NotAhead, UpTo
    <2>1. w \in VersionsOf(m) /\ w \in Nat
        BY VersionsAre
    <2>2. server[m] # None /\ w <= server[m].lm /\ server[m].lm \in Nat
        BY <2>1, ForwardTypes DEF ForwardInv, Behind, NotAhead, UpTo
    <2> QED BY <2>1, <2>2
<1>3. BatchBrings'
    <2> SUFFICES ASSUME NEW e \in batch'
                 PROVE  /\ server'[e.msg] # None /\ e.row.lm <= server'[e.msg].lm
                        /\ UpTo(e.msg, e.row.lm)'
        BY DEF BatchBrings
    <2>1. e \in batch /\ e.msg \in Msgs /\ e.row.lm \in Nat
        BY ForwardTypes
    <2>2. /\ server[e.msg] # None /\ server[e.msg].lm \in Nat /\ e.row.lm <= server[e.msg].lm
          /\ UpTo(e.msg, e.row.lm)
        BY <2>1, ForwardTypes DEF ForwardInv, Behind, BatchBrings
    <2>3. UpTo(e.msg, e.row.lm)'
        BY <1>1, <2>1, <2>2
    <2> QED BY <2>1, <2>2, <2>3
<1>4. ReplyBrings'
    <2> SUFFICES ASSUME pc = "reply", reply' = reply
                 PROVE  /\ server'[reply.msg] # None /\ reply.lm <= server'[reply.msg].lm
                        /\ \A w \in VersionsOf(reply.msg)' : w <= reply.lm
        BY DEF ReplyBrings, UpTo
    <2>1. reply.msg \in Msgs /\ reply.lm \in Nat
        BY ForwardTypes
    <2>2. /\ server[reply.msg] # None /\ server[reply.msg].lm \in Nat
          /\ reply.lm <= server[reply.msg].lm /\ UpTo(reply.msg, reply.lm)
        BY <2>1, ForwardTypes DEF ForwardInv, Behind, ReplyBrings
    <2>3. \A w \in VersionsOf(reply.msg)' : w <= reply.lm
        BY <2>1, <2>2 DEF UpTo
    <2> QED BY <2>1, <2>2, <2>3
<1> QED BY <1>2, <1>3, <1>4 DEF Behind

\* The same, when the database, the cache and the server are left alone.
LEMMA ForwardStill ==
    ASSUME ForwardInv, UNCHANGED <<server, local, old, cache>>,
           batch' \subseteq batch, batch' # {} => pc' \in {"process", "handle", "stamp"},
           pc' = "reply" => pc = "reply" /\ reply' = reply
    PROVE  Behind'
<1>1. \A m \in Msgs : VersionsOf(m)' = VersionsOf(m)
    BY DEF VersionsOf
<1>2. \A m \in Msgs : server[m] # None =>
            /\ server'[m] # None /\ server'[m].lm \in Nat /\ server[m].lm <= server'[m].lm
    BY ForwardTypes
<1> QED BY <1>1, <1>2, ForwardUnmoved

\* A new version on the server is above all that is here.
LEMMA ForwardNewVersion ==
    ASSUME ForwardInv, NEW m \in Msgs, NEW row \in Row, row.lm = clock + 1,
           server' = [server EXCEPT ![m] = row]
    PROVE  /\ \A n \in Msgs : server[n] # None =>
                /\ server'[n] # None /\ server'[n].lm \in Nat
                /\ server[n].lm <= server'[n].lm
           /\ server'[m] = row
<1>1. server \in [Msgs -> Row \cup {None}]
    BY DEF ForwardInv, CursorInv, TypeOK
<1>2. server'[m] = row /\ \A n \in Msgs \ {m} : server'[n] = server[n]
    BY <1>1
<1>3. clock \in Nat /\ row # None /\ row.lm \in Nat
    BY ForwardTypes
<1>4. \A n \in Msgs : server[n] # None => server[n].lm \in Nat /\ server[n].lm <= clock
    BY ForwardTypes
<1> QED BY <1>2, <1>3, <1>4

\* A page is made of the server's rows above the cursor.
LEMMA ForwardDownload == ForwardInv /\ Download => Behind'
<1> SUFFICES ASSUME ForwardInv, Download PROVE Behind'
    OBVIOUS
<1>1. /\ UNCHANGED <<server, local, old, cache>> /\ pc' = "process"
    BY DEF Download, serverVars, dbVars, uiVars
<1>2. \A m \in Msgs : VersionsOf(m)' = VersionsOf(m)
    BY <1>1 DEF VersionsOf
<1>3. NotAhead'
    BY <1>1, <1>2 DEF ForwardInv, Behind, NotAhead, UpTo
<1>4. ASSUME NEW e \in batch'
      PROVE  e.msg \in Msgs /\ server[e.msg] # None /\ e.row = server[e.msg]
    BY <1>4 DEF Download, Pages, Changed
<1>5. ASSUME NEW e \in batch'
      PROVE  /\ server'[e.msg] # None /\ e.row.lm <= server'[e.msg].lm
             /\ UpTo(e.msg, e.row.lm)'
    <2>1. e.msg \in Msgs /\ server[e.msg] # None /\ e.row = server[e.msg]
        BY <1>4
    <2>2. e.row.lm \in Nat
        BY <2>1, ForwardTypes
    <2>3. \A w \in VersionsOf(e.msg) : w <= e.row.lm
        BY <2>1 DEF ForwardInv, Behind, NotAhead, UpTo
    <2> QED BY <1>1, <1>2, <2>1, <2>2, <2>3 DEF UpTo
<1> QED BY <1>1, <1>3, <1>5 DEF Behind, BatchBrings, ReplyBrings

\* What a merge makes of each column.
LEMMA MergeFields ==
    ASSUME NEW mine \in Row, NEW base \in Row \cup {None}, NEW remote \in Row
    PROVE  LET merged == Merge(mine, base, remote) IN
           /\ merged \in Row
           /\ merged.lm = remote.lm /\ merged.deleted = mine.deleted
           /\ \A s \in States : merged[s] =
                IF base = None THEN remote[s]
                ELSE IF mine.deleted THEN mine[s]
                ELSE MergedState(s, mine, base, remote)
<1>1. Merge(mine, base, remote) \in Row
    BY RowTypes
<1>2. CASE base = None
    BY <1>1, <1>2 DEF Merge, Row, States
<1>3. CASE base # None /\ mine.deleted
    BY <1>1, <1>3 DEF Merge, Row, States
<1>4. CASE base # None /\ ~mine.deleted
    <2> DEFINE r == MergedState("read", mine, base, remote)
               d == MergedState("done", mine, base, remote)
    <2>1. Merge(mine, base, remote) =
            [[mine EXCEPT !.lm = remote.lm] EXCEPT !.read = r, !.done = d]
        BY <1>4 DEF Merge
    <2> HIDE DEF r, d
    <2>2. /\ Merge(mine, base, remote).lm = remote.lm
          /\ Merge(mine, base, remote).deleted = mine.deleted
          /\ Merge(mine, base, remote)["read"] = r
          /\ Merge(mine, base, remote)["done"] = d
        BY <2>1 DEF Row
    <2> QED BY <1>1, <1>4, <2>2 DEF States, r, d
<1> QED BY <1>1, <1>2, <1>3, <1>4

\* What a handler writes has the version of the downloaded message, wherever it
\* writes at all, and it writes to no other message.
LEMMA HandleVersions ==
    ASSUME ForwardInv, Handle
    PROVE  \E e \in batch :
            /\ IsNext(e)
            /\ \A m \in Msgs \ {e.msg} : local'[m] = local[m] /\ old'[m] = old[m]
            /\ \/ local'[e.msg] = local[e.msg]
               \/ local'[e.msg] # None /\ local'[e.msg].lm = e.row.lm
            /\ \/ old'[e.msg] = old[e.msg]
               \/ old'[e.msg] = None
               \/ old'[e.msg] # None /\ old'[e.msg].lm = e.row.lm
<1> PICK e \in batch :
        /\ IsNext(e)
        /\ \/ HandleNewTombstone(e)
           \/ HandleNewMessage(e)
           \/ HandleDeletedMessage(e)
           \/ HandleModifiedMessage(e)
    BY DEF Handle
<1> DEFINE m == e.msg
           remote == Decoded(e.msg, e.row)
           Effect == /\ \A n \in Msgs \ {m} : local'[n] = local[n] /\ old'[n] = old[n]
                     /\ \/ local'[m] = local[m]
                        \/ local'[m] # None /\ local'[m].lm = e.row.lm
                     /\ \/ old'[m] = old[m] \/ old'[m] = None
                        \/ old'[m] # None /\ old'[m].lm = e.row.lm
<1> SUFFICES Effect
    OBVIOUS
<1>1. /\ m \in Msgs /\ e.row \in Row /\ e.row.lm \in Nat /\ None \notin Row
      /\ local \in [Msgs -> Row \cup {None}] /\ old \in [Msgs -> Row \cup {None}]
      /\ loaded \in Row \cup {None}
    BY ForwardTypes
<1>2. remote \in Row /\ remote.lm = e.row.lm
    <2>1. remote \in Row
        BY <1>1, RowTypes
    <2> QED BY <1>1, <2>1 DEF Decoded, Row
<1>3. Tombstone(e.row.lm) \in Row /\ Tombstone(e.row.lm).lm = e.row.lm
    BY <1>1, RowTypes DEF Tombstone
<1> HIDE DEF m, remote
<1>4. CASE HandleNewTombstone(e)
    BY <1>1, <1>3, <1>4 DEF HandleNewTombstone, m
<1>5. CASE HandleNewMessage(e)
    <2>1. CASE ~Decodes(m)
        BY <1>5, <2>1 DEF HandleNewMessage, m
    <2>2. CASE Decodes(m)
        <3> DEFINE kept == [remote EXCEPT !.meta = LATEST_META_VERSION]
        <3>1. kept \in Row /\ kept.lm = e.row.lm
            BY <1>2 DEF Row, LATEST_META_VERSION
        <3>2. /\ local' = [local EXCEPT ![m] = kept] \/ local' = [local EXCEPT ![m] = remote]
              /\ old' = old \/ old' = [old EXCEPT ![m] = remote]
            BY <1>5, <2>2 DEF HandleNewMessage, m, remote
        <3> HIDE DEF kept
        <3>3. \A n \in Msgs \ {m} : local'[n] = local[n] /\ old'[n] = old[n]
            BY <1>1, <3>2
        <3>4. local'[m] # None /\ local'[m].lm = e.row.lm
            BY <1>1, <1>2, <3>1, <3>2
        <3>5. old'[m] = old[m] \/ (old'[m] # None /\ old'[m].lm = e.row.lm)
            BY <1>1, <1>2, <3>2
        <3> QED BY <3>3, <3>4, <3>5
    <2> QED BY <2>1, <2>2
<1>6. CASE HandleDeletedMessage(e)
    <2>1. /\ old' = [old EXCEPT ![m] = None]
          /\ local' = [local EXCEPT ![m] = IF Tombstone(e.row.lm) = loaded THEN @
                                           ELSE Tombstone(e.row.lm)]
        BY <1>6 DEF HandleDeletedMessage, SaveLoaded, m
    <2> QED BY <1>1, <1>3, <2>1
<1>7. CASE HandleModifiedMessage(e)
    <2> DEFINE merged == Merge(loaded, old[m], remote)
    <2>1. loaded \in Row /\ old[m] \in Row \cup {None}
        BY <1>1, <1>7 DEF HandleModifiedMessage
    <2>2. merged \in Row /\ merged.lm = e.row.lm
        BY <1>2, <2>1, MergeFields
    <2>3. ASSUME old[m] # None
          PROVE  RefreshOld(old[m], remote) \in Row
                 /\ RefreshOld(old[m], remote).lm = e.row.lm
        <3>1. old[m] \in Row
            BY <2>1, <2>3
        <3>2. RefreshOld(old[m], remote) \in Row
            BY <1>2, <3>1, RowTypes
        <3> QED BY <1>2, <3>1, <3>2 DEF RefreshOld, Row
    <2>4. CASE ~Decodes(m)
        BY <1>7, <2>4 DEF HandleModifiedMessage, m
    <2>5. CASE Decodes(m)
        <3>1. /\ old' = [old EXCEPT ![m] =
                        IF @ = None \/ SameContent(merged, @) THEN None
                        ELSE RefreshOld(@, remote)]
              /\ local' = [local EXCEPT ![m] = IF merged = loaded THEN @ ELSE merged]
            BY <1>7, <2>5 DEF HandleModifiedMessage, SaveLoaded, m, remote
        <3> HIDE DEF merged
        <3>2. \A n \in Msgs \ {m} : local'[n] = local[n] /\ old'[n] = old[n]
            BY <1>1, <3>1
        <3>3. local'[m] = local[m] \/ (local'[m] # None /\ local'[m].lm = e.row.lm)
            BY <1>1, <2>2, <3>1
        <3>4. CASE old[m] = None \/ SameContent(merged, old[m])
            <4>1. old'[m] = None
                BY <1>1, <3>1, <3>4
            <4> QED BY <3>2, <3>3, <4>1
        <3>5. CASE ~(old[m] = None \/ SameContent(merged, old[m]))
            <4>1. old'[m] = RefreshOld(old[m], remote)
                BY <1>1, <3>1, <3>5
            <4>2. old'[m] # None /\ old'[m].lm = e.row.lm
                BY <1>1, <2>3, <3>5, <4>1
            <4> QED BY <3>2, <3>3, <4>2
        <3> QED BY <3>4, <3>5
    <2> QED BY <2>4, <2>5
<1> QED BY <1>4, <1>5, <1>6, <1>7

LEMMA ForwardHandle == ForwardInv /\ Handle => Behind' /\ BasesGrow /\ WorkerBrings
<1> SUFFICES ASSUME ForwardInv, Handle PROVE Behind' /\ BasesGrow /\ WorkerBrings
    OBVIOUS
<1>1. /\ UNCHANGED <<server, cache, batch>> /\ pc' = "stamp" /\ pc = "handle"
    BY DEF Handle, serverVars, loopVars
<1> PICK e \in batch :
        /\ IsNext(e)
        /\ \A m \in Msgs \ {e.msg} : local'[m] = local[m] /\ old'[m] = old[m]
        /\ \/ local'[e.msg] = local[e.msg]
           \/ local'[e.msg] # None /\ local'[e.msg].lm = e.row.lm
        /\ \/ old'[e.msg] = old[e.msg]
           \/ old'[e.msg] = None
           \/ old'[e.msg] # None /\ old'[e.msg].lm = e.row.lm
    BY HandleVersions
<1>2. /\ e.msg \in Msgs /\ e.row.lm \in Nat
      /\ server[e.msg] # None /\ e.row.lm <= server[e.msg].lm
      /\ \A w \in VersionsOf(e.msg) : w <= e.row.lm
    BY ForwardTypes DEF ForwardInv, Behind, BatchBrings, UpTo
<1>3. VersionsOf(e.msg)' \subseteq VersionsOf(e.msg) \cup {e.row.lm}
    <2> PICK m \in Msgs : m = e.msg
        BY <1>2
    <2> DEFINE S == VersionsOf(m) \cup {e.row.lm}
    <2>1. /\ local'[m] = None \/ local'[m].lm \in S
          /\ old'[m] = None \/ old'[m].lm \in S
          /\ cache'[m] = None \/ cache'[m].lm \in S
        BY <1>1, VersionsAre
    <2> HIDE DEF S
    <2>2. VersionsOf(m)' \subseteq S
        BY <2>1, VersionsFrom
    <2> QED BY <2>2 DEF S
<1>4. ASSUME NEW m \in Msgs \ {e.msg} PROVE VersionsOf(m)' = VersionsOf(m)
    BY <1>1, <1>4 DEF VersionsOf
<1>5. NotAhead'
    <2> SUFFICES ASSUME NEW m \in Msgs, NEW w \in VersionsOf(m)'
                 PROVE  server[m] # None /\ w <= server[m].lm
        BY <1>1 DEF NotAhead, UpTo
    <2>1. CASE w \in VersionsOf(m)
        BY <2>1 DEF ForwardInv, Behind, NotAhead, UpTo
    <2>2. CASE w \notin VersionsOf(m)
        <3>1. m = e.msg /\ w = e.row.lm
            BY <1>3, <1>4, <2>2
        <3> QED BY <1>2, <3>1
    <2> QED BY <2>1, <2>2
<1>6. ASSUME NEW f \in batch, NEW w \in VersionsOf(f.msg)' PROVE w <= f.row.lm
    <2>1. f.msg \in Msgs /\ f.row.lm \in Nat /\ e.row.lm <= f.row.lm
        BY ForwardTypes DEF IsNext
    <2>2. CASE w \in VersionsOf(f.msg)
        BY <2>2 DEF ForwardInv, Behind, BatchBrings, UpTo
    <2>3. CASE w \notin VersionsOf(f.msg)
        <3>1. w = e.row.lm
            BY <1>3, <1>4, <1>6, <2>1, <2>3
        <3> QED BY <2>1, <3>1
    <2> QED BY <2>2, <2>3
<1>7. BatchBrings'
    BY <1>1, <1>6 DEF ForwardInv, Behind, BatchBrings, UpTo
<1>8. BasesGrow
    <2> SUFFICES ASSUME NEW m \in Msgs, old[m] # None, old'[m] # None
                 PROVE  old[m].lm <= old'[m].lm
        BY DEF BasesGrow
    <2>1. old[m].lm \in Nat /\ old[m].lm \in VersionsOf(m)
        BY ForwardTypes, VersionsAre
    <2>2. CASE old'[m] = old[m]
        BY <2>1, <2>2
    <2>3. CASE old'[m] # old[m]
        <3>1. m = e.msg /\ old'[m].lm = e.row.lm
            BY <2>3
        <3> QED BY <1>2, <2>1, <3>1
    <2> QED BY <2>2, <2>3
<1>9. WorkerBrings
    <2> SUFFICES ASSUME NEW m \in Msgs, local[m] # None PROVE local[m].lm <= local'[m].lm
        BY DEF WorkerBrings
    <2>1. local[m].lm \in Nat /\ local[m].lm \in VersionsOf(m)
        BY ForwardTypes, VersionsAre
    <2>2. CASE local'[m] = local[m]
        BY <2>1, <2>2
    <2>3. CASE local'[m] # local[m]
        <3>1. m = e.msg /\ local'[m].lm = e.row.lm
            BY <2>3
        <3> QED BY <1>2, <2>1, <3>1
    <2> QED BY <2>2, <2>3
<1> QED BY <1>1, <1>5, <1>7, <1>8, <1>9 DEF Behind, ReplyBrings

\* The answer to an upload brings its version.
LEMMA ForwardReply ==
    ForwardInv /\ HandleSuccessfulModification => Behind' /\ BasesGrow /\ WorkerBrings
<1> SUFFICES ASSUME ForwardInv, HandleSuccessfulModification
             PROVE  Behind' /\ BasesGrow /\ WorkerBrings
    OBVIOUS
<1> PICK m \in Msgs, v \in Nat : m = reply.msg /\ v = reply.lm
    BY ForwardTypes DEF HandleSuccessfulModification
<1>1. /\ pc = "reply" /\ pc' = "upload" /\ UNCHANGED <<server, cache, batch>>
      /\ local' = [local EXCEPT ![m].lm = v]
      /\ old' = [old EXCEPT ![m] = None]
    BY DEF HandleSuccessfulModification, serverVars
<1>2. /\ server[m] # None /\ v <= server[m].lm
      /\ \A w \in VersionsOf(m) : w <= v
    BY <1>1, ForwardTypes DEF ForwardInv, Behind, ReplyBrings, UpTo
<1>3. /\ local \in [Msgs -> Row \cup {None}] /\ old \in [Msgs -> Row \cup {None}]
      /\ local[m] \in Row
    BY <1>1, <1>2, ForwardTypes DEF ForwardInv, CursorInv, Stored
<1>4. /\ local'[m].lm = v /\ old'[m] = None
      /\ \A n \in Msgs \ {m} : local'[n] = local[n] /\ old'[n] = old[n]
    BY <1>1, <1>2, <1>3 DEF Row
<1>5. VersionsOf(m)' \subseteq VersionsOf(m) \cup {v}
    <2> DEFINE S == VersionsOf(m) \cup {v}
    <2>1. /\ local'[m] = None \/ local'[m].lm \in S
          /\ old'[m] = None \/ old'[m].lm \in S
          /\ cache'[m] = None \/ cache'[m].lm \in S
        BY <1>1, <1>4, VersionsAre
    <2> HIDE DEF S
    <2>2. VersionsOf(m)' \subseteq S
        BY <2>1, VersionsFrom
    <2> QED BY <2>2 DEF S
<1>6. ASSUME NEW n \in Msgs \ {m} PROVE VersionsOf(n)' = VersionsOf(n)
    BY <1>1, <1>4, <1>6 DEF VersionsOf
<1>7. NotAhead'
    <2> SUFFICES ASSUME NEW n \in Msgs, NEW w \in VersionsOf(n)'
                 PROVE  server[n] # None /\ w <= server[n].lm
        BY <1>1 DEF NotAhead, UpTo
    <2>1. CASE w \in VersionsOf(n)
        BY <2>1 DEF ForwardInv, Behind, NotAhead, UpTo
    <2>2. CASE w \notin VersionsOf(n)
        <3>1. n = m /\ w = v
            BY <1>5, <1>6, <2>2
        <3> QED BY <1>2, <3>1
    <2> QED BY <2>1, <2>2
<1>8. batch' = {}
    BY <1>1 DEF ForwardInv, Behind, BatchBrings
<1>9. BasesGrow
    <2> SUFFICES ASSUME NEW n \in Msgs, old[n] # None, old'[n] # None
                 PROVE  old[n].lm <= old'[n].lm
        BY DEF BasesGrow
    <2>1. old'[n] = old[n] /\ old[n].lm \in Nat
        BY <1>4, ForwardTypes
    <2> QED BY <2>1
<1>10. WorkerBrings
    <2> SUFFICES ASSUME NEW n \in Msgs, local[n] # None PROVE local[n].lm <= local'[n].lm
        BY DEF WorkerBrings
    <2>1. local[n].lm \in Nat /\ local[n].lm \in VersionsOf(n)
        BY ForwardTypes, VersionsAre
    <2> QED BY <1>2, <1>4, <2>1
<1> QED BY <1>1, <1>7, <1>8, <1>9, <1>10 DEF Behind, BatchBrings, ReplyBrings

\* An upload that is accepted leaves a version above all that is here.
LEMMA ForwardUpload ==
    ASSUME ForwardInv, NEW m \in Msgs, Upload(m) PROVE Behind'
<1>1. /\ pc = "upload" /\ batch = {} /\ UNCHANGED <<local, old, cache, batch>>
    BY DEF Upload, dbVars, uiVars, ForwardInv, Behind, BatchBrings
<1>2. CASE UNCHANGED <<server, clock, pc, reply>>
    BY <1>1, <1>2, ForwardStill
<1>3. CASE ~UNCHANGED <<server, clock, pc, reply>>
    <2>1. /\ old[m] # None /\ server[m] # None
          /\ server' = [server EXCEPT ![m] = Uploaded(local[m])] /\ clock' = clock + 1
          /\ reply' = [msg |-> m, lm |-> clock + 1] /\ pc' = "reply"
        BY <1>3 DEF Upload, Live
    <2>2. local[m] \in Row /\ clock + 1 \in Nat
        BY <2>1, ForwardTypes DEF ForwardInv, CursorInv, Stored
    <2>3. Uploaded(local[m]) \in Row /\ Uploaded(local[m]).lm = clock + 1
        <3>1. Tombstone(clock + 1) \in Row
            BY <2>2, RowTypes
        <3> QED BY <2>2, <3>1 DEF Uploaded, Tombstone, Row, LATEST_META_VERSION
    <2>4. /\ \A n \in Msgs : server[n] # None =>
                /\ server'[n] # None /\ server'[n].lm \in Nat
                /\ server[n].lm <= server'[n].lm
          /\ server'[m] = Uploaded(local[m])
        BY <2>1, <2>3, ForwardNewVersion
    <2>5. \A n \in Msgs : VersionsOf(n)' = VersionsOf(n)
        BY <1>1 DEF VersionsOf
    <2>6. NotAhead'
        <3> SUFFICES ASSUME NEW n \in Msgs, NEW w \in VersionsOf(n)
                     PROVE  server'[n] # None /\ w <= server'[n].lm
            BY <2>5 DEF NotAhead, UpTo
        <3>1. w \in Nat /\ server[n] # None /\ w <= server[n].lm /\ server[n].lm \in Nat
            BY VersionsAre, ForwardTypes DEF ForwardInv, Behind, NotAhead, UpTo
        <3> QED BY <2>4, <3>1
    <2>7. ReplyBrings'
        <3>1. server'[m] # None /\ clock + 1 <= server'[m].lm
            BY <2>1, <2>2, <2>3, <2>4
        <3>2. ASSUME NEW w \in VersionsOf(m) PROVE w <= clock + 1
            <4>1. w \in Nat /\ w <= server[m].lm
                BY VersionsAre DEF ForwardInv, Behind, NotAhead, UpTo
            <4>2. server[m].lm \in Nat /\ server[m].lm <= clock /\ clock \in Nat
                BY <2>1, ForwardTypes
            <4> QED BY <4>1, <4>2
        <3>3. \A w \in VersionsOf(m)' : w <= clock + 1
            BY <2>5, <3>2
        <3>4. reply'.msg = m /\ reply'.lm = clock + 1
            BY <2>1
        <3> QED BY <3>1, <3>3, <3>4 DEF ReplyBrings, UpTo
    <2> QED BY <1>1, <2>6, <2>7 DEF Behind, BatchBrings
<1> QED BY <1>2, <1>3

\* A step beside the worker, which copies versions from row to row.
LEMMA ForwardCopies ==
    ASSUME ForwardInv, UNCHANGED <<server, pc, batch, reply>>,
           \A m \in Msgs : VersionsOf(m)' \subseteq VersionsOf(m)
    PROVE  Behind'
<1>1. \A m \in Msgs : server[m] # None =>
            /\ server'[m] # None /\ server'[m].lm \in Nat /\ server[m].lm <= server'[m].lm
    BY ForwardTypes
<1>2. batch' # {} => pc' \in {"process", "handle", "stamp"}
    BY DEF ForwardInv, Behind, BatchBrings
<1> QED BY <1>1, <1>2, ForwardUnmoved

\* The user's changes: the new row has the version of the cached one, and
\* the row that is kept as its base has its own.
LEMMA ForwardUser == ForwardInv /\ User => Behind' /\ BasesGrow
<1> SUFFICES ASSUME ForwardInv, NEW m \in Msgs,
                    \/ \E s \in States, b \in BOOLEAN : SetState(m, s, b)
                    \/ Remove(m)
             PROVE  Behind' /\ BasesGrow
    BY DEF User
<1>1. /\ local \in [Msgs -> Row \cup {None}] /\ old \in [Msgs -> Row \cup {None}]
      /\ cache \in [Msgs -> Row \cup {None}] /\ cache[m] \in Row /\ None \notin Row
    BY ForwardTypes DEF SetState, Remove, Shown
<1>2. UNCHANGED <<server, pc, batch, reply>>
    BY DEF SetState, Remove, serverVars, loopVars
<1>3. PICK row \in Row :
        /\ row.lm = cache[m].lm
        /\ SaveCached(m, row)
        /\ cache' = [cache EXCEPT ![m] = row] \/ cache' = [cache EXCEPT ![m] = None]
    <2>1. ASSUME NEW s \in States, NEW b \in BOOLEAN, SetState(m, s, b)
          PROVE  \E row \in Row :
                    /\ row.lm = cache[m].lm
                    /\ SaveCached(m, row)
                    /\ cache' = [cache EXCEPT ![m] = row] \/ cache' = [cache EXCEPT ![m] = None]
        <3> DEFINE row == [cache[m] EXCEPT ![s] = b]
        <3>1. row \in Row /\ row.lm = cache[m].lm
            BY <1>1 DEF Row, States
        <3>2. SaveCached(m, row) /\ cache' = [cache EXCEPT ![m] = row]
            BY <2>1 DEF SetState
        <3> HIDE DEF row
        <3> QED BY <3>1, <3>2
    <2>2. ASSUME Remove(m)
          PROVE  \E row \in Row :
                    /\ row.lm = cache[m].lm
                    /\ SaveCached(m, row)
                    /\ cache' = [cache EXCEPT ![m] = row] \/ cache' = [cache EXCEPT ![m] = None]
        <3> DEFINE row == Tombstone(cache[m].lm)
        <3>1. cache[m].lm \in Nat
            BY <1>1, ForwardTypes
        <3>2. row \in Row /\ row.lm = cache[m].lm
            BY <3>1, RowTypes DEF Tombstone
        <3>3. SaveCached(m, row) /\ cache' = [cache EXCEPT ![m] = None]
            BY <2>2 DEF Remove, RemoveFromCache
        <3> HIDE DEF row
        <3> QED BY <3>2, <3>3
    <2> QED BY <2>1, <2>2
<1>4. /\ local'[m] = row /\ old'[m] = OldOnSave(old[m], local[m])
      /\ cache'[m] \in {row, None}
      /\ \A n \in Msgs \ {m} :
            local'[n] = local[n] /\ old'[n] = old[n] /\ cache'[n] = cache[n]
    BY <1>1, <1>3 DEF SaveCached
<1>5. VersionsOf(m)' \subseteq VersionsOf(m)
    <2> DEFINE S == VersionsOf(m)
    <2>1. row.lm \in S
        BY <1>1, <1>3, VersionsAre
    <2>2. old'[m] = None \/ old'[m].lm \in S
        BY <1>4, VersionsAre DEF OldOnSave
    <2>3. /\ local'[m] = None \/ local'[m].lm \in S
          /\ cache'[m] = None \/ cache'[m].lm \in S
        BY <1>4, <2>1
    <2> HIDE DEF S
    <2>4. VersionsOf(m)' \subseteq S
        BY <2>2, <2>3, VersionsFrom
    <2> QED BY <2>4 DEF S
<1>6. ASSUME NEW n \in Msgs \ {m} PROVE VersionsOf(n)' = VersionsOf(n)
    BY <1>4, <1>6 DEF VersionsOf
<1>7. Behind'
    BY <1>2, <1>5, <1>6, ForwardCopies
<1>8. BasesGrow
    <2> SUFFICES ASSUME NEW n \in Msgs, old[n] # None, old'[n] # None
                 PROVE  old[n].lm <= old'[n].lm
        BY DEF BasesGrow
    <2>1. old'[n] = old[n] /\ old[n].lm \in Nat
        BY <1>4, ForwardTypes DEF OldOnSave
    <2> QED BY <2>1
<1> QED BY <1>7, <1>8

\* The cache is refreshed from the database.
LEMMA ForwardNotify == ForwardInv /\ Notify => Behind'
<1> SUFFICES ASSUME ForwardInv, Notify PROVE Behind'
    OBVIOUS
<1>1. UNCHANGED <<server, local, old, pc, batch, reply>>
    BY DEF Notify, serverVars, dbVars, loopVars
<1>2. cache \in [Msgs -> Row \cup {None}]
    BY ForwardTypes
<1>3. ASSUME NEW m \in Msgs PROVE cache'[m] \in {cache[m], local[m], None}
    BY <1>2 DEF Notify, RemoveFromCache
<1>4. ASSUME NEW m \in Msgs PROVE VersionsOf(m)' \subseteq VersionsOf(m)
    BY <1>1, <1>3 DEF VersionsOf
<1> QED BY <1>1, <1>4, ForwardCopies

\* A new session reads the cache from the database.
LEMMA ForwardRestart == ForwardInv /\ Restart => Behind'
<1> SUFFICES ASSUME ForwardInv, Restart PROVE Behind'
    OBVIOUS
<1>1. /\ UNCHANGED <<server, local, old>> /\ cache' = local
      /\ batch' = {} /\ pc' = "idle"
    BY DEF Restart, ResetLoops, serverVars, dbVars
<1>2. ASSUME NEW m \in Msgs PROVE VersionsOf(m)' \subseteq VersionsOf(m)
    BY <1>1 DEF VersionsOf
<1>3. \A m \in Msgs : server[m] # None =>
            /\ server'[m] # None /\ server'[m].lm \in Nat /\ server[m].lm <= server'[m].lm
    BY <1>1, ForwardTypes
<1> QED BY <1>1, <1>2, <1>3, ForwardUnmoved

\* Other devices and senders write newer versions.
LEMMA ForwardRemote == ForwardInv /\ Remote => Behind'
<1> SUFFICES ASSUME ForwardInv, NEW m \in Msgs,
                    \/ \E s \in RemoteStates : RemoteWrite(m, s)
                    \/ RemoteDelete(m)
             PROVE  Behind'
    BY DEF Remote
<1>1. /\ UNCHANGED <<local, old, cache, pc, batch, reply>> /\ clock + 1 \in Nat
      /\ clock' = clock + 1
    BY ForwardTypes DEF RemoteWrite, RemoteDelete, dbVars, uiVars, loopVars
<1>2. PICK row \in Row : row.lm = clock + 1 /\ server' = [server EXCEPT ![m] = row]
    <2>1. ASSUME NEW s \in RemoteStates, RemoteWrite(m, s)
          PROVE  \E row \in Row : row.lm = clock + 1 /\ server' = [server EXCEPT ![m] = row]
        <3> DEFINE row == [lm |-> clock + 1, deleted |-> FALSE,
                           meta |-> s.meta, read |-> s.read, done |-> s.done]
        <3>1. row \in Row /\ row.lm = clock + 1
            BY <1>1, ConstantsAssumption DEF Row
        <3>2. server' = [server EXCEPT ![m] = row]
            BY <1>1, <2>1 DEF RemoteWrite
        <3> HIDE DEF row
        <3> QED BY <3>1, <3>2
    <2>2. ASSUME RemoteDelete(m)
          PROVE  \E row \in Row : row.lm = clock + 1 /\ server' = [server EXCEPT ![m] = row]
        <3>1. Tombstone(clock + 1) \in Row /\ Tombstone(clock + 1).lm = clock + 1
            BY <1>1, RowTypes DEF Tombstone
        <3>2. server' = [server EXCEPT ![m] = Tombstone(clock + 1)]
            BY <1>1, <2>2 DEF RemoteDelete
        <3> QED BY <3>1, <3>2
    <2> QED BY <2>1, <2>2
<1>3. \A n \in Msgs : server[n] # None =>
            /\ server'[n] # None /\ server'[n].lm \in Nat /\ server[n].lm <= server'[n].lm
    BY <1>2, ForwardNewVersion
<1>4. \A n \in Msgs : VersionsOf(n)' = VersionsOf(n)
    BY <1>1 DEF VersionsOf
<1>5. batch' # {} => pc' \in {"process", "handle", "stamp"}
    BY <1>1 DEF ForwardInv, Behind, BatchBrings
<1> QED BY <1>1, <1>3, <1>4, <1>5, ForwardUnmoved

\* Every step keeps what is here behind the server, and takes no version back.
LEMMA ForwardNext == ForwardInv /\ [Next]_vars => ForwardInv' /\ VersionsGrow
<1> SUFFICES ASSUME ForwardInv, [Next]_vars PROVE Behind' /\ VersionsGrow
    BY CursorNext DEF ForwardInv
<1> USE DEF serverVars, dbVars, uiVars, loopVars
<1>1. timestamp <= timestamp'
    <2>1. CASE Stamp
        BY <2>1, ForwardTypes DEF Stamp, ForwardInv, CursorInv, BatchComplete
    <2>2. CASE UNCHANGED timestamp
        BY <2>2, ForwardTypes
    <2> QED BY <2>1, <2>2
        DEF Next, Worker, User, Remote, vars, StartSync, Download, LoadLocal, Handle, PageDone,
            Upload, HandleSuccessfulModification, Finish, ThrowCanceled, Notify, SetState,
            Remove, RemoteWrite, RemoteDelete, Fail, Cancel, Restart
<1>2. UNCHANGED old => BasesGrow
    BY ForwardTypes DEF BasesGrow
<1>3. UNCHANGED local => WorkerBrings
    BY ForwardTypes DEF WorkerBrings
<1>4. BasesGrow
    <2>1. CASE Handle \/ HandleSuccessfulModification \/ User
        BY <2>1, ForwardHandle, ForwardReply, ForwardUser
    <2>2. CASE UNCHANGED old
        BY <1>2, <2>2
    <2> QED BY <2>1, <2>2
        DEF Next, Worker, Remote, vars, StartSync, Download, LoadLocal, Stamp, PageDone,
            Upload, Finish, ThrowCanceled, Notify, RemoteWrite, RemoteDelete, Fail, Cancel,
            Restart
<1>5. WorkerBrings
    <2> SUFFICES ASSUME Worker PROVE WorkerBrings
        BY DEF WorkerBrings
    <2>1. CASE Handle \/ HandleSuccessfulModification
        BY <2>1, ForwardHandle, ForwardReply
    <2>2. CASE UNCHANGED local
        BY <1>3, <2>2
    <2> QED BY <2>1, <2>2
        DEF Worker, StartSync, Download, LoadLocal, Stamp, PageDone, Upload, Finish,
            ThrowCanceled
<1>6. Behind'
    <2>1. CASE Download \/ Handle \/ HandleSuccessfulModification \/ User \/ Notify \/ Restart
               \/ Remote
        BY <2>1, ForwardDownload, ForwardHandle, ForwardReply, ForwardUser, ForwardNotify,
            ForwardRestart, ForwardRemote
    <2>2. ASSUME NEW m \in Msgs, Upload(m) PROVE Behind'
        BY <2>2, ForwardUpload
    <2>3. CASE LoadLocal \/ Stamp
        <3>1. /\ UNCHANGED <<server, local, old, cache>> /\ batch' \subseteq batch
              /\ pc' \in {"process", "handle"}
            BY <2>3 DEF LoadLocal, Stamp
        <3> QED BY <3>1, ForwardStill
    <2>4. CASE StartSync \/ PageDone
        <3>1. /\ UNCHANGED <<server, local, old, cache, batch>> /\ pc' # "reply"
              /\ batch = {}
            BY <2>4 DEF StartSync, PageDone, ForwardInv, Behind, BatchBrings
        <3> QED BY <3>1, ForwardStill
    <2>5. CASE Finish \/ ThrowCanceled \/ Fail
        <3>1. /\ UNCHANGED <<server, local, old, cache>> /\ pc' = "idle" /\ batch' = {}
            BY <2>5 DEF Finish, ThrowCanceled, Fail, ResetLoops
        <3> QED BY <3>1, ForwardStill
    <2>6. CASE Cancel \/ UNCHANGED vars
        <3>1. UNCHANGED <<server, local, old, cache, pc, batch, reply>>
            BY <2>6 DEF Cancel, vars
        <3>2. batch' # {} => pc' \in {"process", "handle", "stamp"}
            BY <3>1 DEF ForwardInv, Behind, BatchBrings
        <3> QED BY <3>1, <3>2, ForwardStill
    <2> QED BY <2>1, <2>2, <2>3, <2>4, <2>5, <2>6 DEF Next, Worker
<1> QED BY <1>1, <1>4, <1>5, <1>6 DEF VersionsGrow

\* Nothing goes back: the cursor only grows, so that it never asks again for
\* what it has passed; the base of a local change, on top of which it is
\* uploaded, never gets an older version; and no row that MessagesSyncer writes
\* replaces a newer one, even when the user changed it between the load of the
\* row and the commit.
THEOREM VersionsOnlyGrow == Spec => [][VersionsGrow]_vars
<1>1. ForwardInv /\ [Next]_vars => [VersionsGrow]_vars
    BY ForwardNext
<1>2. ForwardInv /\ [Next]_vars => ForwardInv'
    BY ForwardNext
<1> QED BY <1>1, <1>2, ForwardInit, PTL DEF Spec

\* What is in the database or before the user's eyes never has a version the
\* server has not given to that message: an upload that conflicts is refused for
\* a newer version or a tombstone on the server, never for a base ahead of it.
THEOREM NotAheadCorrect == Spec => []NotAhead
<1>1. ForwardInv => NotAhead
    BY DEF ForwardInv, Behind
<1>2. ForwardInv /\ [Next]_vars => ForwardInv'
    BY ForwardNext
<1> QED BY <1>1, <1>2, ForwardInit, PTL DEF Spec

-----------------------------------------------------------------------------
(* What the client believes of the server is so, when the user acts only   *)
(* between syncs.  Below the cursor and under an equal version it must be; *)
(* so the invariant says how the rows of a batch relate to the server now, *)
(* what the worker knows between the load, the handling and the stamp of a *)
(* message, and what the server's answer to an upload means when it comes. *)

\* An entry of the batch is the server's row, or an outdated one.
BatchIsTrue ==
    /\ batch # {} => pc \in {"process", "handle", "stamp"}
    /\ \A e, f \in batch : e.msg = f.msg => e = f
    /\ \A e \in batch :
        /\ server[e.msg] # None
        /\ server[e.msg] = e.row \/ (~e.row.deleted /\ e.row.lm < server[e.msg].lm)

\* What the client believes to be deleted is deleted, for good.
DeletedIsFinal ==
    \A m \in Msgs : Base(m) # None /\ Base(m).deleted =>
        /\ server[m] # None /\ server[m].deleted
        /\ \A e \in batch : e.msg = m => e.row.deleted

LoadedIsLocal ==
    pc = "handle" => \A e \in batch : IsNext(e) => loaded = local[e.msg]

HandledIsTrue ==
    pc = "stamp" => \A e \in batch : IsNext(e) /\ Decodes(e.msg) =>
        Base(e.msg) # None /\ AgreesWith(e.msg, Base(e.msg), e.row)

ReplyIsTrue ==
    pc = "reply" =>
        /\ server[reply.msg] # None
        /\ timestamp < reply.lm /\ reply.lm <= server[reply.msg].lm
        /\ server[reply.msg].lm = reply.lm => AgreesWith(reply.msg, local[reply.msg], server[reply.msg])
        /\ local[reply.msg].deleted => server[reply.msg].deleted

BaseIsOld == \A m \in Msgs : Base(m) # None => Base(m).lm <= clock

CachedIsStored == \A m \in Msgs : cache[m] # None => local[m] # None

Beliefs ==
    /\ BatchIsTrue /\ DeletedIsFinal /\ LoadedIsLocal /\ HandledIsTrue /\ ReplyIsTrue
    /\ BaseIsOld /\ VersionsAreTrue

VersionInv == CursorInv /\ CachedIsStored /\ Beliefs

\* A merge that leaves no local change ends at the states of the remote row.
LEMMA SettledMerge ==
    ASSUME NEW mine \in Row, NEW base \in Row, NEW remote \in Row,
           ~base.deleted, SameContent(Merge(mine, base, remote), base)
    PROVE  ~mine.deleted /\ \A s \in States : Merge(mine, base, remote)[s] = remote[s]
<1> DEFINE merged == Merge(mine, base, remote)
<1>1. /\ merged.deleted = mine.deleted
      /\ \A s \in States : merged[s] = IF mine.deleted THEN mine[s]
                                       ELSE MergedState(s, mine, base, remote)
    BY MergeFields, NoneIsNoRow
<1>2. ~merged.deleted /\ \A s \in States : merged[s] = base[s]
    BY DEF SameContent, States
<1> HIDE DEF merged
<1> QED BY <1>1, <1>2 DEF MergedState, merged

\* There is one next message.
LEMMA NextIsOne ==
    ASSUME CursorInv, NEW e \in batch, IsNext(e), NEW f \in batch, IsNext(f)
    PROVE  e = f
BY DEF IsNext, CursorInv, BatchComplete, TypeOK, Entry, Row

\* Handling a message brings the client's belief to the downloaded row, and
\* touches no other message; one that does not decode it leaves alone.
LEMMA HandleEffect ==
    ASSUME VersionInv, Handle
    PROVE  \E e \in batch :
            /\ IsNext(e)
            /\ \A m \in Msgs \ {e.msg} : local'[m] = local[m] /\ old'[m] = old[m]
            /\ \/ ~Decodes(e.msg) /\ UNCHANGED <<local, old>>
               \/ /\ Base(e.msg)' # None
                  /\ Base(e.msg)'.lm = e.row.lm
                  /\ AgreesWith(e.msg, Base(e.msg)', e.row)
<1> PICK e \in batch :
        /\ IsNext(e)
        /\ \/ HandleNewTombstone(e)
           \/ HandleNewMessage(e)
           \/ HandleDeletedMessage(e)
           \/ HandleModifiedMessage(e)
    BY DEF Handle
<1> DEFINE m == e.msg
           remote == Decoded(e.msg, e.row)
           Effect == /\ \A n \in Msgs \ {m} : local'[n] = local[n] /\ old'[n] = old[n]
                     /\ \/ ~Decodes(m) /\ UNCHANGED <<local, old>>
                        \/ /\ Base(m)' # None
                           /\ Base(m)'.lm = e.row.lm
                           /\ AgreesWith(m, Base(m)', e.row)
<1> SUFFICES Effect
    OBVIOUS
<1>1. /\ m \in Msgs /\ e.row \in Row /\ e.row.lm \in Nat
      /\ local \in [Msgs -> Row \cup {None}] /\ old \in [Msgs -> Row \cup {None}]
    BY DEF VersionInv, CursorInv, TypeOK, Entry, Row
<1>2. loaded = local[m]
    BY DEF VersionInv, Beliefs, LoadedIsLocal, Handle
<1>3. local[m] = None => old[m] = None
    BY <1>1 DEF VersionInv, CursorInv, Stored
<1>4. /\ remote \in Row /\ remote.lm = e.row.lm /\ remote.deleted = e.row.deleted
      /\ \A s \in States : remote[s] = DecodedState(m, e.row, s)
    <2>1. remote \in Row
        BY <1>1, RowTypes
    <2> QED BY <1>1, <2>1 DEF Decoded, Row, States
<1>5. Tombstone(e.row.lm) \in Row /\ Tombstone(e.row.lm).deleted
      /\ Tombstone(e.row.lm).lm = e.row.lm
    BY <1>1, RowTypes DEF Tombstone
<1> HIDE DEF m, remote
<1>6. CASE HandleNewTombstone(e)
    <2>1. local' = [local EXCEPT ![m] = Tombstone(e.row.lm)] /\ old' = old
          /\ old[m] = None /\ e.row.deleted
        BY <1>2, <1>3, <1>6 DEF HandleNewTombstone, m
    <2>2. Base(m)' = Tombstone(e.row.lm)
        BY <1>1, <2>1 DEF Base
    <2> QED BY <1>1, <1>5, <2>1, <2>2, NoneIsNoRow DEF AgreesWith
<1>7. CASE HandleNewMessage(e)
    <2>1. old[m] = None /\ ~e.row.deleted
        BY <1>2, <1>3, <1>7 DEF HandleNewMessage
    <2>2. CASE ~Decodes(m)
        BY <1>7, <2>2 DEF HandleNewMessage, m
    <2>3. CASE Decodes(m)
        <3>1. /\ \A n \in Msgs \ {m} : local'[n] = local[n] /\ old'[n] = old[n]
              /\ Base(m)' = remote
            <4>1. CASE remote.meta < LATEST_META_VERSION
                <5>1. old' = [old EXCEPT ![m] = remote]
                      /\ local' = [local EXCEPT ![m] =
                                    [remote EXCEPT !.meta = LATEST_META_VERSION]]
                    BY <1>7, <2>3, <4>1 DEF HandleNewMessage, m, remote
                <5> QED BY <1>1, <1>4, <5>1, NoneIsNoRow DEF Base
            <4>2. CASE ~(remote.meta < LATEST_META_VERSION)
                <5>1. old' = old /\ local' = [local EXCEPT ![m] = remote]
                    BY <1>7, <2>3, <4>2 DEF HandleNewMessage, m, remote
                <5> QED BY <1>1, <2>1, <5>1 DEF Base
            <4> QED BY <4>1, <4>2
        <3> QED BY <1>4, <2>1, <3>1, NoneIsNoRow DEF AgreesWith
    <2> QED BY <2>2, <2>3
<1>8. CASE HandleDeletedMessage(e)
    <2>1. /\ old' = [old EXCEPT ![m] = None] /\ e.row.deleted
          /\ local' = [local EXCEPT ![m] = IF Tombstone(e.row.lm) = loaded THEN @
                                           ELSE Tombstone(e.row.lm)]
        BY <1>8 DEF HandleDeletedMessage, SaveLoaded, m
    <2>2. Base(m)' = Tombstone(e.row.lm)
        BY <1>1, <1>2, <2>1 DEF Base
    <2> QED BY <1>1, <1>5, <2>1, <2>2, NoneIsNoRow DEF AgreesWith
<1>9. CASE HandleModifiedMessage(e)
    <2> DEFINE merged == Merge(local[m], old[m], remote)
    <2>1. ~e.row.deleted /\ local[m] \in Row /\ old[m] \in Row \cup {None}
        BY <1>1, <1>2, <1>9 DEF HandleModifiedMessage
    <2>2. ~Base(m).deleted
        BY <1>1, <2>1, NoneIsNoRow DEF VersionInv, Beliefs, DeletedIsFinal, Base, m
    <2>3. /\ merged \in Row
          /\ merged.lm = remote.lm /\ merged.deleted = local[m].deleted
          /\ old[m] = None => \A s \in States : merged[s] = remote[s]
        <3>1. remote \in Row
            BY <1>4
        <3>2. merged \in Row /\ merged.lm = remote.lm /\ merged.deleted = local[m].deleted
            BY <2>1, <3>1, MergeFields
        <3>3. ASSUME old[m] = None, NEW s \in States PROVE merged[s] = remote[s]
            <4>1. merged[s] = IF old[m] = None THEN remote[s]
                              ELSE IF local[m].deleted THEN local[m][s]
                              ELSE MergedState(s, local[m], old[m], remote)
                BY <2>1, <3>1, MergeFields
            <4> QED BY <3>3, <4>1
        <3> QED BY <3>2, <3>3
    <2>4. old[m] # None /\ SameContent(merged, old[m]) =>
            ~merged.deleted /\ \A s \in States : merged[s] = remote[s]
        BY <1>4, <2>1, <2>2, <2>3, SettledMerge DEF Base
    <2>5. CASE ~Decodes(m)
        BY <1>9, <2>5 DEF HandleModifiedMessage, m
    <2>6. CASE Decodes(m)
        <3>1. /\ old' = [old EXCEPT ![m] =
                        IF @ = None \/ SameContent(merged, @) THEN None
                        ELSE RefreshOld(@, remote)]
              /\ local' = [local EXCEPT ![m] = IF merged = loaded THEN @ ELSE merged]
            BY <1>2, <1>9, <2>6 DEF HandleModifiedMessage, SaveLoaded, m, remote
        <3> HIDE DEF merged
        <3>2. /\ local'[m] = merged
              /\ \A n \in Msgs \ {m} : local'[n] = local[n] /\ old'[n] = old[n]
            BY <1>1, <1>2, <3>1
        <3>3. CASE old[m] = None \/ SameContent(merged, old[m])
            <4>1. old'[m] = None
                BY <1>1, <3>1, <3>3
            <4>2. Base(m)' = merged
                BY <3>2, <4>1 DEF Base
            <4>3. ~merged.deleted
                BY <2>2, <2>3, <2>4, <3>3 DEF Base
            <4>4. merged.lm = e.row.lm /\ \A s \in States : merged[s] = remote[s]
                BY <1>4, <2>3, <2>4, <3>3
            <4>5. AgreesWith(m, Base(m)', e.row)
                <5>1. merged.deleted = FALSE /\ e.row.deleted = FALSE
                    BY <1>1, <2>1, <2>3, <4>3 DEF Row
                <5> QED BY <1>4, <4>2, <4>4, <5>1 DEF AgreesWith
            <4> QED BY <2>3, <3>2, <4>2, <4>4, <4>5, NoneIsNoRow
        <3>4. CASE old[m] # None /\ ~SameContent(merged, old[m])
            <4> DEFINE fresh == RefreshOld(old[m], remote)
            <4>1. old[m] \in Row
                BY <2>1, <3>4
            <4>2. /\ fresh \in Row /\ fresh.lm = remote.lm /\ ~fresh.deleted
                  /\ \A s \in States : fresh[s] = remote[s]
                <5>1. fresh \in Row
                    BY <1>4, <4>1, RowTypes
                <5> QED BY <1>4, <4>1, <5>1 DEF RefreshOld, Row, States
            <4> HIDE DEF fresh
            <4>3. old'[m] = fresh
                BY <1>1, <3>1, <3>4 DEF fresh
            <4>4. Base(m)' = fresh
                BY <4>2, <4>3, NoneIsNoRow DEF Base
            <4>5. AgreesWith(m, Base(m)', e.row)
                <5>1. fresh.deleted = FALSE /\ e.row.deleted = FALSE
                    BY <1>1, <2>1, <4>2 DEF Row
                <5> QED BY <1>4, <4>2, <4>4, <5>1 DEF AgreesWith
            <4> QED BY <1>4, <3>2, <4>2, <4>4, <4>5, NoneIsNoRow
        <3> QED BY <3>3, <3>4
    <2> QED BY <2>5, <2>6
<1> QED BY <1>6, <1>7, <1>8, <1>9

\* The rows of an object of the database and of its belief are rows.
LEMMA BaseType ==
    ASSUME CursorInv, NEW m \in Msgs
    PROVE  /\ Base(m) \in Row \cup {None} /\ local[m] \in Row \cup {None}
           /\ Base(m) = None <=> local[m] = None
           /\ server[m] \in Row \cup {None}
BY DEF Base, CursorInv, TypeOK, Stored

\* A version given out now is unknown to the client.  The reply to an upload
\* may be what carries it.
LEMMA BeliefsNewVersion ==
    ASSUME VersionInv, NEW m \in Msgs, NEW row \in Row, row.lm = clock + 1,
           server[m] = None \/ Live(server[m]),
           server' = [server EXCEPT ![m] = row], clock' = clock + 1,
           UNCHANGED <<local, old, timestamp, batch, loaded>>,
           \/ UNCHANGED <<pc, reply>>
           \/ pc = "upload" /\ pc' \notin {"handle", "stamp"} /\ ReplyIsTrue'
    PROVE  Beliefs'
<1> USE DEF VersionInv, Beliefs
<1>1. /\ clock \in Nat /\ timestamp \in Nat /\ server \in [Msgs -> Row \cup {None}]
      /\ \A e \in batch : e.row.lm \in Nat /\ e.msg \in Msgs /\ e.row.lm <= clock
      /\ timestamp <= clock
      /\ \A n \in Msgs : server[n] # None => server[n].lm \in Nat /\ server[n].lm <= clock
      /\ \A n \in Msgs : Base(n) # None => Base(n).lm \in Nat
    BY BaseType DEF CursorInv, TypeOK, Entry, Row, Versions, BatchComplete
<1>2. /\ server'[m] = row /\ row # None
      /\ \A n \in Msgs : n # m => server'[n] = server[n]
      /\ \A n \in Msgs : Base(n)' = Base(n)
    BY <1>1, NoneIsNoRow DEF Base
<1>3. BatchIsTrue'
    <2>1. batch # {} => pc' \in {"process", "handle", "stamp"}
        BY DEF BatchIsTrue
    <2>2. ASSUME NEW e \in batch
          PROVE  /\ server'[e.msg] # None
                 /\ \/ server'[e.msg] = e.row
                    \/ ~e.row.deleted /\ e.row.lm < server'[e.msg].lm
        <3>1. CASE e.msg # m
            BY <1>1, <1>2, <3>1 DEF BatchIsTrue
        <3>2. CASE e.msg = m
            <4>1. ~e.row.deleted
                BY <3>2 DEF BatchIsTrue, Live
            <4> QED BY <1>1, <1>2, <3>2, <4>1
        <3> QED BY <3>1, <3>2
    <2> QED BY <2>1, <2>2 DEF BatchIsTrue
<1>4. DeletedIsFinal'
    <2> SUFFICES ASSUME NEW n \in Msgs, Base(n) # None, Base(n).deleted
                 PROVE  /\ server'[n] # None /\ server'[n].deleted
                        /\ \A e \in batch : e.msg = n => e.row.deleted
        BY <1>2 DEF DeletedIsFinal
    <2> QED BY <1>2 DEF DeletedIsFinal, Live
<1>5. LoadedIsLocal' /\ HandledIsTrue'
    BY <1>1, <1>2 DEF LoadedIsLocal, HandledIsTrue, IsNext
<1>6. ReplyIsTrue'
    <2> SUFFICES ASSUME UNCHANGED <<pc, reply>>, pc = "reply" PROVE ReplyIsTrue'
        BY DEF ReplyIsTrue
    <2>1. reply.msg \in Msgs /\ reply.lm \in Nat /\ reply.lm <= clock
        BY <1>1 DEF CursorInv, Stored, ReplyIsTrue
    <2>2. CASE reply.msg # m
        BY <1>2, <2>1, <2>2 DEF ReplyIsTrue
    <2>3. CASE reply.msg = m
        <3>1. ~local[m].deleted /\ timestamp < reply.lm
            BY <2>1, <2>3 DEF ReplyIsTrue, Live
        <3> QED BY <1>1, <1>2, <2>1, <2>3, <3>1 DEF ReplyIsTrue
    <2> QED BY <2>2, <2>3
<1>7. BaseIsOld'
    BY <1>1, <1>2 DEF BaseIsOld
<1>8. VersionsAreTrue'
    <2> SUFFICES ASSUME NEW n \in Msgs \ Undecodable, server'[n] # None,
                        \/ server'[n].lm <= timestamp
                        \/ Base(n) # None /\ Base(n).lm = server'[n].lm
                 PROVE  Base(n) # None /\ AgreesWith(n, Base(n), server'[n])
        BY <1>2 DEF VersionsAreTrue
    <2>1. n # m
        BY <1>1, <1>2 DEF BaseIsOld
    <2> QED BY <1>2, <2>1 DEF VersionsAreTrue
<1> QED BY <1>3, <1>4, <1>5, <1>6, <1>7, <1>8

\* A step that leaves the server, the cursor and what is believed of each
\* message alone keeps the beliefs true, where the worker is at rest or moves
\* on with an empty batch.
LEMMA BeliefsUnmoved ==
    ASSUME VersionInv, UNCHANGED <<server, clock, timestamp>>,
           \A m \in Msgs : Base(m)' = Base(m),
           \/ UNCHANGED <<pc, batch, loaded, reply>> /\ (UNCHANGED local \/ pc = "idle")
           \/ batch' = {} /\ pc' \notin {"handle", "stamp", "reply"}
    PROVE  Beliefs'
<1> USE DEF VersionInv, Beliefs
<1>1. \A e \in batch : e.msg \in Msgs
    BY DEF CursorInv, TypeOK, Entry
<1>2. batch' = batch \/ batch' = {}
    OBVIOUS
<1>3. BatchIsTrue'
    BY DEF BatchIsTrue
<1>4. DeletedIsFinal'
    BY <1>2 DEF DeletedIsFinal
<1>5. LoadedIsLocal'
    BY DEF LoadedIsLocal, IsNext
<1>6. HandledIsTrue'
    BY <1>1 DEF HandledIsTrue, IsNext
<1>7. ReplyIsTrue'
    BY DEF ReplyIsTrue
<1>8. BaseIsOld' /\ VersionsAreTrue'
    BY DEF BaseIsOld, VersionsAreTrue
<1> QED BY <1>3, <1>4, <1>5, <1>6, <1>7, <1>8

\* A page holds the rows of the server.
LEMMA BeliefsDownload == VersionInv /\ Download => Beliefs'
<1> SUFFICES ASSUME VersionInv, Download PROVE Beliefs'
    OBVIOUS
<1> USE DEF VersionInv, Beliefs, serverVars, dbVars, uiVars
<1>1. UNCHANGED <<server, clock, timestamp, local, old>> /\ pc' = "process"
    BY DEF Download
<1> PICK p \in Pages : batch' = {[msg |-> m, row |-> server[m]] : m \in p}
    BY DEF Download
<1>2. \A m \in p : m \in Msgs /\ server[m] # None
    BY DEF Pages, Changed
<1>3. \A m \in Msgs : Base(m)' = Base(m)
    BY <1>1 DEF Base
<1>4. BatchIsTrue'
    BY <1>1, <1>2 DEF BatchIsTrue
<1>5. DeletedIsFinal'
    BY <1>1, <1>2, <1>3 DEF DeletedIsFinal
<1>6. LoadedIsLocal' /\ HandledIsTrue' /\ ReplyIsTrue' /\ BaseIsOld' /\ VersionsAreTrue'
    BY <1>1, <1>3 DEF LoadedIsLocal, HandledIsTrue, ReplyIsTrue, BaseIsOld, VersionsAreTrue
<1> QED BY <1>4, <1>5, <1>6

\* The row that was loaded is the stored one until it is handled.
LEMMA BeliefsLoadLocal == VersionInv /\ LoadLocal => Beliefs'
<1> SUFFICES ASSUME VersionInv, LoadLocal PROVE Beliefs'
    OBVIOUS
<1> USE DEF VersionInv, Beliefs, serverVars, dbVars, uiVars
<1>1. UNCHANGED <<server, clock, timestamp, local, old, batch>> /\ pc' = "handle"
    BY DEF LoadLocal
<1>2. PICK e \in batch : IsNext(e) /\ loaded' = local[e.msg]
    BY DEF LoadLocal
<1>3. \A m \in Msgs : Base(m)' = Base(m)
    BY <1>1 DEF Base
<1>4. LoadedIsLocal'
    <2> SUFFICES ASSUME NEW f \in batch, IsNext(f) PROVE loaded' = local[f.msg]
        BY <1>1 DEF LoadedIsLocal, IsNext
    <2> QED BY <1>2, NextIsOne
<1> QED BY <1>1, <1>3, <1>4 DEF BatchIsTrue, DeletedIsFinal, HandledIsTrue, ReplyIsTrue,
    BaseIsOld, VersionsAreTrue

\* A row that is taken in is the server's, or an outdated one of which nothing
\* is claimed.
LEMMA BeliefsHandle == VersionInv /\ Handle => Beliefs'
<1> SUFFICES ASSUME VersionInv, Handle PROVE Beliefs'
    OBVIOUS
<1> USE DEF serverVars, loopVars
<1>1. UNCHANGED <<server, clock, timestamp, batch, loaded>> /\ pc = "handle" /\ pc' = "stamp"
    BY DEF Handle
<1> PICK e \in batch :
        /\ IsNext(e)
        /\ \A m \in Msgs \ {e.msg} : local'[m] = local[m] /\ old'[m] = old[m]
        /\ \/ ~Decodes(e.msg) /\ UNCHANGED <<local, old>>
           \/ /\ Base(e.msg)' # None
              /\ Base(e.msg)'.lm = e.row.lm
              /\ AgreesWith(e.msg, Base(e.msg)', e.row)
    BY HandleEffect
<1> DEFINE m == e.msg
           Undecoded == ~Decodes(m) /\ Base(m)' = Base(m)
           TakenIn == /\ Base(m)' # None
                      /\ Base(m)'.lm = e.row.lm
                      /\ AgreesWith(m, Base(m)', e.row)
<1>2. /\ m \in Msgs /\ e.row \in Row
      /\ timestamp \in Nat /\ clock \in Nat /\ e.row.lm \in Nat
      /\ \A n \in Msgs : server[n] # None => server[n].lm \in Nat
    BY DEF VersionInv, CursorInv, TypeOK, Entry, Row
<1>3. \A n \in Msgs \ {m} : Base(n)' = Base(n)
    BY DEF Base
<1>4. Undecoded \/ TakenIn
    BY <1>2 DEF Base
<1>5. timestamp < e.row.lm /\ e.row.lm <= clock
    BY DEF VersionInv, CursorInv, BatchComplete
<1>6. /\ server[m] # None
      /\ server[m] = e.row \/ (~e.row.deleted /\ e.row.lm < server[m].lm)
      /\ \A f \in batch : f.msg = m => f = e
    BY DEF VersionInv, Beliefs, BatchIsTrue
<1> HIDE DEF m
<1>7. BatchIsTrue'
    BY <1>1 DEF VersionInv, Beliefs, BatchIsTrue
<1>8. DeletedIsFinal'
    <2> SUFFICES ASSUME NEW n \in Msgs, Base(n)' # None, Base(n)'.deleted
                 PROVE  /\ server[n] # None /\ server[n].deleted
                        /\ \A f \in batch : f.msg = n => f.row.deleted
        BY <1>1 DEF DeletedIsFinal
    <2>1. CASE n # m \/ Undecoded
        BY <1>3, <2>1 DEF VersionInv, Beliefs, DeletedIsFinal
    <2>2. CASE n = m /\ TakenIn
        BY <1>6, <2>2 DEF AgreesWith
    <2> QED BY <1>4, <2>1, <2>2
<1>9. LoadedIsLocal' /\ ReplyIsTrue'
    BY <1>1 DEF LoadedIsLocal, ReplyIsTrue
<1>10. HandledIsTrue'
    <2> SUFFICES ASSUME NEW f \in batch, IsNext(f), Decodes(f.msg)
                 PROVE  Base(f.msg)' # None /\ AgreesWith(f.msg, Base(f.msg)', f.row)
        BY <1>1 DEF HandledIsTrue, IsNext
    <2>1. f = e
        BY NextIsOne DEF VersionInv
    <2> QED BY <1>4, <2>1 DEF m
<1>11. BaseIsOld'
    <2> SUFFICES ASSUME NEW n \in Msgs, Base(n)' # None PROVE Base(n)'.lm <= clock
        BY <1>1 DEF BaseIsOld
    <2>1. CASE n # m \/ Undecoded
        BY <1>3, <2>1 DEF VersionInv, Beliefs, BaseIsOld
    <2>2. CASE n = m /\ TakenIn
        BY <1>5, <2>2
    <2> QED BY <1>4, <2>1, <2>2
<1>12. VersionsAreTrue'
    <2> SUFFICES ASSUME NEW n \in Msgs \ Undecodable, server[n] # None,
                        \/ server[n].lm <= timestamp
                        \/ Base(n)' # None /\ Base(n)'.lm = server[n].lm
                 PROVE  Base(n)' # None /\ AgreesWith(n, Base(n)', server[n])
        BY <1>1 DEF VersionsAreTrue
    <2>1. CASE n # m \/ Undecoded
        BY <1>3, <2>1 DEF VersionInv, Beliefs, VersionsAreTrue
    <2>2. CASE n = m /\ TakenIn
        <3>1. e.row.lm <= server[n].lm
            BY <1>2, <1>6, <2>2
        <3>2. server[n].lm = e.row.lm
            BY <1>2, <1>5, <2>2, <3>1
        <3>3. server[n] = e.row
            BY <1>2, <1>6, <2>2, <3>2
        <3> QED BY <2>2, <3>3
    <2> QED BY <1>4, <2>1, <2>2
<1> QED BY <1>7, <1>8, <1>9, <1>10, <1>11, <1>12 DEF Beliefs

\* The message that the cursor now passes was taken in.
LEMMA BeliefsStamp == VersionInv /\ Stamp => Beliefs'
<1> SUFFICES ASSUME VersionInv, Stamp PROVE Beliefs'
    OBVIOUS
<1> USE DEF serverVars, uiVars
<1>1. UNCHANGED <<server, clock, local, old>> /\ pc' = "process" /\ pc = "stamp"
    BY DEF Stamp
<1>2. PICK e \in batch : IsNext(e) /\ timestamp' = e.row.lm /\ batch' = batch \ {e}
    BY DEF Stamp
<1>3. \A n \in Msgs : Base(n)' = Base(n)
    BY <1>1 DEF Base
<1>4. BatchIsTrue'
    BY <1>1, <1>2 DEF VersionInv, Beliefs, BatchIsTrue
<1>5. DeletedIsFinal'
    BY <1>1, <1>2, <1>3 DEF VersionInv, Beliefs, DeletedIsFinal
<1>6. LoadedIsLocal' /\ HandledIsTrue' /\ ReplyIsTrue'
    BY <1>1 DEF LoadedIsLocal, HandledIsTrue, ReplyIsTrue
<1>7. BaseIsOld'
    BY <1>1, <1>3 DEF VersionInv, Beliefs, BaseIsOld
<1>8. VersionsAreTrue'
    <2> SUFFICES ASSUME NEW n \in Msgs \ Undecodable, server[n] # None,
                        \/ server[n].lm <= e.row.lm
                        \/ Base(n) # None /\ Base(n).lm = server[n].lm
                 PROVE  Base(n) # None /\ AgreesWith(n, Base(n), server[n])
        BY <1>1, <1>2, <1>3 DEF VersionsAreTrue
    <2>1. server[n].lm \in Nat /\ timestamp \in Nat /\ e.row.lm \in Nat
        BY DEF VersionInv, CursorInv, TypeOK, Entry, Row
    <2>2. CASE server[n].lm <= timestamp \/ (Base(n) # None /\ Base(n).lm = server[n].lm)
        BY <2>2 DEF VersionInv, Beliefs, VersionsAreTrue
    <2>3. CASE timestamp < server[n].lm /\ server[n].lm <= e.row.lm
        <3>1. [msg |-> n, row |-> server[n]] \in batch
            BY <2>3 DEF VersionInv, CursorInv, BatchComplete
        <3>2. e.row.lm <= server[n].lm
            BY <1>2, <3>1 DEF IsNext
        <3>3. e.row.lm = server[n].lm
            BY <2>1, <2>3, <3>2
        <3>4. e = [msg |-> n, row |-> server[n]]
            BY <3>1, <3>3 DEF VersionInv, CursorInv, BatchComplete
        <3> QED BY <1>1, <1>2, <3>4 DEF VersionInv, Beliefs, HandledIsTrue, Decodes
    <2> QED BY <2>1, <2>2, <2>3
<1> QED BY <1>4, <1>5, <1>6, <1>7, <1>8 DEF Beliefs

\* What the server confirmed is what it has, or what it had and gave a new
\* version to since.
LEMMA BeliefsReply == VersionInv /\ HandleSuccessfulModification => Beliefs'
<1> SUFFICES ASSUME VersionInv, HandleSuccessfulModification PROVE Beliefs'
    OBVIOUS
<1> USE DEF serverVars
<1> PICK m \in Msgs : m = reply.msg
    BY DEF VersionInv, CursorInv, Stored, HandleSuccessfulModification
<1> DEFINE row == [local[m] EXCEPT !.lm = reply.lm]
<1>1. /\ UNCHANGED <<server, clock, timestamp, batch>> /\ pc = "reply" /\ pc' = "upload"
      /\ local' = [local EXCEPT ![m] = row] /\ old' = [old EXCEPT ![m] = None]
    BY DEF HandleSuccessfulModification
<1>2. /\ m \in Msgs /\ reply.lm \in Nat /\ local[m] \in Row /\ server[m] # None
      /\ timestamp \in Nat /\ clock \in Nat
      /\ \A n \in Msgs : server[n] # None => server[n].lm \in Nat /\ server[n].lm <= clock
    BY <1>1 DEF VersionInv, CursorInv, Stored, TypeOK, Row, Versions, Beliefs, ReplyIsTrue
<1>3. /\ timestamp < reply.lm /\ reply.lm <= server[m].lm
      /\ server[m].lm = reply.lm => AgreesWith(m, local[m], server[m])
      /\ local[m].deleted => server[m].deleted
    BY <1>1 DEF VersionInv, Beliefs, ReplyIsTrue
<1>4. batch = {}
    BY <1>1 DEF VersionInv, Beliefs, BatchIsTrue
<1>5. /\ row \in Row /\ row.lm = reply.lm /\ row.deleted = local[m].deleted
      /\ \A s \in States : row[s] = local[m][s]
    BY <1>2 DEF Row, States
<1> HIDE DEF row
<1>6. Base(m)' = row /\ \A n \in Msgs \ {m} : Base(n)' = Base(n)
    <2>1. local \in [Msgs -> Row \cup {None}] /\ old \in [Msgs -> Row \cup {None}]
        BY DEF VersionInv, CursorInv, TypeOK
    <2> QED BY <1>1, <1>2, <2>1 DEF Base
<1>7. BatchIsTrue' /\ LoadedIsLocal' /\ HandledIsTrue' /\ ReplyIsTrue'
    BY <1>1, <1>4 DEF BatchIsTrue, LoadedIsLocal, HandledIsTrue, ReplyIsTrue
<1>8. DeletedIsFinal'
    <2> SUFFICES ASSUME NEW n \in Msgs, Base(n)' # None, Base(n)'.deleted
                 PROVE  server[n] # None /\ server[n].deleted
        BY <1>1, <1>4 DEF DeletedIsFinal
    <2>1. CASE n = m
        BY <1>2, <1>3, <1>5, <1>6, <2>1
    <2>2. CASE n # m
        BY <1>6, <2>2 DEF VersionInv, Beliefs, DeletedIsFinal
    <2> QED BY <2>1, <2>2
<1>9. BaseIsOld'
    <2> SUFFICES ASSUME NEW n \in Msgs, Base(n)' # None PROVE Base(n)'.lm <= clock
        BY <1>1 DEF BaseIsOld
    <2>1. CASE n = m
        BY <1>2, <1>3, <1>5, <1>6, <2>1
    <2>2. CASE n # m
        BY <1>6, <2>2 DEF VersionInv, Beliefs, BaseIsOld
    <2> QED BY <2>1, <2>2
<1>10. VersionsAreTrue'
    <2> SUFFICES ASSUME NEW n \in Msgs \ Undecodable, server[n] # None,
                        \/ server[n].lm <= timestamp
                        \/ Base(n)' # None /\ Base(n)'.lm = server[n].lm
                 PROVE  Base(n)' # None /\ AgreesWith(n, Base(n)', server[n])
        BY <1>1 DEF VersionsAreTrue
    <2>1. CASE n = m
        <3>1. server[m].lm = reply.lm
            BY <1>2, <1>3, <1>5, <1>6, <2>1
        <3>2. AgreesWith(m, row, server[m])
            BY <1>3, <1>5, <3>1 DEF AgreesWith
        <3> QED BY <1>5, <1>6, <2>1, <3>2, NoneIsNoRow
    <2>2. CASE n # m
        BY <1>6, <2>2 DEF VersionInv, Beliefs, VersionsAreTrue
    <2> QED BY <2>1, <2>2
<1> QED BY <1>7, <1>8, <1>9, <1>10 DEF Beliefs

\* An object is cached only of a message that is stored.
LEMMA CachedNext ==
    ASSUME CursorInv, CachedIsStored, [Next]_vars
    PROVE  CachedIsStored'
<1> SUFFICES ASSUME NEW m \in Msgs, cache'[m] # None PROVE local'[m] # None
    BY DEF CachedIsStored
<1> USE DEF serverVars, dbVars, uiVars, loopVars
<1>1. TypeOK /\ Stored
    BY DEF CursorInv
<1>2. cache[m] # None \/ local[m] # None => local'[m] # None
    BY <1>1, LocalStays DEF CachedIsStored
<1>3. CASE Notify
    <2>1. cache \in [Msgs -> Row \cup {None}] /\ UNCHANGED local
        BY <1>1, <1>3 DEF TypeOK, Notify
    <2>2. cache'[m] \in {cache[m], local[m], None}
        BY <1>3, <2>1 DEF Notify, RemoveFromCache
    <2> QED BY <1>2, <2>1, <2>2
<1>4. ASSUME NEW n \in Msgs, NEW s \in States, NEW b \in BOOLEAN, SetState(n, s, b)
      PROVE  local'[m] # None
    <2>1. cache[n] # None /\ cache' = [cache EXCEPT ![n] = [cache[n] EXCEPT ![s] = b]]
        BY <1>4 DEF SetState, Shown
    <2> QED BY <1>1, <1>2, <2>1 DEF TypeOK
<1>5. ASSUME NEW n \in Msgs, Remove(n) PROVE local'[m] # None
    <2>1. cache' = [cache EXCEPT ![n] = None]
        BY <1>5 DEF Remove, RemoveFromCache
    <2> QED BY <1>1, <1>2, <2>1 DEF TypeOK
<1>6. CASE Restart
    BY <1>2, <1>6 DEF Restart
<1>7. CASE UNCHANGED cache
    BY <1>2, <1>7
<1> QED BY <1>3, <1>4, <1>5, <1>6, <1>7
    DEF Next, Worker, User, Remote, vars, StartSync, Download, LoadLocal, Handle, Stamp,
        PageDone, Upload, HandleSuccessfulModification, Finish, ThrowCanceled,
        RemoteWrite, RemoteDelete, Fail, Cancel

\* Setting a state or removing a message first puts by what is believed of the
\* server, unless that was done before.
LEMMA SavedBase ==
    ASSUME VersionInv, NEW m \in Msgs, NEW row \in Row, Shown(m), SaveCached(m, row)
    PROVE  \A n \in Msgs : Base(n)' = Base(n)
<1>1. cache[m] # None /\ local[m] # None
    BY DEF Shown, VersionInv, CachedIsStored
<1>2. local \in [Msgs -> Row \cup {None}] /\ old \in [Msgs -> Row \cup {None}]
    BY DEF VersionInv, CursorInv, TypeOK
<1>3. /\ old' = [old EXCEPT ![m] = IF @ = None THEN local[m] ELSE @]
      /\ local' = [local EXCEPT ![m] = row]
    BY DEF SaveCached, OldOnSave
<1>4. old'[m] = Base(m) /\ Base(m) # None
    BY <1>1, <1>2, <1>3 DEF Base
<1>5. Base(m)' = Base(m)
    BY <1>4 DEF Base
<1>6. \A n \in Msgs \ {m} : Base(n)' = Base(n)
    BY <1>2, <1>3 DEF Base
<1> QED BY <1>5, <1>6

\* The user acts between syncs.
LEMMA BeliefsUser == VersionInv /\ ~ConcurrentUi /\ User => Beliefs'
<1> SUFFICES ASSUME VersionInv, ~ConcurrentUi, NEW m \in Msgs,
                    \/ \E s \in States, b \in BOOLEAN : SetState(m, s, b)
                    \/ Remove(m)
             PROVE  Beliefs'
    BY DEF User
<1>1. ASSUME NEW row \in Row, Shown(m), SaveCached(m, row), pc = "idle",
             UNCHANGED <<server, clock, timestamp, pc, batch, loaded, reply>>
      PROVE  Beliefs'
    <2>1. \A n \in Msgs : Base(n)' = Base(n)
        BY <1>1, SavedBase
    <2> QED BY <1>1, <2>1, BeliefsUnmoved
<1>2. Shown(m) => cache[m] \in Row
    BY DEF Shown, VersionInv, CursorInv, TypeOK
<1>3. ASSUME NEW s \in States, NEW b \in BOOLEAN, SetState(m, s, b) PROVE Beliefs'
    <2> DEFINE row == [cache[m] EXCEPT ![s] = b]
    <2>1. /\ Shown(m) /\ SaveCached(m, row) /\ pc = "idle"
          /\ UNCHANGED <<server, clock, timestamp, pc, batch, loaded, reply>>
        BY <1>3 DEF SetState, UiMayAct, serverVars, loopVars
    <2>2. row \in Row
        BY <1>2, <2>1 DEF Row, States
    <2> HIDE DEF row, Row
    <2> QED BY <1>1, <2>1, <2>2
<1>4. CASE Remove(m)
    <2>1. /\ Shown(m) /\ SaveCached(m, Tombstone(cache[m].lm)) /\ pc = "idle"
          /\ UNCHANGED <<server, clock, timestamp, pc, batch, loaded, reply>>
        BY <1>4 DEF Remove, UiMayAct, serverVars, loopVars
    <2>2. Tombstone(cache[m].lm) \in Row
        BY <1>2, <2>1, RowTypes DEF Row
    <2> QED BY <1>1, <2>1, <2>2
<1> QED BY <1>3, <1>4

\* What the server makes of an upload, and what its answer means.
LEMMA BeliefsUpload ==
    ASSUME VersionInv, NEW m \in Msgs, Upload(m)
    PROVE  Beliefs'
<1> USE DEF serverVars, dbVars, uiVars
<1>1. CASE UNCHANGED <<server, clock, pc, reply>>
    <2>1. /\ UNCHANGED <<timestamp, local, old, batch, loaded>>
          /\ \A n \in Msgs : Base(n)' = Base(n)
        BY <1>1 DEF Upload, Base
    <2> QED BY <1>1, <2>1, BeliefsUnmoved
<1>2. CASE ~UNCHANGED <<server, clock, pc, reply>>
    <2> DEFINE row == Uploaded(local[m])
    <2>1. /\ pc = "upload" /\ pc' = "reply" /\ Live(server[m]) /\ old[m] # None
          /\ server' = [server EXCEPT ![m] = row] /\ clock' = clock + 1
          /\ reply' = [msg |-> m, lm |-> clock + 1]
          /\ UNCHANGED <<local, old, timestamp, batch, loaded>>
        BY <1>2 DEF Upload
    <2>2. /\ local[m] \in Row /\ clock \in Nat /\ timestamp \in Nat /\ timestamp <= clock
          /\ server \in [Msgs -> Row \cup {None}]
        BY <2>1 DEF VersionInv, CursorInv, TypeOK, Stored, Versions
    <2>3. Tombstone(clock + 1) \in Row
        BY <2>2, RowTypes
    <2>4. row \in Row /\ row.lm = clock + 1 /\ row.deleted = local[m].deleted
        BY <2>2, <2>3 DEF Uploaded, Tombstone, Row, LATEST_META_VERSION
    <2>5. AgreesWith(m, local[m], row)
        <3>1. CASE local[m].deleted
            BY <2>4, <3>1 DEF AgreesWith
        <3>2. CASE ~local[m].deleted
            <4>1. /\ row.meta = LATEST_META_VERSION
                  /\ row["read"] = local[m]["read"] /\ row["done"] = local[m]["done"]
                BY <3>2 DEF Uploaded
            <4>2. local[m]["read"] \in BOOLEAN /\ local[m]["done"] \in BOOLEAN
                BY <2>2 DEF Row
            <4> HIDE DEF row
            <4>3. m \notin Own => \A s \in States : DecodedState(m, row, s) = local[m][s]
                BY <4>1, <4>2 DEF DecodedState, LATEST_META_VERSION, States
            <4>4. \A s \in States : row[s] = local[m][s]
                BY <4>1 DEF States
            <4> QED BY <2>4, <4>3, <4>4 DEF AgreesWith
        <3> QED BY <3>1, <3>2
    <2> HIDE DEF row, Row
    <2>6. server'[m] = row /\ row # None
        BY <2>1, <2>2, <2>4, NoneIsNoRow
    <2>7. ReplyIsTrue'
        BY <2>1, <2>2, <2>4, <2>5, <2>6 DEF ReplyIsTrue
    <2> QED BY <2>1, <2>4, <2>7, BeliefsNewVersion
<1> QED BY <1>1, <1>2

\* The other devices and senders.
LEMMA BeliefsRemote == VersionInv /\ Remote => Beliefs'
<1> SUFFICES ASSUME VersionInv, NEW m \in Msgs,
                    \/ \E s \in RemoteStates : RemoteWrite(m, s)
                    \/ RemoteDelete(m)
             PROVE  Beliefs'
    BY DEF Remote
<1> USE DEF dbVars, loopVars
<1>1. ASSUME NEW s \in RemoteStates, RemoteWrite(m, s) PROVE Beliefs'
    <2> DEFINE row == [lm |-> clock + 1, deleted |-> FALSE,
                       meta |-> s.meta, read |-> s.read, done |-> s.done]
    <2>1. /\ server' = [server EXCEPT ![m] = row] /\ clock' = clock + 1
          /\ server[m] = None \/ Live(server[m])
          /\ UNCHANGED <<pc, local, old, timestamp, batch, loaded, reply>>
        BY <1>1 DEF RemoteWrite
    <2>2. row \in Row /\ row.lm = clock + 1
        BY ConstantsAssumption DEF VersionInv, CursorInv, TypeOK, Row
    <2> HIDE DEF row, Row
    <2> QED BY <2>1, <2>2, BeliefsNewVersion
<1>2. CASE RemoteDelete(m)
    <2>1. /\ server' = [server EXCEPT ![m] = Tombstone(clock + 1)] /\ clock' = clock + 1
          /\ Live(server[m])
          /\ UNCHANGED <<pc, local, old, timestamp, batch, loaded, reply>>
        BY <1>2 DEF RemoteDelete
    <2>2. Tombstone(clock + 1) \in Row /\ Tombstone(clock + 1).lm = clock + 1
        BY RowTypes DEF VersionInv, CursorInv, TypeOK, Tombstone
    <2> QED BY <2>1, <2>2, BeliefsNewVersion
<1> QED BY <1>1, <1>2

\* Every step keeps the beliefs true.
LEMMA VersionNext == VersionInv /\ ~ConcurrentUi /\ [Next]_vars => VersionInv'
<1> SUFFICES ASSUME VersionInv, ~ConcurrentUi, [Next]_vars PROVE VersionInv'
    OBVIOUS
<1> USE DEF serverVars, dbVars, uiVars, loopVars
<1>1. CursorInv' /\ CachedIsStored'
    BY CursorNext, CachedNext DEF VersionInv
<1>2. ASSUME UNCHANGED <<server, clock, local, old, timestamp>>,
             \/ UNCHANGED <<pc, batch, loaded, reply>>
             \/ batch' = {} /\ pc' \notin {"handle", "stamp", "reply"}
      PROVE  Beliefs'
    <2>1. \A m \in Msgs : Base(m)' = Base(m)
        BY <1>2 DEF Base
    <2> QED BY <1>2, <2>1, BeliefsUnmoved
<1>3. batch # {} => pc \in {"process", "handle", "stamp"}
    BY DEF VersionInv, Beliefs, BatchIsTrue
<1>4. \/ Download \/ LoadLocal \/ Handle \/ Stamp \/ (\E m \in Msgs : Upload(m))
      \/ HandleSuccessfulModification \/ User \/ Remote
      \/ /\ UNCHANGED <<server, clock, local, old, timestamp>>
         /\ \/ UNCHANGED <<pc, batch, loaded, reply>>
            \/ batch' = {} /\ pc' \notin {"handle", "stamp", "reply"}
    BY <1>3 DEF Next, Worker, vars, StartSync, PageDone, Finish, ThrowCanceled, Notify,
        Fail, Cancel, Restart, ResetLoops
<1>5. Beliefs'
    BY <1>2, <1>4, BeliefsDownload, BeliefsLoadLocal, BeliefsHandle, BeliefsStamp,
        BeliefsUpload, BeliefsReply, BeliefsUser, BeliefsRemote
<1> QED BY <1>1, <1>5 DEF VersionInv

\* The beliefs are true in the beginning.
LEMMA VersionInit == Init => VersionInv
<1> SUFFICES ASSUME Init PROVE VersionInv
    OBVIOUS
<1>1. Beliefs
    BY DEF Init, Beliefs, BatchIsTrue, DeletedIsFinal, LoadedIsLocal, HandledIsTrue,
        ReplyIsTrue, BaseIsOld, VersionsAreTrue, Base
<1>2. CachedIsStored
    BY DEF Init, CachedIsStored
<1> QED BY <1>1, <1>2, CursorInit DEF VersionInv

\* What the client believes of the server is so wherever it relies on it,
\* below the cursor and under an equal version, when the user acts between
\* syncs: neither a merge, nor an upload that was confirmed, nor a crash
\* before the confirmation, leaves a belief that hides a change of others.
THEOREM VersionsAreTrueCorrect == ~ConcurrentUi => (Spec => []VersionsAreTrue)
<1> SUFFICES ASSUME ~ConcurrentUi PROVE Spec => []VersionsAreTrue
    OBVIOUS
<1>1. VersionInv /\ [Next]_vars => VersionInv'
    BY VersionNext
<1>2. VersionInv => VersionsAreTrue
    BY DEF VersionInv, Beliefs
<1> QED BY <1>1, <1>2, VersionInit, PTL DEF Spec

-----------------------------------------------------------------------------
(* What the user changed wins, and what is deleted stays deleted.          *)

\* A merge keeps each state that was changed here, and what is deleted deleted.
LEMMA MineIsKept ==
    ASSUME NEW mine \in Row, NEW base \in Row \cup {None}, NEW remote \in Row
    PROVE  /\ Merge(mine, base, remote).deleted = mine.deleted
           /\ \A s \in States : base # None /\ base[s] # mine[s] =>
                  Merge(mine, base, remote)[s] = mine[s]
<1> DEFINE merged == Merge(mine, base, remote)
<1>1. merged.deleted = mine.deleted
    BY MergeFields
<1>2. \A s \in States : merged[s] =
          IF base = None THEN remote[s]
          ELSE IF mine.deleted THEN mine[s]
          ELSE MergedState(s, mine, base, remote)
    BY MergeFields
<1> HIDE DEF merged
<1>3. ASSUME NEW s \in States, base # None, base[s] # mine[s] PROVE merged[s] = mine[s]
    BY <1>2, <1>3 DEF MergedState
<1> QED BY <1>1, <1>3 DEF merged

\* A download handled while the loaded row is the stored one keeps what was
\* changed here, and turns no tombstone back.
LEMMA HandleKeeps ==
    ASSUME TypeOK, Stored, LoadedIsLocal, Handle, NEW m \in Msgs, local[m] # None
    PROVE  /\ local[m].deleted => local'[m].deleted
           /\ ~local[m].deleted /\ old[m] # None =>
                \A s \in States : old[m][s] # local[m][s] =>
                    local'[m].deleted \/ local'[m][s] = local[m][s]
<1> PICK e \in batch :
        /\ IsNext(e)
        /\ \/ HandleNewTombstone(e)
           \/ HandleNewMessage(e)
           \/ HandleDeletedMessage(e)
           \/ HandleModifiedMessage(e)
    BY DEF Handle
<1>1. /\ e.msg \in Msgs /\ e.row \in Row /\ e.row.lm \in Nat
      /\ local \in [Msgs -> Row \cup {None}] /\ old \in [Msgs -> Row \cup {None}]
    BY DEF TypeOK, Entry, Row
<1>2. loaded = local[e.msg]
    BY DEF LoadedIsLocal, Handle
<1>3. CASE m # e.msg \/ UNCHANGED local
    <2>1. local'[m] = local[m]
        BY <1>1, <1>3 DEF HandleNewTombstone, HandleNewMessage, HandleDeletedMessage,
            HandleModifiedMessage, SaveLoaded
    <2> QED BY <2>1
<1>4. CASE m = e.msg /\ HandleDeletedMessage(e)
    <2>1. local'[m] = Tombstone(e.row.lm)
        BY <1>1, <1>2, <1>4 DEF HandleDeletedMessage, SaveLoaded
    <2> QED BY <2>1 DEF Tombstone
<1>5. CASE m = e.msg /\ HandleModifiedMessage(e) /\ Decodes(m)
    <2> DEFINE remote == Decoded(e.msg, e.row)
               merged == Merge(local[m], old[m], remote)
    <2>1. local'[m] = merged
        BY <1>1, <1>2, <1>5 DEF HandleModifiedMessage, SaveLoaded
    <2>2. local[m] \in Row /\ old[m] \in Row \cup {None} /\ remote \in Row
        BY <1>1, RowTypes
    <2> HIDE DEF remote
    <2>3. merged.deleted = local[m].deleted
        BY <2>2, MineIsKept
    <2>4. ASSUME old[m] # None, NEW s \in States, old[m][s] # local[m][s]
          PROVE  merged[s] = local[m][s]
        BY <2>2, <2>4, MineIsKept
    <2> HIDE DEF merged
    <2> QED BY <2>1, <2>3, <2>4
<1> QED BY <1>2, <1>3, <1>4, <1>5
    DEF HandleNewTombstone, HandleNewMessage, HandleModifiedMessage

\* When the user acts between syncs, handling a download keeps a state that was
\* changed here and not yet uploaded, unless the message was deleted elsewhere.
THEOREM LocalModificationWinsCorrect == ~ConcurrentUi => (Spec => LocalModificationWins)
<1> SUFFICES ASSUME ~ConcurrentUi PROVE Spec => LocalModificationWins
    OBVIOUS
<1> DEFINE Wins ==
        Handle => \A m \in Msgs, s \in States :
            Live(local[m]) /\ old[m] # None /\ old[m][s] # local[m][s] =>
                local'[m].deleted \/ local'[m][s] = local[m][s]
<1>1. VersionInv /\ [Next]_vars => [Wins]_vars
    BY HandleKeeps DEF VersionInv, CursorInv, Beliefs, Live
<1>2. VersionInv /\ [Next]_vars => VersionInv'
    BY VersionNext
<1> QED BY <1>1, <1>2, VersionInit, PTL DEF Spec, LocalModificationWins

-----------------------------------------------------------------------------
(* Once all events are delivered, what the user sees is what is stored.    *)
(* Until then the difference is on its way: the invariant relates a cached *)
(* object to the row, the events that are pending and their order.         *)

Pending(m, type) == \E i \in DOMAIN events : events[i] = [type |-> type, msg |-> m]

\* messageModified() does not list the message, so messageAdded() comes first.
AddedBefore(m) ==
    \A i \in DOMAIN events : events[i] = [type |-> "modified", msg |-> m] =>
        \/ "conv" \in index[m]
        \/ \E j \in 1 .. i - 1 : events[j] = [type |-> "added", msg |-> m]

Follows(m) ==
    /\ cache[m] # None \/ Pending(m, "added") \/ Pending(m, "modified") \/ Pending(m, "removed")
            => local[m] # None
    /\ Live(cache[m]) =>
        /\ "conv" \in index[m]
        /\ Live(local[m]) \/ Pending(m, "modified") \/ Pending(m, "removed")
    /\ Live(local[m]) =>
        /\ ~Pending(m, "removed")
        /\ "conv" \in index[m] \/ Pending(m, "added")
        /\ \/ cache[m] = local[m]
           \/ Pending(m, "modified")
           \/ cache[m] = None /\ Pending(m, "added")
        /\ AddedBefore(m)

CacheFollows == Uncancelled => \A m \in Msgs : Follows(m)

\* A cancel is counted, so without one there is a listener to tell.
CancelCounted ==
    /\ budget["cancel"] <= Budget["cancel"]
    /\ cancelled => ~Uncancelled

\* What a new event at the end of the queue makes pending.
LEMMA AppendPending ==
    ASSUME TypeOK, NEW m \in Msgs, NEW n \in Msgs, NEW t \in {"added", "modified", "removed"},
           events' = Append(events, [type |-> t, msg |-> n]), index'[m] = index[m]
    PROVE  /\ \A u : Pending(m, u)' <=> Pending(m, u) \/ (m = n /\ u = t)
           /\ AddedBefore(m)
              /\ (m = n /\ t = "modified" => "conv" \in index[m] \/ Pending(m, "added"))
                    => AddedBefore(m)'
<1>1. /\ events \in Seq(Event) /\ DOMAIN events = 1 .. Len(events) /\ Len(events) \in Nat
      /\ DOMAIN events' = 1 .. Len(events) + 1
      /\ \A i \in 1 .. Len(events) : events'[i] = events[i]
      /\ events'[Len(events) + 1] = [type |-> t, msg |-> n]
    <2>1. events \in Seq(Event) /\ [type |-> t, msg |-> n] \in Event
        BY DEF TypeOK, Event
    <2> HIDE DEF Event
    <2> QED BY <2>1
<1>2. \A u : Pending(m, u)' <=> Pending(m, u) \/ (m = n /\ u = t)
    BY <1>1 DEF Pending
<1>3. ASSUME AddedBefore(m),
             m = n /\ t = "modified" => "conv" \in index[m] \/ Pending(m, "added")
      PROVE  AddedBefore(m)'
    <2> SUFFICES ASSUME NEW i \in 1 .. Len(events) + 1,
                        events'[i] = [type |-> "modified", msg |-> m],
                        "conv" \notin index[m]
                 PROVE  \E j \in 1 .. i - 1 : events'[j] = [type |-> "added", msg |-> m]
        BY <1>1 DEF AddedBefore
    <2>1. CASE i \in 1 .. Len(events)
        <3>1. PICK j \in 1 .. i - 1 : events[j] = [type |-> "added", msg |-> m]
            BY <1>1, <1>3, <2>1 DEF AddedBefore
        <3> QED BY <1>1, <2>1, <3>1
    <2>2. CASE i = Len(events) + 1
        <3>1. PICK j \in 1 .. Len(events) : events[j] = [type |-> "added", msg |-> m]
            BY <1>1, <1>3, <2>2 DEF Pending
        <3> QED BY <1>1, <2>2, <3>1
    <2> QED BY <1>1, <2>1, <2>2
<1> QED BY <1>2, <1>3

\* What the delivery of the oldest event leaves pending.
LEMMA TailPending ==
    ASSUME TypeOK, NEW m \in Msgs, events # <<>>, events' = Tail(events)
    PROVE  /\ \A u : Pending(m, u) <=>
                Pending(m, u)' \/ Head(events) = [type |-> u, msg |-> m]
           /\ AddedBefore(m) /\ index'[m] = index[m] /\ Head(events).msg # m => AddedBefore(m)'
           /\ AddedBefore(m) /\ Head(events) = [type |-> "modified", msg |-> m]
                => "conv" \in index[m]
<1>1. /\ DOMAIN events = 1 .. Len(events) /\ Len(events) \in Nat /\ Len(events) >= 1
      /\ DOMAIN events' = 1 .. Len(events) - 1
      /\ \A i \in 1 .. Len(events) - 1 : events'[i] = events[i + 1]
      /\ Head(events) = events[1]
    <2>1. events \in Seq(Event) /\ events # <<>>
        BY DEF TypeOK
    <2> HIDE DEF Event
    <2> QED BY <2>1
<1>2. \A u : Pending(m, u) <=> Pending(m, u)' \/ Head(events) = [type |-> u, msg |-> m]
    <2> TAKE u
    <2>1. ASSUME Pending(m, u), Head(events) # [type |-> u, msg |-> m] PROVE Pending(m, u)'
        <3>1. PICK i \in 2 .. Len(events) : events[i] = [type |-> u, msg |-> m]
            BY <1>1, <2>1 DEF Pending
        <3>2. i - 1 \in DOMAIN events' /\ events'[i - 1] = events[i]
            BY <1>1
        <3> QED BY <3>1, <3>2 DEF Pending
    <2>2. Pending(m, u)' => Pending(m, u)
        BY <1>1 DEF Pending
    <2>3. Head(events) = [type |-> u, msg |-> m] => Pending(m, u)
        BY <1>1 DEF Pending
    <2> QED BY <2>1, <2>2, <2>3
<1>3. ASSUME AddedBefore(m), index'[m] = index[m], Head(events).msg # m PROVE AddedBefore(m)'
    <2> SUFFICES ASSUME NEW i \in 1 .. Len(events) - 1,
                        events'[i] = [type |-> "modified", msg |-> m],
                        "conv" \notin index[m]
                 PROVE  \E j \in 1 .. i - 1 : events'[j] = [type |-> "added", msg |-> m]
        BY <1>1, <1>3 DEF AddedBefore
    <2>1. i + 1 \in DOMAIN events /\ events[i + 1] = [type |-> "modified", msg |-> m]
        BY <1>1
    <2>2. PICK j \in 1 .. i : events[j] = [type |-> "added", msg |-> m]
        BY <1>3, <2>1 DEF AddedBefore
    <2>3. j # 1
        BY <1>1, <1>3, <2>2
    <2>4. j - 1 \in 1 .. i - 1 /\ events'[j - 1] = events[j]
        BY <1>1, <2>2, <2>3
    <2> QED BY <2>2, <2>4
<1>4. ASSUME AddedBefore(m), Head(events) = [type |-> "modified", msg |-> m]
      PROVE  "conv" \in index[m]
    BY <1>1, <1>4 DEF AddedBefore
<1> QED BY <1>2, <1>3, <1>4

\* A message that a step is not about follows as before.
LEMMA FollowsElsewhere ==
    ASSUME TypeOK, NEW m \in Msgs, Follows(m),
           local'[m] = local[m], cache'[m] = cache[m], index'[m] = index[m],
           \/ UNCHANGED events
           \/ \E n \in Msgs \ {m}, t \in {"added", "modified", "removed"} :
                    events' = Append(events, [type |-> t, msg |-> n])
    PROVE  Follows(m)'
<1>1. CASE UNCHANGED events
    BY <1>1 DEF Follows, Live, Pending, AddedBefore
<1>2. ASSUME NEW n \in Msgs \ {m}, NEW t \in {"added", "modified", "removed"},
             events' = Append(events, [type |-> t, msg |-> n])
      PROVE  Follows(m)'
    <2>1. /\ \A u : Pending(m, u)' <=> Pending(m, u)
          /\ AddedBefore(m) => AddedBefore(m)'
        BY <1>2, AppendPending
    <2> QED BY <2>1 DEF Follows, Live
<1> QED BY <1>1, <1>2

\* A change that is posted follows, if the event is the right one.
LEMMA FollowsPosted ==
    ASSUME TypeOK, NEW m \in Msgs, Follows(m), NEW t \in {"added", "modified", "removed"},
           cache'[m] = cache[m], index'[m] = index[m],
           events' = Append(events, [type |-> t, msg |-> m]),
           local'[m] # None,
           t = "added" => local[m] = None,
           t = "modified" => local[m] # None /\ (Live(local'[m]) => Live(local[m])),
           t = "removed" => ~Live(local'[m])
    PROVE  Follows(m)'
<1>1. /\ \A u : Pending(m, u)' <=> Pending(m, u) \/ u = t
      /\ AddedBefore(m) /\ (t = "modified" => "conv" \in index[m] \/ Pending(m, "added"))
            => AddedBefore(m)'
    BY AppendPending
<1>2. CASE t = "added"
    <2>1. cache[m] = None /\ ~Pending(m, "modified") /\ ~Pending(m, "removed")
        BY <1>2 DEF Follows
    <2>2. AddedBefore(m)
        BY <2>1 DEF AddedBefore, Pending
    <2> QED BY <1>1, <1>2, <2>1, <2>2 DEF Follows, Live
<1>3. CASE t = "modified"
    BY <1>1, <1>3 DEF Follows, Live
<1>4. CASE t = "removed"
    BY <1>1, <1>4 DEF Follows, Live
<1> QED BY <1>2, <1>3, <1>4

\* A tombstone that the user cannot see needs no event.
LEMMA FollowsTombstone ==
    ASSUME TypeOK, NEW m \in Msgs, Follows(m),
           cache'[m] = cache[m], index'[m] = index[m], UNCHANGED events,
           local'[m] # None, ~Live(local[m]), ~Live(local'[m])
    PROVE  Follows(m)'
BY DEF Follows, Live, Pending, AddedBefore

\* A message that was taken in is shown by an event, or was not changed.
LEMMA FollowsHandle ==
    ASSUME TypeOK, Stored, LoadedIsLocal, Handle, ~cancelled, NEW m \in Msgs, Follows(m)
    PROVE  Follows(m)'
<1> USE DEF loopVars
<1> PICK e \in batch :
        /\ IsNext(e)
        /\ \/ HandleNewTombstone(e)
           \/ HandleNewMessage(e)
           \/ HandleDeletedMessage(e)
           \/ HandleModifiedMessage(e)
    BY DEF Handle
<1>1. /\ e.msg \in Msgs /\ e.row \in Row /\ e.row.lm \in Nat
      /\ local \in [Msgs -> Row \cup {None}] /\ old \in [Msgs -> Row \cup {None}]
      /\ UNCHANGED <<cache, index>>
    BY DEF TypeOK, Entry, Row, Handle
<1>2. loaded = local[e.msg]
    BY DEF LoadedIsLocal, Handle
<1>3. Tombstone(e.row.lm) \in Row /\ ~Live(Tombstone(e.row.lm))
    BY <1>1, RowTypes DEF Tombstone, Live
<1>4. CASE m # e.msg
    <2>1. local'[m] = local[m]
        BY <1>1, <1>4 DEF HandleNewTombstone, HandleNewMessage, HandleDeletedMessage,
            HandleModifiedMessage, SaveLoaded
    <2>2. UNCHANGED events \/ \E t \in {"added", "modified", "removed"} :
                    events' = Append(events, [type |-> t, msg |-> e.msg])
        BY DEF HandleNewTombstone, HandleNewMessage, HandleDeletedMessage,
            HandleModifiedMessage, Emit
    <2> QED BY <1>1, <1>4, <2>1, <2>2, FollowsElsewhere
<1>5. CASE m = e.msg /\ HandleNewTombstone(e)
    <2>1. local'[m] = Tombstone(e.row.lm) /\ local[m] = None /\ UNCHANGED events
        BY <1>1, <1>2, <1>5 DEF HandleNewTombstone
    <2> QED BY <1>1, <1>3, <2>1, FollowsTombstone, NoneIsNoRow DEF Live
<1>6. CASE m = e.msg /\ UNCHANGED <<local, events>>
    BY <1>1, <1>6, FollowsElsewhere
<1>7. CASE m = e.msg /\ HandleNewMessage(e) /\ Decodes(m)
    <2>1. events' = Append(events, [type |-> "added", msg |-> m]) /\ local[m] = None
        BY <1>2, <1>7 DEF HandleNewMessage, Emit
    <2>2. local'[m] # None
        <3> DEFINE remote == Decoded(e.msg, e.row)
        <3>1. remote \in Row
            BY <1>1, RowTypes
        <3>2. \/ local' = [local EXCEPT ![m] = remote]
              \/ local' = [local EXCEPT ![m] = [remote EXCEPT !.meta = LATEST_META_VERSION]]
            BY <1>7 DEF HandleNewMessage
        <3> HIDE DEF remote
        <3>3. [remote EXCEPT !.meta = LATEST_META_VERSION] \in Row
            BY <3>1 DEF Row, LATEST_META_VERSION
        <3> QED BY <1>1, <3>1, <3>2, <3>3, NoneIsNoRow
    <2> QED BY <1>1, <2>1, <2>2, FollowsPosted
<1>8. CASE m = e.msg /\ HandleDeletedMessage(e)
    <2>1. /\ local'[m] = Tombstone(e.row.lm)
          /\ events' = Append(events, [type |-> "removed", msg |-> m])
        BY <1>1, <1>2, <1>8 DEF HandleDeletedMessage, SaveLoaded, Emit
    <2> QED BY <1>1, <1>3, <2>1, FollowsPosted, NoneIsNoRow
<1>9. CASE m = e.msg /\ HandleModifiedMessage(e) /\ Decodes(m)
    <2> DEFINE remote == Decoded(e.msg, e.row)
               merged == Merge(local[m], old[m], remote)
    <2>1. local[m] \in Row /\ merged \in Row /\ merged.deleted = local[m].deleted
        <3>1. local[m] \in Row /\ old[m] \in Row \cup {None} /\ remote \in Row
            BY <1>1, <1>2, <1>9, RowTypes DEF HandleModifiedMessage
        <3> HIDE DEF remote
        <3> QED BY <3>1, MergeFields
    <2>2. /\ local' = [local EXCEPT ![m] = IF merged = loaded THEN @ ELSE merged]
          /\ IF merged = loaded THEN UNCHANGED events
             ELSE events' = Append(events, [type |-> "modified", msg |-> m])
        BY <1>2, <1>9 DEF HandleModifiedMessage, SaveLoaded, Emit
    <2> HIDE DEF merged
    <2>3. CASE merged = loaded
        BY <1>1, <2>2, <2>3, FollowsElsewhere
    <2>4. CASE merged # loaded
        <3>1. local'[m] = merged /\ events' = Append(events, [type |-> "modified", msg |-> m])
            BY <1>1, <2>2, <2>4
        <3> QED BY <1>1, <2>1, <3>1, FollowsPosted, NoneIsNoRow DEF Live
    <2> QED BY <2>3, <2>4
<1> QED BY <1>4, <1>5, <1>6, <1>7, <1>8, <1>9 DEF HandleNewMessage, HandleModifiedMessage

\* A confirmed upload is shown by an event, or was a removal.
LEMMA FollowsReply ==
    ASSUME TypeOK, Stored, HandleSuccessfulModification, ~cancelled,
           NEW m \in Msgs, Follows(m)
    PROVE  Follows(m)'
<1> PICK n \in Msgs : n = reply.msg
    BY DEF Stored, HandleSuccessfulModification
<1> DEFINE row == [local[n] EXCEPT !.lm = reply.lm]
<1>1. /\ local' = [local EXCEPT ![n] = row] /\ UNCHANGED <<cache, index>>
      /\ IF local[n].deleted THEN UNCHANGED events
         ELSE events' = Append(events, [type |-> "modified", msg |-> n])
    BY DEF HandleSuccessfulModification, Emit
<1>2. /\ local \in [Msgs -> Row \cup {None}]
      /\ local[n] \in Row /\ row \in Row /\ row.deleted = local[n].deleted
    <2>1. local \in [Msgs -> Row \cup {None}] /\ local[n] \in Row /\ reply.lm \in Nat
        BY DEF Stored, TypeOK, HandleSuccessfulModification
    <2> QED BY <2>1 DEF Row
<1> HIDE DEF row
<1>3. CASE m # n
    <2>1. local'[m] = local[m]
        BY <1>1, <1>2, <1>3
    <2> QED BY <1>1, <1>3, <2>1, FollowsElsewhere
<1>4. CASE m = n /\ local[n].deleted
    BY <1>1, <1>2, <1>4, FollowsTombstone, NoneIsNoRow DEF Live
<1>5. CASE m = n /\ ~local[n].deleted
    BY <1>1, <1>2, <1>5, FollowsPosted, NoneIsNoRow DEF Live
<1> QED BY <1>3, <1>4, <1>5

\* When there are no events, a cached object that is not deleted is the row.
LEMMA ShownIsStored ==
    ASSUME TypeOK, NEW m \in Msgs, Follows(m), events = <<>>, Live(cache[m])
    PROVE  local[m] = cache[m]
<1>1. \A u : ~Pending(m, u)
    <2>1. DOMAIN events = {}
        OBVIOUS
    <2> QED BY <2>1 DEF Pending
<1> QED BY <1>1 DEF Follows, Live

\* The user changes the row and the cached object alike, or posts the removal.
LEMMA FollowsUser ==
    ASSUME TypeOK, ~ConcurrentUi, User, \A m \in Msgs : Follows(m), NEW m \in Msgs
    PROVE  Follows(m)'
<1>1. events = <<>>
    BY DEF User, SetState, Remove, UiMayAct
<1>2. \A n, u : ~Pending(n, u)
    <2>1. DOMAIN events = {}
        BY <1>1
    <2> QED BY <2>1 DEF Pending
<1>3. /\ cache \in [Msgs -> Row \cup {None}] /\ local \in [Msgs -> Row \cup {None}]
      /\ index \in [Msgs -> SUBSET ConvIds]
    BY DEF TypeOK
<1>4. ASSUME NEW n \in Msgs, NEW s \in States, NEW b \in BOOLEAN, SetState(n, s, b)
      PROVE  Follows(m)'
    <2> DEFINE row == [cache[n] EXCEPT ![s] = b]
    <2>1. /\ Shown(n) /\ local' = [local EXCEPT ![n] = row]
          /\ cache' = [cache EXCEPT ![n] = row] /\ UNCHANGED <<index, events>>
        BY <1>4 DEF SetState, SaveCached
    <2>2. row \in Row /\ row # None
        BY <1>3, <2>1, NoneIsNoRow DEF Shown, Row, States
    <2> HIDE DEF row
    <2>3. CASE m # n
        <3>1. local'[m] = local[m] /\ cache'[m] = cache[m]
            BY <1>3, <2>1, <2>3
        <3> QED BY <2>1, <3>1, FollowsElsewhere
    <2>4. CASE m = n
        <3>1. local'[m] = row /\ cache'[m] = row /\ "conv" \in index'[m]
            BY <1>3, <2>1, <2>4 DEF Shown
        <3>2. \A u : ~Pending(m, u)'
            BY <1>2, <2>1 DEF Pending
        <3>3. AddedBefore(m)'
            BY <3>1 DEF AddedBefore
        <3> QED BY <2>2, <3>1, <3>2, <3>3 DEF Follows, Live
    <2> QED BY <2>3, <2>4
<1>5. ASSUME NEW n \in Msgs, Remove(n) PROVE Follows(m)'
    <2>1. /\ Shown(n) /\ local' = [local EXCEPT ![n] = Tombstone(cache[n].lm)]
          /\ cache' = [cache EXCEPT ![n] = None]
          /\ index' = [index EXCEPT ![n] = @ \ {ConvOf(cache[n])}]
          /\ events' = Append(events, [type |-> "removed", msg |-> n])
        BY <1>5 DEF Remove, SaveCached, RemoveFromCache
    <2>2. Tombstone(cache[n].lm) \in Row /\ ~Live(Tombstone(cache[n].lm))
        <3>1. cache[n].lm \in Nat
            BY <1>3, <2>1 DEF Shown, Row
        <3> QED BY <3>1, RowTypes DEF Tombstone, Live
    <2>3. CASE m # n
        <3>1. local'[m] = local[m] /\ cache'[m] = cache[m] /\ index'[m] = index[m]
            BY <1>3, <2>1, <2>3
        <3> QED BY <2>1, <2>3, <3>1, FollowsElsewhere
    <2>4. CASE m = n
        <3>1. local'[m] = Tombstone(cache[m].lm) /\ cache'[m] = None
            BY <1>3, <2>1, <2>4
        <3> QED BY <2>2, <2>4, <3>1, NoneIsNoRow DEF Follows, Live
    <2> QED BY <2>3, <2>4
<1> QED BY <1>4, <1>5 DEF User

\* The delivery of an event brings the cached object to the row.
LEMMA FollowsNotify ==
    ASSUME TypeOK, Notify, NEW m \in Msgs, Follows(m)
    PROVE  Follows(m)'
<1> USE DEF dbVars
<1>1. /\ events # <<>> /\ events' = Tail(events) /\ UNCHANGED local
      /\ cache \in [Msgs -> Row \cup {None}] /\ index \in [Msgs -> SUBSET ConvIds]
    BY DEF Notify, TypeOK
<1>2. Head(events) \in Event
    <2> HIDE DEF Event
    <2> QED BY <1>1 DEF TypeOK
<1> PICK n \in Msgs, t \in {"added", "modified", "removed"} :
        Head(events) = [type |-> t, msg |-> n]
    BY <1>2 DEF Event
<1>3. /\ \A u : Pending(m, u) <=> Pending(m, u)' \/ (u = t /\ m = n)
      /\ AddedBefore(m) /\ index'[m] = index[m] /\ m # n => AddedBefore(m)'
      /\ AddedBefore(m) /\ t = "modified" /\ m = n => "conv" \in index[m]
    BY <1>1, TailPending
<1>4. CASE m # n
    <2>1. cache'[m] = cache[m] /\ index'[m] = index[m]
        BY <1>1, <1>4 DEF Notify, RemoveFromCache
    <2> QED BY <1>1, <1>3, <1>4, <2>1 DEF Follows, Live
<1>5. CASE m = n /\ t = "added"
    <2>1. /\ cache'[m] = IF cache[m] = None THEN local[m] ELSE cache[m]
          /\ index'[m] = index[m] \cup {ConvOf(local[m])}
        BY <1>1, <1>5 DEF Notify
    <2>2. Live(local[m]) => "conv" \in index'[m]
        BY <2>1 DEF ConvOf, Live
    <2>3. Live(local[m]) => AddedBefore(m)'
        BY <2>2 DEF AddedBefore
    <2> QED BY <1>1, <1>3, <1>5, <2>1, <2>2, <2>3 DEF Follows, Live
<1>6. CASE m = n /\ t = "modified"
    <2>1. cache'[m] = local[m] /\ index'[m] = index[m]
        BY <1>1, <1>6 DEF Notify
    <2>2. Live(local[m]) => "conv" \in index[m]
        BY <1>3, <1>6 DEF Follows
    <2>3. Live(local[m]) => AddedBefore(m)'
        BY <2>1, <2>2 DEF AddedBefore
    <2> QED BY <1>1, <1>3, <1>6, <2>1, <2>2, <2>3 DEF Follows, Live
<1>7. CASE m = n /\ t = "removed"
    <2>1. Pending(m, "removed") /\ local[m] # None /\ ~Live(local[m])
        BY <1>3, <1>7 DEF Follows
    <2>2. ~Live(cache'[m])
        <3>1. CASE cache[m] # None /\ CanRemoveFromCache(m)
            BY <1>1, <1>7, <3>1 DEF Notify, RemoveFromCache, Live
        <3>2. CASE ~(cache[m] # None /\ CanRemoveFromCache(m))
            <4>1. cache'[m] = cache[m]
                BY <1>7, <3>2 DEF Notify
            <4>2. Live(cache[m]) => ConvOf(cache[m]) \in index[m]
                BY DEF Follows, Live, ConvOf
            <4> QED BY <3>2, <4>1, <4>2 DEF CanRemoveFromCache, Live
        <3> QED BY <3>1, <3>2
    <2> QED BY <1>1, <2>1, <2>2 DEF Follows, Live
<1> QED BY <1>4, <1>5, <1>6, <1>7

\* A new session has all rows, and no events.
LEMMA FollowsRestart ==
    ASSUME TypeOK, Restart, NEW m \in Msgs
    PROVE  Follows(m)'
<1>1. /\ local' = local /\ cache' = local /\ events' = <<>>
      /\ index'[m] = IF local[m] = None THEN {} ELSE {ConvOf(local[m])}
    BY DEF Restart, dbVars
<1>2. DOMAIN events' = {}
    BY <1>1
<1>3. \A u : ~Pending(m, u)'
    BY <1>2 DEF Pending
<1>4. AddedBefore(m)'
    BY <1>2 DEF AddedBefore
<1> QED BY <1>1, <1>3, <1>4 DEF Follows, Live, ConvOf

\* The budget for cancels never grows, and each cancel takes from it.
LEMMA CancelNext ==
    ASSUME TypeOK, CancelCounted, [Next]_vars
    PROVE  CancelCounted' /\ (Uncancelled' => Uncancelled)
<1> USE DEF loopVars
<1>1. /\ budget["cancel"] \in Nat /\ Budget["cancel"] \in Nat
      /\ budget \in [Kinds -> Nat]
    BY ConstantsAssumption DEF TypeOK, Kinds
<1>2. CASE Cancel
    <2>1. budget'["cancel"] = budget["cancel"] - 1
        BY <1>1, <1>2 DEF Cancel, Spend, Kinds
    <2> QED BY <1>1, <2>1 DEF CancelCounted, Uncancelled
<1>3. ASSUME budget'["cancel"] = budget["cancel"], UNCHANGED cancelled \/ cancelled' = FALSE
      PROVE  CancelCounted' /\ (Uncancelled' => Uncancelled)
    BY <1>3 DEF CancelCounted, Uncancelled
<1>4. \/ Cancel
      \/ UNCHANGED budget \/ (\E k \in Kinds \ {"cancel"} : Spend(k))
    BY DEF Next, Worker, User, Remote, vars, StartSync, Download, LoadLocal, Handle, Stamp,
        PageDone, Upload, HandleSuccessfulModification, Finish, ThrowCanceled, Notify,
        SetState, Remove, RemoteWrite, RemoteDelete, Fail, Restart, Kinds
<1>5. Cancel \/ budget'["cancel"] = budget["cancel"]
    BY <1>1, <1>4 DEF Spend, Kinds
<1>6. Cancel \/ UNCHANGED cancelled \/ cancelled' = FALSE
    BY DEF Next, Worker, User, Remote, vars, StartSync, Download, LoadLocal, Handle, Stamp,
        PageDone, Upload, HandleSuccessfulModification, Finish, ThrowCanceled, Notify,
        SetState, Remove, RemoteWrite, RemoteDelete, Fail, Restart, ResetLoops
<1> QED BY <1>2, <1>3, <1>5, <1>6

CacheInv == VersionInv /\ CancelCounted /\ CacheFollows

\* Every step keeps what the user sees on its way to what is stored.
LEMMA CacheNext == CacheInv /\ ~ConcurrentUi /\ [Next]_vars => CacheInv'
<1> SUFFICES ASSUME CacheInv, ~ConcurrentUi, [Next]_vars PROVE CacheInv'
    OBVIOUS
<1> USE DEF dbVars, uiVars
<1>1. TypeOK /\ Stored /\ LoadedIsLocal /\ CancelCounted
    BY DEF CacheInv, VersionInv, CursorInv, Beliefs
<1>2. VersionInv' /\ CancelCounted' /\ (Uncancelled' => Uncancelled)
    BY <1>1, VersionNext, CancelNext DEF CacheInv
<1>3. CacheFollows'
    <2> SUFFICES ASSUME Uncancelled, NEW m \in Msgs PROVE Follows(m)'
        BY <1>2 DEF CacheFollows
    <2>1. ~cancelled /\ \A n \in Msgs : Follows(n)
        BY <1>1 DEF CacheInv, CacheFollows, CancelCounted
    <2>2. CASE UNCHANGED <<local, cache, index, events>>
        BY <1>1, <2>1, <2>2, FollowsElsewhere
    <2>3. \/ Handle \/ HandleSuccessfulModification \/ User \/ Notify \/ Restart
          \/ UNCHANGED <<local, cache, index, events>>
        BY DEF Next, Worker, Remote, vars, StartSync, Download, LoadLocal, Stamp, PageDone,
            Upload, Finish, ThrowCanceled, RemoteWrite, RemoteDelete, Fail, Cancel
    <2> QED BY <1>1, <2>1, <2>2, <2>3, FollowsHandle, FollowsReply, FollowsUser,
        FollowsNotify, FollowsRestart
<1> QED BY <1>2, <1>3 DEF CacheInv

\* In the beginning nothing is stored and nothing is shown.
LEMMA CacheInit == Init => CacheInv
<1> SUFFICES ASSUME Init PROVE CacheInv
    OBVIOUS
<1>1. DOMAIN events = {} /\ \A m \in Msgs : cache[m] = None /\ local[m] = None
    BY DEF Init
<1>2. \A m \in Msgs : Follows(m)
    BY <1>1 DEF Follows, Pending, Live
<1>3. CancelCounted
    BY ConstantsAssumption DEF Init, CancelCounted, Kinds
<1> QED BY <1>2, <1>3, VersionInit DEF CacheInv, CacheFollows

\* Once all events are delivered, what the user sees is what is stored, for any
\* order of handlings, uploads, deliveries and crashes, when the user acts
\* between syncs and as long as no cancel() has dropped events.
THEOREM CacheIsCurrentCorrect == ~ConcurrentUi => (Spec => []CacheIsCurrent)
<1> SUFFICES ASSUME ~ConcurrentUi PROVE Spec => []CacheIsCurrent
    OBVIOUS
<1>1. CacheInv => CacheIsCurrent
    <2> SUFFICES ASSUME CacheInv, Uncancelled, events = <<>>, NEW m \in Msgs
                 PROVE  /\ Live(local[m]) => cache[m] = local[m] /\ "conv" \in index[m]
                        /\ Live(cache[m]) => Live(local[m])
        BY DEF CacheIsCurrent
    <2>1. \A u : ~Pending(m, u)
        <3>1. DOMAIN events = {}
            OBVIOUS
        <3> QED BY <3>1 DEF Pending
    <2> QED BY <2>1 DEF CacheInv, CacheFollows, Follows
<1>2. CacheInv /\ [Next]_vars => CacheInv'
    BY CacheNext
<1> QED BY <1>1, <1>2, CacheInit, PTL DEF Spec

\* A remotely deleted message overrides all local changes, and a local deletion
\* wins over a remote modification: when the user acts between syncs, no step
\* turns a tombstone back.
THEOREM DeletedForeverCorrect == ~ConcurrentUi => (Spec => DeletedForever)
<1> SUFFICES ASSUME ~ConcurrentUi PROVE Spec => DeletedForever
    OBVIOUS
<1> DEFINE Stays ==
        Uncancelled => \A m \in Msgs : local[m] # None /\ local[m].deleted => local'[m].deleted
<1>1. CacheInv /\ [Next]_vars => [Stays]_vars
    <2> SUFFICES ASSUME CacheInv, [Next]_vars, Uncancelled,
                        NEW m \in Msgs, local[m] # None, local[m].deleted
                 PROVE  local'[m].deleted
        OBVIOUS
    <2>1. TypeOK /\ Stored /\ LoadedIsLocal /\ \A n \in Msgs : Follows(n)
        BY DEF CacheInv, VersionInv, CursorInv, Beliefs, CacheFollows
    <2>2. local \in [Msgs -> Row \cup {None}] /\ cache \in [Msgs -> Row \cup {None}]
        BY <2>1 DEF TypeOK
    <2>3. CASE Handle
        BY <2>1, <2>3, HandleKeeps
    <2>4. CASE HandleSuccessfulModification
        <3>1. local' = [local EXCEPT ![reply.msg] = [local[reply.msg] EXCEPT !.lm = reply.lm]]
            BY <2>4 DEF HandleSuccessfulModification
        <3>2. local[m] \in Row
            BY <2>2
        <3> QED BY <2>2, <3>1, <3>2 DEF Row
    <2>5. ASSUME NEW n \in Msgs, NEW s \in States, NEW b \in BOOLEAN, SetState(n, s, b)
          PROVE  local'[m].deleted
        <3>1. /\ Shown(n) /\ events = <<>>
              /\ local' = [local EXCEPT ![n] = [cache[n] EXCEPT ![s] = b]]
            BY <2>5 DEF SetState, SaveCached, UiMayAct
        <3>2. m = n => cache[m] \in Row /\ cache[m].deleted
            BY <2>1, <2>2, <3>1, ShownIsStored DEF Shown, Live
        <3>3. m = n => [cache[m] EXCEPT ![s] = b].deleted
            BY <3>2 DEF Row, States
        <3> QED BY <2>2, <3>1, <3>3
    <2>6. ASSUME NEW n \in Msgs, Remove(n) PROVE local'[m].deleted
        BY <2>2, <2>6 DEF Remove, SaveCached, Tombstone
    <2>7. CASE UNCHANGED local
        BY <2>7
    <2> QED BY <2>3, <2>4, <2>5, <2>6, <2>7
        DEF Next, Worker, User, Remote, vars, dbVars, StartSync, Download, LoadLocal, Stamp,
            PageDone, Upload, Finish, ThrowCanceled, Notify, RemoteWrite, RemoteDelete,
            Fail, Cancel, Restart
<1>2. CacheInv /\ [Next]_vars => CacheInv'
    BY CacheNext
<1> QED BY <1>1, <1>2, CacheInit, PTL DEF Spec, DeletedForever

=============================================================================
