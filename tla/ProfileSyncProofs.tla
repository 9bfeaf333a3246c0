-------------------------- MODULE ProfileSyncProofs -------------------------
(***************************************************************************)
(* Theorems about ProfileSync, for any keys, values and bounds.            *)
(***************************************************************************)
EXTENDS ProfileSync, TLAPS

\* Versions come from the clock of the server, and the one an upload was given
\* is above the cursor.
Versions ==
    /\ \A k \in Keys : server[k].lastModified > 0 => server[k].value \in Texts
    /\ \A k \in Keys : rows[k] # None => rows[k].lastModified <= clock
    /\ \A c \in batch : 0 < c.lastModified /\ c.lastModified <= clock
    /\ pc = "uploaded" =>
            /\ latestSync < reply.lastModified /\ reply.lastModified <= clock
            /\ reply.lastModified <= server[reply.key].lastModified

Typed == TypeOK /\ Versions

\* The greater of two versions is one of them.
LEMMA MaxOfTwo ==
    ASSUME NEW a \in Nat, NEW b \in Nat
    PROVE  Max({a, b}) \in {a, b} /\ Max({a, b}) >= a /\ Max({a, b}) >= b
<1>1. \E x \in {a, b} : \A y \in {a, b} : x >= y
    BY SMT
<1>2. /\ Max({a, b}) \in {a, b}
      /\ \A y \in {a, b} : Max({a, b}) >= y
    <2> DEFINE P(x) == x \in {a, b} /\ \A y \in {a, b} : x >= y
    <2>1. P(CHOOSE x : P(x))
        BY <1>1, Zenon
    <2> QED BY <1>1, Zenon DEF Max
<1> QED BY <1>2

\* What becomes of a row is a row.
LEMMA RowTypes ==
    ASSUME TypeOK, NEW c \in Change, setRemoteValue(c)
    PROVE  /\ rows' \in [Keys -> Row \cup {None}]
           /\ c.key \in Keys /\ rows'[c.key] \in Row
           /\ rows'[c.key].lastModified = c.lastModified
           /\ \A k \in Keys \ {c.key} : rows'[k] = rows[k]
<1>1. c.key \in Keys /\ c.value \in Texts /\ c.lastModified \in Nat
    BY DEF Change
<1>2. [local |-> None, remote |-> c.value, lastModified |-> c.lastModified] \in Row
    BY <1>1 DEF Row
<1>3. rows \in [Keys -> Row \cup {None}]
    BY DEF TypeOK
<1> QED BY <1>1, <1>2, <1>3 DEF setRemoteValue

\* The server and this device start without any version.
LEMMA TypeInit == Init => Typed
<1> SUFFICES ASSUME Init PROVE Typed
    OBVIOUS
<1>1. server \in [Keys -> Entry] /\ shown \in [Keys -> Texts] /\ events \in Seq(Keys)
    BY DEF Init, Entry, Texts
<1>2. clock \in Nat /\ mine \subseteq 1 .. clock
    BY DEF Init
<1>3. \A k \in Keys : server[k].lastModified <= clock
    BY DEF Init
<1>4. latestSync \in 0 .. clock /\ maxLastModified \in 0 .. clock
    BY DEF Init
<1>5. /\ remoteWrites \in 0 .. MaxRemote /\ localWrites \in 0 .. MaxLocal
      /\ faults \in 0 .. MaxFaults
    BY ProfileAssumption DEF Init
<1>6. /\ rows \in [Keys -> Row \cup {None}]
      /\ pc \in {"idle", "apply", "upload", "uploaded"} /\ pc # "uploaded"
      /\ batch \subseteq Change /\ todo \subseteq Change /\ reply \in Change \cup {None}
      /\ cancelled \in BOOLEAN /\ missed \in BOOLEAN /\ unanswered \subseteq Keys
    BY DEF Init
<1>7. TypeOK
    BY <1>1, <1>2, <1>3, <1>4, <1>5, <1>6, Zenon DEF TypeOK
<1>8. Versions
    BY DEF Init, Versions
<1> QED BY <1>7, <1>8 DEF Typed

\* A write of any device leaves the server with entries up to its clock.
LEMMA WriteType ==
    ASSUME Typed, NEW k \in Keys, NEW value \in Texts, Write(k, value)
    PROVE  /\ server' \in [Keys -> Entry]
           /\ clock' \in Nat /\ clock' = clock + 1
           /\ server'[k] = [value |-> value, lastModified |-> clock + 1]
           /\ \A j \in Keys \ {k} : server'[j] = server[j]
           /\ \A j \in Keys : server'[j].lastModified <= clock'
           /\ \A j \in Keys : server'[j].lastModified > 0 => server'[j].value \in Texts
<1>1. clock \in Nat /\ server \in [Keys -> Entry]
    BY DEF Typed, TypeOK
<1>2. [value |-> value, lastModified |-> clock + 1] \in Entry
    BY <1>1 DEF Entry
<1>3. \A j \in Keys : server[j].lastModified \in Nat
    BY <1>1 DEF Entry
<1> QED BY <1>1, <1>2, <1>3 DEF Write, Typed, TypeOK, Versions

\* A write of another device keeps the types.
LEMMA TypeRemoteChange ==
    ASSUME Typed, NEW k \in Keys, NEW value \in Values, RemoteChange(k, value)
    PROVE  Typed'
<1>1. value \in Texts /\ Write(k, value)
    BY DEF Texts, RemoteChange
<1>2. /\ server' \in [Keys -> Entry] /\ clock' \in Nat /\ clock' = clock + 1
      /\ server'[k] = [value |-> value, lastModified |-> clock + 1]
      /\ \A j \in Keys \ {k} : server'[j] = server[j]
      /\ \A j \in Keys : server'[j].lastModified <= clock'
      /\ \A j \in Keys : server'[j].lastModified > 0 => server'[j].value \in Texts
    BY <1>1, WriteType, Zenon
<1>3. clock \in Nat /\ mine \subseteq 1 .. clock /\ latestSync \in 0 .. clock
      /\ maxLastModified \in 0 .. clock
    BY DEF Typed, TypeOK
<1>4. /\ mine' \subseteq 1 .. clock' /\ latestSync' \in 0 .. clock'
      /\ maxLastModified' \in 0 .. clock'
    BY <1>2, <1>3 DEF RemoteChange, syncer
<1>5. remoteWrites' \in 0 .. MaxRemote
    BY ProfileAssumption DEF RemoteChange, Typed, TypeOK
<1>6. TypeOK'
    BY <1>2, <1>4, <1>5 DEF RemoteChange, Typed, TypeOK, syncer
<1>7. \A c \in Change : c.lastModified \in Nat /\ c.key \in Keys
    BY DEF Change
<1>8. \A row \in Row : row.lastModified \in Nat
    BY DEF Row
<1>9. \A j \in Keys : rows'[j] # None => rows'[j].lastModified <= clock'
    BY <1>2, <1>3, <1>8 DEF RemoteChange, Typed, TypeOK, Versions
<1>10. \A c \in batch' : 0 < c.lastModified /\ c.lastModified <= clock'
    BY <1>2, <1>3, <1>7 DEF RemoteChange, Typed, TypeOK, Versions, syncer
<1>11. pc' = "uploaded" =>
            /\ latestSync' < reply'.lastModified /\ reply'.lastModified <= clock'
            /\ reply'.lastModified <= server'[reply'.key].lastModified
    <2> SUFFICES ASSUME pc = "uploaded"
                 PROVE  /\ latestSync < reply.lastModified /\ reply.lastModified <= clock'
                        /\ reply.lastModified <= server'[reply.key].lastModified
        BY DEF RemoteChange, syncer
    <2>1. reply \in Change /\ reply.key \in Keys /\ reply.lastModified \in Nat
        BY <1>7 DEF Typed, TypeOK
    <2> QED BY <1>2, <1>3, <2>1 DEF Typed, Versions
<1> QED BY <1>2, <1>6, <1>9, <1>10, <1>11 DEF Typed, Versions

\* The app's thread keeps the types.
LEMMA TypeApp ==
    ASSUME Typed
    PROVE  /\ \A k \in Keys, value \in Values : Set(k, value) => Typed'
           /\ Notify => Typed'
<1>1. rows \in [Keys -> Row \cup {None}] /\ shown \in [Keys -> Texts] /\ events \in Seq(Keys)
    BY DEF Typed, TypeOK
<1>2. ASSUME NEW k \in Keys, NEW value \in Values, Set(k, value) PROVE Typed'
    <2>1. value \in Texts /\ shown' \in [Keys -> Texts]
        BY <1>1, <1>2 DEF Set, Texts
    <2>2. /\ rows' \in [Keys -> Row \cup {None}]
          /\ \A j \in Keys : rows'[j] # None =>
                \/ rows'[j].lastModified = 0
                \/ rows[j] # None /\ rows'[j].lastModified = rows[j].lastModified
        BY <1>1, <1>2, <2>1 DEF Set, setLocalValue, Row
    <2>3. localWrites' \in 0 .. MaxLocal
        BY <1>2, ProfileAssumption DEF Set, Typed, TypeOK
    <2>4. TypeOK'
        BY <1>2, <2>1, <2>2, <2>3 DEF Set, Typed, TypeOK, remote, syncer
    <2> QED BY <1>2, <2>2, <2>4 DEF Set, Typed, TypeOK, Versions, remote, syncer
<1>3. ASSUME Notify PROVE Typed'
    <2>1. events # <<>> /\ Head(events) \in Keys /\ events' \in Seq(Keys)
        BY <1>1, <1>3 DEF Notify
    <2>2. Coalesced(rows[Head(events)]) \in Texts
        BY <1>1, <2>1 DEF Coalesced, Row, Texts
    <2>3. shown' \in [Keys -> Texts]
        BY <1>1, <1>3, <2>1, <2>2 DEF Notify
    <2> QED BY <1>3, <2>1, <2>3 DEF Notify, Typed, TypeOK, Versions, remote, syncer, bounds
<1> QED BY <1>2, <1>3

\* A run that is over leaves well-typed local variables behind.
LEMMA LeaveType ==
    ASSUME Typed, Leave, clock' = clock
    PROVE  /\ pc' = "idle" /\ pc' # "uploaded"
           /\ batch' \subseteq Change /\ todo' \subseteq Change /\ reply' \in Change \cup {None}
           /\ maxLastModified' \in 0 .. clock' /\ cancelled' \in BOOLEAN
<1>1. clock \in Nat
    BY DEF Typed, TypeOK
<1>2. maxLastModified' \in 0 .. clock'
    BY <1>1 DEF Leave
<1>3. /\ pc' = "idle" /\ pc' # "uploaded" /\ cancelled' \in BOOLEAN
    BY DEF Leave
<1>4. batch' \subseteq Change /\ todo' \subseteq Change /\ reply' \in Change \cup {None}
    BY DEF Leave
<1> QED BY <1>2, <1>3, <1>4

\* The syncer keeps the types.
LEMMA TypeRun == Typed /\ Run => Typed'
<1> SUFFICES ASSUME Typed, Run PROVE Typed'
    OBVIOUS
<1>1. /\ clock \in Nat /\ latestSync \in 0 .. clock /\ maxLastModified \in 0 .. clock
      /\ server \in [Keys -> Entry] /\ rows \in [Keys -> Row \cup {None}]
      /\ events \in Seq(Keys) /\ batch \subseteq Change /\ todo \subseteq Change
    BY DEF Typed, TypeOK
<1>2. \A c \in Change : c.lastModified \in Nat /\ c.key \in Keys /\ c.value \in Texts
    BY DEF Change
<1>3. \A row \in Row : /\ row.lastModified \in Nat
                       /\ row.local \in Texts \cup {None} /\ row.remote \in Texts \cup {None}
    BY DEF Row
<1>4. CASE DownloadChanges
    <2>1. Changed(latestSync) \subseteq Change
        <3> SUFFICES ASSUME NEW k \in Keys, server[k].lastModified > latestSync
                     PROVE  [key |-> k, value |-> server[k].value,
                             lastModified |-> server[k].lastModified] \in Change
            BY DEF Changed
        <3>1. server[k].lastModified \in Nat /\ server[k].lastModified > 0
            BY <1>1 DEF Entry
        <3> QED BY <3>1 DEF Typed, Versions, Change
    <2>2. \A c \in Changed(latestSync) : 0 < c.lastModified /\ c.lastModified <= clock
        <3> SUFFICES ASSUME NEW k \in Keys, server[k].lastModified > latestSync
                     PROVE  0 < server[k].lastModified /\ server[k].lastModified <= clock
            BY DEF Changed
        <3>1. server[k].lastModified \in Nat
            BY <1>1 DEF Entry
        <3> QED BY <1>1, <3>1 DEF Typed, TypeOK
    <2>3. TypeOK'
        BY <1>1, <1>4, <2>1 DEF DownloadChanges, Typed, TypeOK, remote, bounds
    <2>4. Versions'
        BY <1>4, <2>2 DEF DownloadChanges, Typed, Versions, remote
    <2> QED BY <2>3, <2>4 DEF Typed
<1>5. CASE ApplyRemote
    <2> PICK c \in batch :
            /\ setRemoteValue(c)
            /\ batch' = batch \ {c}
            /\ maxLastModified' = Max({maxLastModified, c.lastModified})
            /\ events' = IF cancelled THEN events ELSE Append(events, c.key)
        BY <1>5 DEF ApplyRemote
    <2>1. c \in Change /\ c.key \in Keys /\ c.lastModified \in 0 .. clock
        BY <1>1, <1>2 DEF Typed, Versions
    <2>2. /\ rows' \in [Keys -> Row \cup {None}] /\ rows'[c.key] \in Row
          /\ rows'[c.key].lastModified = c.lastModified
          /\ \A k \in Keys \ {c.key} : rows'[k] = rows[k]
        BY <2>1, RowTypes, Zenon DEF Typed
    <2>3. maxLastModified' \in 0 .. clock
        BY <1>1, <2>1, MaxOfTwo
    <2>4. events' \in Seq(Keys)
        BY <1>1, <2>1
    <2>5. missed' \in BOOLEAN
        BY <1>5 DEF ApplyRemote, Typed, TypeOK
    <2>6. TypeOK'
        BY <1>1, <1>5, <2>2, <2>3, <2>4, <2>5 DEF ApplyRemote, Typed, TypeOK, remote, bounds
    <2>7. \A k \in Keys : rows'[k] # None => rows'[k].lastModified <= clock
        BY <2>1, <2>2 DEF Typed, Versions
    <2> QED BY <1>5, <2>6, <2>7 DEF ApplyRemote, Typed, Versions, remote
<1>6. CASE UpdateLatestSync
    <2>1. LocalChanges \subseteq Change
        BY <1>1, <1>3 DEF LocalChanges, Change
    <2>2. TypeOK'
        BY <1>1, <1>6, <2>1 DEF UpdateLatestSync, Typed, TypeOK, remote, bounds
    <2> QED BY <1>6, <2>2 DEF UpdateLatestSync, Typed, Versions, remote
<1>7. CASE UploadChange
    <2> PICK c \in todo :
            /\ todo' = todo \ {c}
            /\ IF Accepts(c.key, c.lastModified)
               THEN /\ Write(c.key, c.value)
                    /\ mine' = mine \cup {clock + 1}
                    /\ reply' = [c EXCEPT !.lastModified = clock + 1]
                    /\ pc' = "uploaded"
               ELSE UNCHANGED <<remote, reply, pc>>
        BY <1>7 DEF UploadChange
    <2>1. c \in Change /\ c.key \in Keys /\ c.value \in Texts
        BY <1>1, <1>2
    <2>2. CASE ~Accepts(c.key, c.lastModified)
        <3>1. UNCHANGED <<remote, reply, pc>> /\ todo' \subseteq Change
            BY <1>1, <2>2
        <3>2. UNCHANGED <<rows, latestSync, shown, events, batch, maxLastModified, cancelled,
                          missed, unanswered, bounds>>
            BY <1>7 DEF UploadChange
        <3>3. TypeOK'
            BY <3>1, <3>2 DEF Typed, TypeOK, remote, bounds
        <3> QED BY <3>1, <3>2, <3>3 DEF Typed, Versions, remote
    <2>3. CASE Accepts(c.key, c.lastModified)
        <3>1. /\ Write(c.key, c.value) /\ mine' = mine \cup {clock + 1}
              /\ reply' = [c EXCEPT !.lastModified = clock + 1] /\ pc' = "uploaded"
            BY <2>3
        <3>2. UNCHANGED <<rows, latestSync, shown, events, batch, maxLastModified, cancelled,
                          missed, unanswered, bounds>>
            BY <1>7 DEF UploadChange
        <3>3. /\ server' \in [Keys -> Entry] /\ clock' \in Nat /\ clock' = clock + 1
              /\ server'[c.key] = [value |-> c.value, lastModified |-> clock + 1]
              /\ \A j \in Keys : server'[j].lastModified <= clock'
              /\ \A j \in Keys : server'[j].lastModified > 0 => server'[j].value \in Texts
            BY <2>1, <3>1, WriteType, Zenon
        <3>4. /\ reply' \in Change /\ reply'.key = c.key /\ reply'.lastModified = clock + 1
            BY <1>1, <2>1, <3>1 DEF Change
        <3>5. /\ mine' \subseteq 1 .. clock' /\ latestSync' \in 0 .. clock'
              /\ maxLastModified' \in 0 .. clock'
            BY <1>1, <3>1, <3>2, <3>3 DEF Typed, TypeOK
        <3>6. todo' \subseteq Change /\ reply' # None
            BY <1>1, <3>4, NoneIsNoRecord
        <3>7. TypeOK'
            BY <3>1, <3>2, <3>3, <3>4, <3>5, <3>6 DEF Typed, TypeOK, bounds
        <3>8. /\ \A k \in Keys : rows'[k] # None => rows'[k].lastModified <= clock'
              /\ \A d \in batch' : 0 < d.lastModified /\ d.lastModified <= clock'
            BY <1>1, <1>2, <1>3, <3>2, <3>3 DEF Typed, Versions
        <3> QED BY <1>1, <3>1, <3>2, <3>3, <3>4, <3>7, <3>8 DEF Typed, Versions
    <2> QED BY <2>2, <2>3
<1>8. CASE SaveUploaded
    <2>1. /\ pc = "uploaded" /\ setRemoteValue(reply) /\ reply \in Change
          /\ reply.key \in Keys /\ reply.lastModified <= clock
        BY <1>2, <1>8 DEF SaveUploaded, Typed, TypeOK, Versions
    <2>2. /\ rows' \in [Keys -> Row \cup {None}] /\ rows'[reply.key] \in Row
          /\ rows'[reply.key].lastModified = reply.lastModified
          /\ \A k \in Keys \ {reply.key} : rows'[k] = rows[k]
        BY <2>1, RowTypes, Zenon DEF Typed
    <2>3. TypeOK'
        BY <1>8, <2>2 DEF SaveUploaded, Typed, TypeOK, remote, bounds
    <2>4. \A k \in Keys : rows'[k] # None => rows'[k].lastModified <= clock
        BY <2>1, <2>2 DEF Typed, Versions
    <2> QED BY <1>8, <2>3, <2>4 DEF SaveUploaded, Typed, Versions, remote
<1>9. CASE Finish
    <2>1. TypeOK'
        BY <1>9, LeaveType DEF Finish, Typed, TypeOK, remote, bounds
    <2> QED BY <1>9, <2>1 DEF Finish, Leave, Typed, Versions, remote
<1> QED BY <1>4, <1>5, <1>6, <1>7, <1>8, <1>9 DEF Run

\* Failures, cancels and restarts keep the types.
LEMMA TypeFaults == Typed /\ (Fail \/ Cancel \/ Restart) => Typed'
<1> SUFFICES ASSUME Typed, Fail \/ Cancel \/ Restart PROVE Typed'
    OBVIOUS
<1>1. /\ clock \in Nat /\ rows \in [Keys -> Row \cup {None}]
      /\ \A c \in Change : c.key \in Keys
    BY DEF Typed, TypeOK, Change
<1>2. ASSUME Fault PROVE faults' \in 0 .. MaxFaults
    BY <1>2, ProfileAssumption DEF Fault, Typed, TypeOK
<1>3. pc = "uploaded" => reply \in Change /\ reply.key \in Keys
    BY <1>1 DEF Typed, TypeOK
<1>4. CASE Fail
    <2>1. TypeOK'
        BY <1>2, <1>3, <1>4, LeaveType DEF Fail, Typed, TypeOK, remote
    <2> QED BY <1>4, <2>1 DEF Fail, Leave, Typed, Versions, remote
<1>5. CASE Cancel
    <2>1. TypeOK'
        BY <1>2, <1>5 DEF Cancel, Typed, TypeOK, remote
    <2> QED BY <1>5, <2>1 DEF Cancel, Typed, Versions, remote
<1>6. CASE Restart
    <2>1. \A k \in Keys : Coalesced(rows[k]) \in Texts
        BY <1>1 DEF Coalesced, Row, Texts
    <2>2. shown' \in [Keys -> Texts] /\ events' \in Seq(Keys)
        BY <1>6, <2>1 DEF Restart
    <2>3. TypeOK'
        BY <1>2, <1>3, <1>6, <2>2, LeaveType DEF Restart, Typed, TypeOK, remote
    <2> QED BY <1>6, <2>3 DEF Restart, Leave, Typed, Versions, remote
<1> QED BY <1>4, <1>5, <1>6

\* Every step keeps the types.
LEMMA TypeNext == Typed /\ [Next]_vars => Typed'
<1> SUFFICES ASSUME Typed, [Next]_vars PROVE Typed'
    OBVIOUS
<1>1. CASE UNCHANGED vars
    BY <1>1 DEF vars, remote, syncer, bounds, Typed, TypeOK, Versions
<1> QED BY <1>1, TypeRemoteChange, TypeApp, TypeRun, TypeFaults DEF Next

\* Every variable keeps its type: no version is ahead of the server's clock, and
\* what ProfileSyncer saves is a whole row.
THEOREM TypeCorrect == Spec => []TypeOK
<1>1. Typed => TypeOK
    BY DEF Typed
<1> QED BY <1>1, TypeInit, TypeNext, PTL DEF Spec

-----------------------------------------------------------------------------
(* The timestamp passes no change that was not taken in.  It moves at the  *)
(* end of the downloaded batch, to the greatest version in it.  Until then *)
(* each key the server has up to that version is taken in or in the batch, *)
(* and a change in the batch which another device has overtaken is no      *)
(* danger, since the newer one is above all that was downloaded.           *)

Taken(k) == rows[k] # None /\ rows[k].lastModified = server[k].lastModified

Reached(k) ==
    \/ server[k].lastModified <= maxLastModified
    \/ \E c \in batch : server[k].lastModified <= c.lastModified

BatchComplete ==
    pc = "apply" =>
        /\ latestSync <= maxLastModified
        /\ \A k \in Keys :
            server[k].lastModified > 0 /\ Reached(k) =>
                \/ Taken(k)
                \/ \E c \in batch : c.key = k /\ c.lastModified = server[k].lastModified

Overtaken ==
    \A c \in batch :
        c.lastModified # server[c.key].lastModified => ~Reached(c.key)

CursorInv == Typed /\ BatchComplete /\ Overtaken /\ CursorSkipsNothing

\* In the beginning there is nothing to skip.
LEMMA CursorInit == Init => CursorInv
<1> SUFFICES ASSUME Init PROVE CursorInv
    OBVIOUS
<1>1. BatchComplete /\ Overtaken
    BY DEF Init, BatchComplete, Overtaken
<1>2. CursorSkipsNothing
    BY DEF Init, CursorSkipsNothing
<1> QED BY <1>1, <1>2, TypeInit DEF CursorInv

\* A new version on the server is above the cursor and the batch.
LEMMA CursorWrite ==
    ASSUME CursorInv, Typed', NEW key \in Keys, NEW value \in Texts, Write(key, value),
           UNCHANGED <<rows, latestSync, batch, maxLastModified>>,
           pc' = "apply" => pc = "apply"
    PROVE  BatchComplete' /\ Overtaken' /\ CursorSkipsNothing'
<1>1. /\ server'[key].lastModified = clock + 1
      /\ \A k \in Keys \ {key} : server'[k] = server[k]
    <2>1. server'[key] = [value |-> value, lastModified |-> clock + 1]
        BY WriteType, Zenon DEF CursorInv
    <2>2. \A k \in Keys \ {key} : server'[k] = server[k]
        BY WriteType, Zenon DEF CursorInv
    <2> QED BY <2>1, <2>2
<1>2. /\ clock \in Nat /\ maxLastModified \in 0 .. clock /\ latestSync \in 0 .. clock
      /\ \A c \in batch : c.key \in Keys /\ c.lastModified \in 0 .. clock
    BY DEF CursorInv, Typed, TypeOK, Versions, Change
<1>3. ~Reached(key)'
    BY <1>1, <1>2 DEF Reached
<1>4. \A k \in Keys \ {key} : (Reached(k)' <=> Reached(k)) /\ (Taken(k)' <=> Taken(k))
    BY <1>1 DEF Reached, Taken
<1>5. BatchComplete'
    BY <1>1, <1>3, <1>4 DEF CursorInv, BatchComplete
<1>6. Overtaken'
    BY <1>1, <1>2, <1>3, <1>4 DEF CursorInv, Overtaken
<1>7. CursorSkipsNothing'
    BY <1>1, <1>2 DEF CursorInv, CursorSkipsNothing
<1> QED BY <1>5, <1>6, <1>7

\* What neither touches the versions nor the batch is harmless: the app's
\* thread, cancels, and runs that end.
LEMMA CursorUnmoved ==
    ASSUME CursorInv, UNCHANGED <<server, latestSync>>,
           \A k \in Keys : Taken(k) => Taken(k)',
           \/ batch' = {} /\ pc' # "apply"
           \/ UNCHANGED <<batch, maxLastModified, pc>>
    PROVE  BatchComplete' /\ Overtaken' /\ CursorSkipsNothing'
<1>1. CursorSkipsNothing'
    BY DEF CursorInv, CursorSkipsNothing, Taken
<1>2. CASE batch' = {} /\ pc' # "apply"
    BY <1>1, <1>2 DEF BatchComplete, Overtaken
<1>3. CASE UNCHANGED <<batch, maxLastModified, pc>>
    <2>1. \A k \in Keys : Reached(k)' <=> Reached(k)
        BY <1>3 DEF Reached
    <2>2. BatchComplete'
        BY <1>3, <2>1 DEF CursorInv, BatchComplete
    <2>3. \A c \in batch : c.key \in Keys
        BY DEF CursorInv, Typed, TypeOK, Change
    <2>4. Overtaken'
        BY <1>3, <2>1, <2>3 DEF CursorInv, Overtaken
    <2> QED BY <1>1, <2>2, <2>4
<1> QED BY <1>2, <1>3

\* The batch holds all that the server has above the cursor.
LEMMA CursorDownload ==
    CursorInv /\ DownloadChanges => BatchComplete' /\ Overtaken' /\ CursorSkipsNothing'
<1> SUFFICES ASSUME CursorInv, DownloadChanges
             PROVE  BatchComplete' /\ Overtaken' /\ CursorSkipsNothing'
    OBVIOUS
<1>1. /\ UNCHANGED <<server, rows, latestSync>>
      /\ maxLastModified' = latestSync /\ batch' = Changed(latestSync)
    BY DEF DownloadChanges, remote
<1>2. latestSync \in Nat /\ \A k \in Keys : server[k].lastModified \in Nat
    BY DEF CursorInv, Typed, TypeOK, Entry
<1>3. CursorSkipsNothing'
    BY <1>1 DEF CursorInv, CursorSkipsNothing
<1>4. \A k \in Keys : server[k].lastModified > latestSync =>
            \E c \in batch' : c.key = k /\ c.lastModified = server[k].lastModified
    <2> SUFFICES ASSUME NEW k \in Keys, server[k].lastModified > latestSync
                 PROVE  \E c \in batch' : c.key = k /\ c.lastModified = server[k].lastModified
        OBVIOUS
    <2> DEFINE d == [key |-> k, value |-> server[k].value,
                     lastModified |-> server[k].lastModified]
    <2>1. d \in Changed(latestSync)
        BY DEF Changed
    <2>2. d.key = k /\ d.lastModified = server[k].lastModified
        OBVIOUS
    <2> HIDE DEF d
    <2> QED BY <1>1, <2>1, <2>2
<1>5. \A k \in Keys : server[k].lastModified \in 1 .. latestSync => Taken(k)'
    BY <1>1 DEF CursorInv, CursorSkipsNothing, Taken
<1>6. BatchComplete'
    BY <1>1, <1>2, <1>4, <1>5 DEF BatchComplete
<1>7. \A c \in batch' : c.lastModified = server[c.key].lastModified
    BY <1>1 DEF Changed
<1> QED BY <1>1, <1>3, <1>6, <1>7 DEF Overtaken

\* Taking in a change does not undo another one.
LEMMA CursorApply ==
    CursorInv /\ ApplyRemote => BatchComplete' /\ Overtaken' /\ CursorSkipsNothing'
<1> SUFFICES ASSUME CursorInv, ApplyRemote
             PROVE  BatchComplete' /\ Overtaken' /\ CursorSkipsNothing'
    OBVIOUS
<1> PICK c \in batch :
        /\ setRemoteValue(c)
        /\ batch' = batch \ {c}
        /\ maxLastModified' = Max({maxLastModified, c.lastModified})
    BY DEF ApplyRemote
<1>1. /\ pc = "apply" /\ pc' = pc /\ UNCHANGED <<server, latestSync>>
    BY DEF ApplyRemote, remote
<1>2. /\ c \in Change /\ maxLastModified \in Nat /\ latestSync \in Nat
      /\ \A d \in batch : d.key \in Keys /\ d.lastModified \in Nat
      /\ \A k \in Keys : server[k].lastModified \in Nat
    BY DEF CursorInv, Typed, TypeOK, Change, Entry
<1>3. /\ c.key \in Keys /\ rows'[c.key] # None
      /\ rows'[c.key].lastModified = c.lastModified
      /\ \A k \in Keys \ {c.key} : rows'[k] = rows[k]
    <2>1. /\ c.key \in Keys /\ rows'[c.key] \in Row
          /\ rows'[c.key].lastModified = c.lastModified
          /\ \A k \in Keys \ {c.key} : rows'[k] = rows[k]
        BY <1>2, RowTypes, Zenon DEF CursorInv, Typed
    <2> QED BY <2>1, NoneIsNoRecord
<1>4. /\ maxLastModified' \in {maxLastModified, c.lastModified}
      /\ maxLastModified' >= maxLastModified /\ maxLastModified' >= c.lastModified
    BY <1>2, MaxOfTwo
<1>5. \A k \in Keys : Reached(k)' <=> Reached(k)
    BY <1>1, <1>2, <1>4 DEF Reached
<1>6. \A k \in Keys : Reached(k) /\ Taken(k) => Taken(k)'
    <2> SUFFICES ASSUME NEW k \in Keys, Reached(k), Taken(k) PROVE Taken(k)'
        OBVIOUS
    <2>1. CASE k # c.key
        BY <1>1, <1>3, <2>1 DEF Taken
    <2>2. CASE k = c.key
        <3>1. c.lastModified = server[k].lastModified
            BY <2>2 DEF CursorInv, Overtaken
        <3> QED BY <1>1, <1>3, <2>2, <3>1 DEF Taken
    <2> QED BY <2>1, <2>2
<1>7. BatchComplete'
    <2> SUFFICES ASSUME NEW k \in Keys, server[k].lastModified > 0, Reached(k)
                 PROVE  \/ Taken(k)'
                        \/ \E d \in batch' : d.key = k /\ d.lastModified = server[k].lastModified
        BY <1>1, <1>2, <1>4, <1>5 DEF CursorInv, BatchComplete
    <2>1. CASE Taken(k)
        BY <1>6, <2>1
    <2>2. CASE \E d \in batch : d.key = k /\ d.lastModified = server[k].lastModified
        <3> PICK d \in batch : d.key = k /\ d.lastModified = server[k].lastModified
            BY <2>2
        <3>1. CASE d = c
            BY <1>1, <1>3, <3>1 DEF Taken
        <3>2. CASE d # c
            BY <3>2
        <3> QED BY <3>1, <3>2
    <2> QED BY <1>1, <2>1, <2>2 DEF CursorInv, BatchComplete
<1>8. Overtaken'
    BY <1>1, <1>2, <1>5 DEF CursorInv, Overtaken
<1>9. CursorSkipsNothing'
    <2> SUFFICES ASSUME NEW k \in Keys, server[k].lastModified \in 1 .. latestSync
                 PROVE  Taken(k)'
        BY <1>1 DEF CursorSkipsNothing, Taken
    <2>1. Taken(k)
        BY DEF CursorInv, CursorSkipsNothing, Taken
    <2>2. Reached(k)
        BY <1>1, <1>2 DEF CursorInv, BatchComplete, Reached
    <2> QED BY <1>6, <2>1, <2>2
<1> QED BY <1>7, <1>8, <1>9

\* The step that moves the cursor.
LEMMA CursorMoves ==
    CursorInv /\ UpdateLatestSync => BatchComplete' /\ Overtaken' /\ CursorSkipsNothing'
<1> SUFFICES ASSUME CursorInv, UpdateLatestSync
             PROVE  BatchComplete' /\ Overtaken' /\ CursorSkipsNothing'
    OBVIOUS
<1>1. /\ pc = "apply" /\ pc' = "upload" /\ batch = {} /\ batch' = {}
      /\ latestSync' = maxLastModified /\ UNCHANGED <<server, rows>>
    BY DEF UpdateLatestSync, remote
<1>2. \A k \in Keys : server[k].lastModified \in 1 .. maxLastModified => Taken(k)
    <2>1. maxLastModified \in Nat
        BY DEF CursorInv, Typed, TypeOK
    <2> QED BY <1>1, <2>1 DEF CursorInv, BatchComplete, Reached
<1>3. CursorSkipsNothing'
    BY <1>1, <1>2 DEF CursorSkipsNothing, Taken
<1> QED BY <1>1, <1>3 DEF BatchComplete, Overtaken

\* The answer to an upload brings a version above the cursor.
LEMMA CursorSaveUploaded ==
    CursorInv /\ SaveUploaded => BatchComplete' /\ Overtaken' /\ CursorSkipsNothing'
<1> SUFFICES ASSUME CursorInv, SaveUploaded
             PROVE  BatchComplete' /\ Overtaken' /\ CursorSkipsNothing'
    OBVIOUS
<1>1. /\ pc = "uploaded" /\ pc' = "upload" /\ setRemoteValue(reply)
      /\ UNCHANGED <<server, latestSync, batch, maxLastModified>>
    BY DEF SaveUploaded, remote
<1>2. /\ reply \in Change /\ reply.key \in Keys /\ reply.lastModified \in Nat
      /\ latestSync \in Nat /\ \A k \in Keys : server[k].lastModified \in Nat
      /\ latestSync < server[reply.key].lastModified
    BY <1>1 DEF CursorInv, Typed, TypeOK, Versions, Change, Entry
<1>3. \A k \in Keys \ {reply.key} : rows'[k] = rows[k]
    BY <1>1, <1>2, RowTypes, Zenon DEF CursorInv, Typed
<1>4. CursorSkipsNothing'
    BY <1>1, <1>2, <1>3 DEF CursorInv, CursorSkipsNothing
<1>5. Overtaken'
    BY <1>1 DEF CursorInv, Overtaken, Reached
<1> QED BY <1>1, <1>4, <1>5 DEF BatchComplete

\* Every step keeps the cursor below what was not taken in.
LEMMA CursorNext == CursorInv /\ [Next]_vars => CursorInv'
<1> SUFFICES ASSUME CursorInv, [Next]_vars PROVE CursorInv'
    OBVIOUS
<1>1. Typed'
    BY TypeNext DEF CursorInv
<1> SUFFICES BatchComplete' /\ Overtaken' /\ CursorSkipsNothing'
    BY <1>1 DEF CursorInv
<1>2. ASSUME UNCHANGED rows, UNCHANGED <<server, latestSync>>,
             \/ batch' = {} /\ pc' # "apply"
             \/ UNCHANGED <<batch, maxLastModified, pc>>
      PROVE  BatchComplete' /\ Overtaken' /\ CursorSkipsNothing'
    <2>1. \A k \in Keys : Taken(k) => Taken(k)'
        BY <1>2 DEF Taken
    <2> QED BY <1>2, <2>1, CursorUnmoved, Zenon
<1>3. CASE UNCHANGED vars
    BY <1>2, <1>3 DEF vars, remote, syncer
<1>4. ASSUME NEW k \in Keys, NEW value \in Values, RemoteChange(k, value)
      PROVE  BatchComplete' /\ Overtaken' /\ CursorSkipsNothing'
    <2>1. /\ Write(k, value) /\ value \in Texts
          /\ UNCHANGED <<rows, latestSync, batch, maxLastModified>>
          /\ pc' = "apply" => pc = "apply"
        BY <1>4 DEF RemoteChange, syncer, Texts
    <2> QED BY <1>1, <2>1, CursorWrite, Zenon
<1>5. ASSUME NEW k \in Keys, NEW value \in Values, Set(k, value)
      PROVE  BatchComplete' /\ Overtaken' /\ CursorSkipsNothing'
    <2>1. /\ setLocalValue(k, value)
          /\ UNCHANGED <<server, latestSync, batch, maxLastModified, pc>>
        BY <1>5 DEF Set, remote, syncer
    <2>2. ASSUME NEW j \in Keys, Taken(j) PROVE Taken(j)'
        <3>1. rows \in [Keys -> Row \cup {None}] /\ rows[j] \in Row
            BY <2>2 DEF CursorInv, Typed, TypeOK, Taken
        <3>2. rows'[j].lastModified = rows[j].lastModified /\ rows'[j] \in Row
            BY <1>5, <2>1, <2>2, <3>1 DEF setLocalValue, Row, Texts, Taken
        <3> QED BY <2>1, <2>2, <3>2, NoneIsNoRecord DEF Taken
    <2> QED BY <2>1, <2>2, CursorUnmoved, Zenon
<1>6. CASE Notify
    BY <1>2, <1>6 DEF Notify, remote, syncer
<1>7. CASE UploadChange
    <2> PICK c \in todo :
            IF Accepts(c.key, c.lastModified)
            THEN Write(c.key, c.value) /\ pc' = "uploaded"
            ELSE UNCHANGED <<remote, reply, pc>>
        BY <1>7 DEF UploadChange
    <2>1. UNCHANGED <<rows, latestSync, batch, maxLastModified>>
        BY <1>7 DEF UploadChange
    <2>2. c.key \in Keys /\ c.value \in Texts
        BY DEF CursorInv, Typed, TypeOK, Change
    <2>3. CASE Accepts(c.key, c.lastModified)
        <3>1. Write(c.key, c.value) /\ (pc' = "apply" => pc = "apply")
            BY <2>3
        <3> QED BY <1>1, <2>1, <2>2, <3>1, CursorWrite, Zenon
    <2>4. CASE ~Accepts(c.key, c.lastModified)
        BY <1>2, <2>1, <2>4 DEF remote
    <2> QED BY <2>3, <2>4
<1>8. CASE DownloadChanges \/ ApplyRemote \/ UpdateLatestSync \/ SaveUploaded
    BY <1>8, CursorDownload, CursorApply, CursorMoves, CursorSaveUploaded
<1>9. CASE Finish \/ Fail \/ Restart
    <2>1. /\ UNCHANGED <<server, rows, latestSync>>
          /\ batch' = {} /\ pc' # "apply"
        BY <1>9 DEF Finish, Fail, Restart, Leave, remote
    <2> QED BY <1>2, <2>1
<1>10. CASE Cancel
    BY <1>2, <1>10 DEF Cancel, remote
<1> QED BY <1>3, <1>4, <1>5, <1>6, <1>7, <1>8, <1>9, <1>10 DEF Next, Run

\* A change of another device that is below the timestamp was taken in: whatever
\* is cancelled, fails or restarts, ProfileSyncer's next download asks for every
\* change that is not in the table yet.
THEOREM CursorSkipsNothingCorrect == Spec => []CursorSkipsNothing
<1>1. CursorInv => CursorSkipsNothing
    BY DEF CursorInv
<1> QED BY <1>1, CursorInit, CursorNext, PTL DEF Spec

-----------------------------------------------------------------------------
(* Nothing goes back.  The table is never ahead of the server, key by key; *)
(* a change in the batch, or the answer to an upload, is never behind the  *)
(* table, since only one of the two is under way and uploads come after    *)
(* the whole batch.                                                        *)

NotAhead == \A k \in Keys : rows[k] # None => rows[k].lastModified <= server[k].lastModified

\* The change `new` would bring its row forward.
Brings(new) == rows[new.key] # None => rows[new.key].lastModified <= new.lastModified

BatchBrings ==
    /\ pc # "apply" => batch = {}
    /\ \A c, d \in batch : c.key = d.key => c = d
    /\ \A c \in batch : c.lastModified <= server[c.key].lastModified /\ Brings(c)

ForwardInv ==
    /\ CursorInv
    /\ NotAhead
    /\ BatchBrings
    /\ pc = "uploaded" => Brings(reply)

\* The versions of the table and the download timestamp.
RowsGrow ==
    \A k \in Keys : rows[k] # None =>
        rows'[k] # None /\ rows[k].lastModified <= rows'[k].lastModified
VersionsGrow == latestSync <= latestSync' /\ RowsGrow

\* In the beginning there are no versions.
LEMMA ForwardInit == Init => ForwardInv
<1>1. Init => NotAhead /\ BatchBrings /\ pc # "uploaded"
    BY DEF Init, NotAhead, BatchBrings
<1> QED BY <1>1, CursorInit DEF ForwardInv

\* Versions are numbers, and keys are keys.
LEMMA ForwardTypes ==
    ASSUME ForwardInv
    PROVE  /\ rows \in [Keys -> Row \cup {None}] /\ None \notin Row
           /\ \A row \in Row : row.lastModified \in Nat
           /\ \A k \in Keys : server[k].lastModified \in 0 .. clock
           /\ clock \in Nat /\ latestSync \in Nat /\ maxLastModified \in Nat
           /\ \A c \in Change : c.key \in Keys /\ c.lastModified \in Nat
           /\ batch \subseteq Change /\ todo \subseteq Change
           /\ pc = "uploaded" => reply \in Change
<1>1. clock \in Nat /\ latestSync \in 0 .. clock /\ maxLastModified \in 0 .. clock
    BY DEF ForwardInv, CursorInv, Typed, TypeOK
<1>2. \A k \in Keys : server[k].lastModified \in 0 .. clock
    BY DEF ForwardInv, CursorInv, Typed, TypeOK, Entry
<1>3. \A c \in Change : c.key \in Keys /\ c.lastModified \in Nat
    BY DEF Change
<1>4. \A row \in Row : row.lastModified \in Nat
    BY DEF Row
<1> QED BY <1>1, <1>2, <1>3, <1>4, NoneIsNoRecord DEF ForwardInv, CursorInv, Typed, TypeOK

\* A step that leaves the table, the batch and the answer alone, or drops the
\* last two, while versions of the server only grow.
LEMMA ForwardUnmoved ==
    ASSUME ForwardInv, UNCHANGED <<rows, latestSync>>,
           \A k \in Keys : /\ server'[k].lastModified \in Nat
                           /\ server[k].lastModified <= server'[k].lastModified,
           \/ UNCHANGED <<pc, batch, reply>>
           \/ batch' = {} /\ pc' # "uploaded"
    PROVE  NotAhead' /\ BatchBrings' /\ (pc' = "uploaded" => Brings(reply)') /\ VersionsGrow
<1>1. RowsGrow /\ latestSync <= latestSync'
    BY ForwardTypes DEF RowsGrow
<1>2. NotAhead'
    <2> SUFFICES ASSUME NEW k \in Keys, rows[k] # None
                 PROVE  rows[k].lastModified <= server'[k].lastModified
        BY DEF NotAhead
    <2>1. rows[k].lastModified \in Nat /\ server[k].lastModified \in Nat
        BY ForwardTypes
    <2> QED BY <2>1 DEF ForwardInv, NotAhead
<1>3. CASE batch' = {} /\ pc' # "uploaded"
    BY <1>1, <1>2, <1>3 DEF BatchBrings, VersionsGrow
<1>4. CASE UNCHANGED <<pc, batch, reply>>
    <2>1. ASSUME NEW c \in batch
          PROVE  c.lastModified <= server'[c.key].lastModified /\ Brings(c)'
        <3>1. /\ c.key \in Keys /\ c.lastModified \in Nat
              /\ server[c.key].lastModified \in Nat
            BY ForwardTypes
        <3> QED BY <3>1 DEF ForwardInv, BatchBrings, Brings
    <2>2. BatchBrings'
        BY <1>4, <2>1 DEF ForwardInv, BatchBrings, Brings
    <2> QED BY <1>1, <1>2, <1>4, <2>2 DEF ForwardInv, Brings, VersionsGrow
<1> QED BY <1>3, <1>4

\* A change that brings its row forward is saved.
LEMMA ForwardSave ==
    ASSUME ForwardInv, NEW c \in Change, setRemoteValue(c), UNCHANGED server,
           c.lastModified <= server[c.key].lastModified, Brings(c)
    PROVE  NotAhead' /\ RowsGrow /\ \A k \in Keys \ {c.key} : rows'[k] = rows[k]
<1>1. /\ c.key \in Keys /\ rows'[c.key] \in Row
      /\ rows'[c.key].lastModified = c.lastModified
      /\ \A k \in Keys \ {c.key} : rows'[k] = rows[k]
    BY RowTypes, Zenon DEF ForwardInv, CursorInv, Typed
<1>2. NotAhead'
    BY <1>1 DEF ForwardInv, NotAhead
<1>3. RowsGrow
    <2> SUFFICES ASSUME NEW k \in Keys, rows[k] # None
                 PROVE  rows'[k] # None /\ rows[k].lastModified <= rows'[k].lastModified
        BY DEF RowsGrow
    <2>1. CASE k = c.key
        BY <1>1, <2>1, NoneIsNoRecord DEF Brings
    <2>2. CASE k # c.key
        BY <1>1, <2>2, ForwardTypes
    <2> QED BY <2>1, <2>2
<1> QED BY <1>1, <1>2, <1>3

\* A write of any device raises the version of its key.
LEMMA ForwardWrite ==
    ASSUME ForwardInv, NEW key \in Keys, NEW value \in Texts, Write(key, value)
    PROVE  \A k \in Keys : /\ server'[k].lastModified \in Nat
                           /\ server[k].lastModified <= server'[k].lastModified
<1>1. server'[key] = [value |-> value, lastModified |-> clock + 1]
    BY WriteType, Zenon DEF ForwardInv, CursorInv
<1>2. \A k \in Keys \ {key} : server'[k] = server[k]
    BY WriteType, Zenon DEF ForwardInv, CursorInv
<1>3. clock \in Nat /\ \A k \in Keys : server[k].lastModified \in 0 .. clock
    BY ForwardTypes
<1>4. server'[key].lastModified = clock + 1
    BY <1>1
<1> QED BY <1>2, <1>3, <1>4

\* The user's value has no version of its own.
LEMMA ForwardSet ==
    ASSUME ForwardInv, NEW k \in Keys, NEW value \in Values, Set(k, value)
    PROVE  NotAhead' /\ BatchBrings' /\ (pc' = "uploaded" => Brings(reply)') /\ VersionsGrow
<1>1. /\ setLocalValue(k, value) /\ value \in Texts
      /\ UNCHANGED <<server, latestSync, pc, batch, reply>>
    BY DEF Set, remote, syncer, Texts
<1>2. ASSUME NEW j \in Keys
      PROVE  /\ rows'[j] = None => rows[j] = None
             /\ rows'[j] # None =>
                    \/ rows[j] = None /\ rows'[j].lastModified = 0
                    \/ rows[j] # None /\ rows'[j].lastModified = rows[j].lastModified
    <2>1. rows \in [Keys -> Row \cup {None}] /\ None \notin Row
        BY ForwardTypes
    <2>2. CASE rows[j] = None
        BY <1>1, <2>1, <2>2 DEF setLocalValue
    <2>3. CASE rows[j] # None
        <3>1. rows[j] \in Row
            BY <2>1, <2>3
        <3>2. rows'[j] \in Row /\ rows'[j].lastModified = rows[j].lastModified
            BY <1>1, <2>1, <2>3, <3>1 DEF setLocalValue, Row, Texts
        <3> QED BY <2>1, <2>3, <3>2
    <2> QED BY <2>2, <2>3
<1>3. NotAhead'
    <2> SUFFICES ASSUME NEW j \in Keys, rows'[j] # None
                 PROVE  rows'[j].lastModified <= server[j].lastModified
        BY <1>1 DEF NotAhead
    <2>1. server[j].lastModified \in Nat
        BY ForwardTypes
    <2> QED BY <1>2, <2>1 DEF ForwardInv, NotAhead
<1>4. ASSUME NEW c \in Change, Brings(c) PROVE Brings(c)'
    <2>1. c.key \in Keys /\ c.lastModified \in Nat
        BY ForwardTypes
    <2> QED BY <1>2, <1>4, <2>1 DEF Brings
<1>5. BatchBrings'
    BY <1>1, <1>4, ForwardTypes DEF ForwardInv, BatchBrings
<1>6. pc' = "uploaded" => Brings(reply)'
    <2> SUFFICES ASSUME pc = "uploaded" PROVE Brings(reply)'
        BY <1>1
    <2>1. reply \in Change /\ Brings(reply)
        BY ForwardTypes DEF ForwardInv
    <2>2. reply.key \in Keys /\ reply.lastModified \in Nat
        BY <2>1, ForwardTypes
    <2> QED BY <1>1, <1>2, <2>1, <2>2 DEF Brings
<1>7. RowsGrow
    <2> SUFFICES ASSUME NEW j \in Keys, rows[j] # None
                 PROVE  rows'[j] # None /\ rows[j].lastModified <= rows'[j].lastModified
        BY DEF RowsGrow
    <2>1. rows[j].lastModified \in Nat
        BY ForwardTypes
    <2> QED BY <1>2, <2>1
<1> QED BY <1>1, <1>3, <1>5, <1>6, <1>7, ForwardTypes DEF VersionsGrow

\* A sync takes changes in, then moves the timestamp, then uploads.
LEMMA ForwardRun ==
    ASSUME ForwardInv, Run
    PROVE  NotAhead' /\ BatchBrings' /\ (pc' = "uploaded" => Brings(reply)') /\ VersionsGrow
<1>1. CASE DownloadChanges
    <2>1. /\ pc' = "apply" /\ batch' = Changed(latestSync)
          /\ UNCHANGED <<server, rows, latestSync>>
        BY <1>1 DEF DownloadChanges, remote
    <2>2. NotAhead' /\ VersionsGrow
        BY <2>1, ForwardTypes DEF ForwardInv, NotAhead, VersionsGrow, RowsGrow
    <2>3. ASSUME NEW c \in batch'
          PROVE  /\ c.key \in Keys
                 /\ c = [key |-> c.key, value |-> server[c.key].value,
                         lastModified |-> server[c.key].lastModified]
        BY <2>1 DEF Changed
    <2>4. ASSUME NEW c \in batch'
          PROVE  c.lastModified <= server[c.key].lastModified /\ Brings(c)'
        <3>1. c.key \in Keys /\ c.lastModified = server[c.key].lastModified
            BY <2>3
        <3>2. server[c.key].lastModified \in Nat
            BY <3>1, ForwardTypes
        <3> QED BY <2>1, <3>1, <3>2 DEF ForwardInv, NotAhead, Brings
    <2>5. \A c, d \in batch' : c.key = d.key => c = d
        BY <2>3
    <2> QED BY <2>1, <2>2, <2>4, <2>5 DEF BatchBrings
<1>2. CASE ApplyRemote
    <2> PICK c \in batch : setRemoteValue(c) /\ batch' = batch \ {c}
        BY <1>2 DEF ApplyRemote
    <2>1. pc = "apply" /\ pc' = "apply" /\ UNCHANGED <<server, latestSync>>
        BY <1>2 DEF ApplyRemote, remote
    <2>2. c \in Change /\ c.lastModified <= server[c.key].lastModified /\ Brings(c)
        BY ForwardTypes DEF ForwardInv, BatchBrings
    <2>3. NotAhead' /\ RowsGrow /\ \A k \in Keys \ {c.key} : rows'[k] = rows[k]
        BY <2>1, <2>2, ForwardSave
    <2>4. ASSUME NEW d \in batch'
          PROVE  d.lastModified <= server'[d.key].lastModified /\ Brings(d)'
        <3>1. d \in batch /\ d.key \in Keys /\ d.key # c.key
            BY <2>4, ForwardTypes DEF ForwardInv, BatchBrings
        <3> QED BY <2>1, <2>3, <3>1 DEF ForwardInv, BatchBrings, Brings
    <2>5. BatchBrings'
        BY <2>1, <2>4 DEF ForwardInv, BatchBrings
    <2> QED BY <2>1, <2>3, <2>5, ForwardTypes DEF VersionsGrow
<1>3. CASE UpdateLatestSync
    <2>1. /\ pc = "apply" /\ pc' = "upload" /\ batch' = {} /\ latestSync' = maxLastModified
          /\ UNCHANGED <<server, rows>>
        BY <1>3 DEF UpdateLatestSync, remote
    <2>2. latestSync <= latestSync'
        BY <2>1 DEF ForwardInv, CursorInv, BatchComplete
    <2> QED BY <2>1, <2>2, ForwardTypes
            DEF ForwardInv, NotAhead, BatchBrings, VersionsGrow, RowsGrow
<1>4. CASE UploadChange
    <2> PICK c \in todo :
            IF Accepts(c.key, c.lastModified)
            THEN /\ Write(c.key, c.value)
                 /\ reply' = [c EXCEPT !.lastModified = clock + 1]
                 /\ pc' = "uploaded"
            ELSE UNCHANGED <<remote, reply, pc>>
        BY <1>4 DEF UploadChange
    <2>1. /\ c \in Change /\ c.key \in Keys /\ c.value \in Texts
          /\ pc = "upload" /\ batch = {} /\ UNCHANGED <<rows, latestSync, batch>>
        BY <1>4, ForwardTypes DEF UploadChange, Change, ForwardInv, BatchBrings
    <2>2. CASE Accepts(c.key, c.lastModified)
        <3>1. /\ Write(c.key, c.value) /\ pc' = "uploaded"
              /\ reply'.key = c.key /\ reply'.lastModified = clock + 1
            BY <2>1, <2>2 DEF Change
        <3>2. \A k \in Keys : /\ server'[k].lastModified \in Nat
                              /\ server[k].lastModified <= server'[k].lastModified
            BY <2>1, <3>1, ForwardWrite
        <3>3. NotAhead'
            <4> SUFFICES ASSUME NEW k \in Keys, rows[k] # None
                         PROVE  rows[k].lastModified <= server'[k].lastModified
                BY <2>1 DEF NotAhead
            <4>1. rows[k].lastModified \in Nat /\ server[k].lastModified \in Nat
                BY ForwardTypes
            <4> QED BY <3>2, <4>1 DEF ForwardInv, NotAhead
        <3>4. Brings(reply)'
            <4>1. /\ clock \in Nat
                  /\ rows[c.key] # None =>
                        rows[c.key].lastModified \in Nat /\ rows[c.key].lastModified <= clock
                BY <2>1, ForwardTypes DEF ForwardInv, CursorInv, Typed, Versions
            <4> QED BY <2>1, <3>1, <4>1 DEF Brings
        <3> QED BY <2>1, <3>1, <3>3, <3>4, ForwardTypes DEF BatchBrings, VersionsGrow, RowsGrow
    <2>3. CASE ~Accepts(c.key, c.lastModified)
        <3>1. UNCHANGED <<server, rows, latestSync, pc, batch, reply>>
            BY <2>1, <2>3 DEF remote
        <3>2. \A k \in Keys : /\ server'[k].lastModified \in Nat
                              /\ server[k].lastModified <= server'[k].lastModified
            BY <3>1, ForwardTypes
        <3> QED BY <3>1, <3>2, ForwardUnmoved
    <2> QED BY <2>2, <2>3
<1>5. CASE SaveUploaded
    <2>1. /\ pc = "uploaded" /\ pc' = "upload" /\ batch = {} /\ setRemoteValue(reply)
          /\ UNCHANGED <<server, latestSync, batch>>
        BY <1>5 DEF SaveUploaded, remote, ForwardInv, BatchBrings
    <2>2. /\ reply \in Change /\ reply.lastModified <= server[reply.key].lastModified
          /\ Brings(reply)
        BY <2>1, ForwardTypes DEF ForwardInv, CursorInv, Typed, Versions
    <2>3. NotAhead' /\ RowsGrow
        BY <2>1, <2>2, ForwardSave
    <2> QED BY <2>1, <2>3, ForwardTypes DEF BatchBrings, VersionsGrow
<1>6. CASE Finish
    <2>1. batch' = {} /\ pc' # "uploaded" /\ UNCHANGED <<server, rows, latestSync>>
        BY <1>6 DEF Finish, Leave, remote
    <2>2. \A k \in Keys : /\ server'[k].lastModified \in Nat
                          /\ server[k].lastModified <= server'[k].lastModified
        BY <2>1, ForwardTypes
    <2> QED BY <2>1, <2>2, ForwardUnmoved
<1> QED BY <1>1, <1>2, <1>3, <1>4, <1>5, <1>6 DEF Run

\* Every step keeps the table behind the server, and brings no version back.
LEMMA ForwardNext == ForwardInv /\ [Next]_vars => ForwardInv' /\ VersionsGrow
<1> SUFFICES ASSUME ForwardInv, [Next]_vars
             PROVE  /\ NotAhead' /\ BatchBrings' /\ (pc' = "uploaded" => Brings(reply)')
                    /\ VersionsGrow
    BY CursorNext DEF ForwardInv
<1>1. ASSUME UNCHANGED <<server, rows, latestSync>>,
             \/ UNCHANGED <<pc, batch, reply>>
             \/ batch' = {} /\ pc' # "uploaded"
      PROVE  NotAhead' /\ BatchBrings' /\ (pc' = "uploaded" => Brings(reply)') /\ VersionsGrow
    <2>1. \A k \in Keys : /\ server'[k].lastModified \in Nat
                          /\ server[k].lastModified <= server'[k].lastModified
        BY <1>1, ForwardTypes
    <2> QED BY <1>1, <2>1, ForwardUnmoved
<1>2. CASE UNCHANGED vars
    BY <1>1, <1>2 DEF vars, remote, syncer
<1>3. ASSUME NEW k \in Keys, NEW value \in Values, RemoteChange(k, value)
      PROVE  NotAhead' /\ BatchBrings' /\ (pc' = "uploaded" => Brings(reply)') /\ VersionsGrow
    <2>1. /\ Write(k, value) /\ value \in Texts
          /\ UNCHANGED <<rows, latestSync, pc, batch, reply>>
        BY <1>3 DEF RemoteChange, syncer, Texts
    <2>2. \A j \in Keys : /\ server'[j].lastModified \in Nat
                          /\ server[j].lastModified <= server'[j].lastModified
        BY <2>1, ForwardWrite
    <2> QED BY <2>1, <2>2, ForwardUnmoved
<1>4. ASSUME NEW k \in Keys, NEW value \in Values, Set(k, value)
      PROVE  NotAhead' /\ BatchBrings' /\ (pc' = "uploaded" => Brings(reply)') /\ VersionsGrow
    BY <1>4, ForwardSet
<1>5. CASE Notify \/ Cancel
    BY <1>1, <1>5 DEF Notify, Cancel, remote, syncer
<1>6. CASE Run
    BY <1>6, ForwardRun
<1>7. CASE Fail \/ Restart
    BY <1>1, <1>7 DEF Fail, Restart, Leave, remote
<1> QED BY <1>2, <1>3, <1>4, <1>5, <1>6, <1>7 DEF Next

\* A profile sync never goes back: the timestamp of the last download only
\* grows, no row is removed, and none is replaced by an older version of its
\* value, whatever is overtaken, refused, cancelled, fails or restarts, and
\* however the user's changes fall between the steps of the sync.
THEOREM VersionsOnlyGrow == Spec => [][VersionsGrow]_vars
<1>1. ForwardInv /\ [Next]_vars => [VersionsGrow]_vars
    BY ForwardNext
<1>2. ForwardInv /\ [Next]_vars => ForwardInv'
    BY ForwardNext
<1> QED BY <1>1, <1>2, ForwardInit, PTL DEF Spec

\* No row of the table has a version that the server has not given to its key,
\* so an upload that conflicts was made on top of an older one: another device,
\* or an upload of this one whose answer was lost, came first.
THEOREM NotAheadCorrect == Spec => []NotAhead
<1>1. ForwardInv => NotAhead
    BY DEF ForwardInv
<1>2. ForwardInv /\ [Next]_vars => ForwardInv'
    BY ForwardNext
<1> QED BY <1>1, <1>2, ForwardInit, PTL DEF Spec

-----------------------------------------------------------------------------
(* A version names one value: what is in the batch or in the answer to an  *)
(* upload under the server's version is the server's value, and it goes to *)
(* the table as a whole.                                                   *)

SameValues ==
    /\ \A c \in batch :
            c.lastModified = server[c.key].lastModified => c.value = server[c.key].value
    /\ pc = "uploaded" /\ reply.lastModified = server[reply.key].lastModified =>
            reply.value = server[reply.key].value

SameInv == Typed /\ SameValues /\ SameVersionSameValue

\* A write makes a version that no row and no change in the batch has.
LEMMA SameWrite ==
    ASSUME SameInv, NEW key \in Keys, NEW value \in Texts, Write(key, value),
           UNCHANGED <<rows, batch>>
    PROVE  /\ server'[key] = [value |-> value, lastModified |-> clock + 1]
           /\ \A k \in Keys \ {key} : server'[k] = server[k]
           /\ \A c \in batch' :
                c.lastModified = server'[c.key].lastModified => c.value = server'[c.key].value
           /\ SameVersionSameValue'
<1>1. /\ server'[key] = [value |-> value, lastModified |-> clock + 1]
      /\ \A k \in Keys \ {key} : server'[k] = server[k]
    BY WriteType, Zenon DEF SameInv
<1>2. /\ clock \in Nat /\ rows \in [Keys -> Row \cup {None}]
      /\ \A k \in Keys : rows[k] # None => rows[k].lastModified <= clock
      /\ \A c \in batch : c.key \in Keys /\ c.lastModified \in 0 .. clock
    BY DEF SameInv, Typed, TypeOK, Versions, Change
<1>3. \A c \in batch' :
        c.lastModified = server'[c.key].lastModified => c.value = server'[c.key].value
    BY <1>1, <1>2 DEF SameInv, SameValues
<1>4. SameVersionSameValue'
    BY <1>1, <1>2 DEF SameInv, SameVersionSameValue
<1> QED BY <1>1, <1>3, <1>4

\* setRemoteValue() saves the value along with its version.
LEMMA SameSave ==
    ASSUME SameInv, NEW new \in Change, setRemoteValue(new), UNCHANGED server,
           new.lastModified = server[new.key].lastModified => new.value = server[new.key].value
    PROVE  SameVersionSameValue'
<1>1. rows \in [Keys -> Row \cup {None}] /\ new.key \in Keys
    BY DEF SameInv, Typed, TypeOK, Change
<1>2. ASSUME NEW k \in Keys, k # new.key PROVE rows'[k] = rows[k]
    BY <1>1, <1>2 DEF setRemoteValue
<1>3. CASE rows[new.key] # None /\ rows[new.key].lastModified = new.lastModified
    <2>1. rows'[new.key] = rows[new.key]
        BY <1>1, <1>3 DEF setRemoteValue
    <2> QED BY <1>2, <2>1 DEF SameInv, SameVersionSameValue
<1>4. CASE ~(rows[new.key] # None /\ rows[new.key].lastModified = new.lastModified)
    <2>1. rows'[new.key] =
            [local |-> None, remote |-> new.value, lastModified |-> new.lastModified]
        BY <1>1, <1>4 DEF setRemoteValue
    <2> QED BY <1>2, <2>1 DEF SameInv, SameVersionSameValue
<1> QED BY <1>3, <1>4

\* In the beginning there are no rows.
LEMMA SameInit == Init => SameInv
<1> SUFFICES ASSUME Init PROVE SameInv
    OBVIOUS
<1>1. SameValues /\ SameVersionSameValue
    BY DEF Init, SameValues, SameVersionSameValue
<1> QED BY <1>1, TypeInit DEF SameInv

\* Every step keeps the values of the versions.
LEMMA SameNext == SameInv /\ [Next]_vars => SameInv'
<1> SUFFICES ASSUME SameInv, [Next]_vars PROVE SameInv'
    OBVIOUS
<1>1. Typed'
    BY TypeNext DEF SameInv
<1> SUFFICES SameValues' /\ SameVersionSameValue'
    BY <1>1 DEF SameInv
<1>2. /\ rows \in [Keys -> Row \cup {None}] /\ batch \subseteq Change /\ todo \subseteq Change
      /\ pc = "uploaded" => reply \in Change
      /\ \A c \in Change : c.key \in Keys /\ c.value \in Texts
    BY DEF SameInv, Typed, TypeOK, Change
<1>3. ASSUME UNCHANGED <<server, rows>>, batch' \subseteq batch,
             pc' = "uploaded" => pc = "uploaded" /\ reply' = reply
      PROVE  SameValues' /\ SameVersionSameValue'
    <2>1. SameVersionSameValue'
        BY <1>3 DEF SameInv, SameVersionSameValue
    <2> QED BY <1>3, <2>1 DEF SameInv, SameValues
<1>4. CASE UNCHANGED vars
    BY <1>3, <1>4 DEF vars, remote, syncer
<1>5. ASSUME NEW k \in Keys, NEW value \in Values, RemoteChange(k, value)
      PROVE  SameValues' /\ SameVersionSameValue'
    <2>1. Write(k, value) /\ value \in Texts /\ UNCHANGED <<rows, batch, pc, reply>>
        BY <1>5 DEF RemoteChange, syncer, Texts
    <2>2. /\ server'[k] = [value |-> value, lastModified |-> clock + 1]
          /\ \A j \in Keys \ {k} : server'[j] = server[j]
          /\ \A c \in batch' :
                c.lastModified = server'[c.key].lastModified => c.value = server'[c.key].value
          /\ SameVersionSameValue'
        BY <2>1, SameWrite, Zenon
    <2>3. pc = "uploaded" =>
            reply.key \in Keys /\ clock \in Nat /\ reply.lastModified \in 0 .. clock
        BY <1>2 DEF SameInv, Typed, TypeOK, Versions, Change
    <2>4. pc' = "uploaded" /\ reply'.lastModified = server'[reply'.key].lastModified =>
            reply'.value = server'[reply'.key].value
        BY <2>1, <2>2, <2>3 DEF SameInv, SameValues
    <2> QED BY <2>2, <2>4 DEF SameValues
<1>6. ASSUME NEW k \in Keys, NEW value \in Values, Set(k, value)
      PROVE  SameValues' /\ SameVersionSameValue'
    <2>1. /\ setLocalValue(k, value)
          /\ UNCHANGED <<server, batch, pc, reply>>
        BY <1>6 DEF Set, remote, syncer
    <2>2. ASSUME NEW j \in Keys, rows'[j] # None, rows'[j].lastModified > 0
          PROVE  /\ rows[j] # None /\ rows'[j].remote = rows[j].remote
                 /\ rows'[j].lastModified = rows[j].lastModified
        BY <1>2, <2>1, <2>2 DEF setLocalValue, Row
    <2>3. SameVersionSameValue'
        BY <2>1, <2>2 DEF SameInv, SameVersionSameValue
    <2> QED BY <2>1, <2>3 DEF SameInv, SameValues
<1>7. CASE Notify
    BY <1>3, <1>7 DEF Notify, remote, syncer
<1>8. CASE DownloadChanges
    <2>1. UNCHANGED <<server, rows>> /\ pc' = "apply" /\ batch' = Changed(latestSync)
        BY <1>8 DEF DownloadChanges, remote
    <2>2. \A c \in batch' : c.value = server[c.key].value
        BY <2>1 DEF Changed
    <2>3. SameVersionSameValue'
        BY <2>1 DEF SameInv, SameVersionSameValue
    <2> QED BY <2>1, <2>2, <2>3 DEF SameValues
<1>9. CASE ApplyRemote
    <2> PICK c \in batch : setRemoteValue(c) /\ batch' = batch \ {c}
        BY <1>9 DEF ApplyRemote
    <2>1. UNCHANGED server /\ pc' = "apply"
        BY <1>9 DEF ApplyRemote, remote
    <2>2. c \in Change
        BY <1>2
    <2>3. c.lastModified = server[c.key].lastModified => c.value = server[c.key].value
        BY DEF SameInv, SameValues
    <2>4. SameVersionSameValue'
        BY <2>1, <2>2, <2>3, SameSave, Zenon
    <2> QED BY <2>1, <2>4 DEF SameInv, SameValues
<1>10. CASE UpdateLatestSync
    BY <1>3, <1>10 DEF UpdateLatestSync, remote
<1>11. CASE UploadChange
    <2> PICK c \in todo :
            IF Accepts(c.key, c.lastModified)
            THEN Write(c.key, c.value) /\ reply' = [c EXCEPT !.lastModified = clock + 1]
            ELSE UNCHANGED <<remote, reply, pc>>
        BY <1>11 DEF UploadChange
    <2>1. UNCHANGED <<rows, batch>> /\ c \in Change /\ c.key \in Keys /\ c.value \in Texts
        BY <1>2, <1>11 DEF UploadChange
    <2>2. CASE Accepts(c.key, c.lastModified)
        <3>1. Write(c.key, c.value) /\ reply' = [c EXCEPT !.lastModified = clock + 1]
            BY <2>2
        <3>2. /\ server'[c.key] = [value |-> c.value, lastModified |-> clock + 1]
              /\ \A j \in Keys \ {c.key} : server'[j] = server[j]
              /\ \A d \in batch' :
                    d.lastModified = server'[d.key].lastModified => d.value = server'[d.key].value
              /\ SameVersionSameValue'
            BY <2>1, <3>1, SameWrite, Zenon
        <3>3. reply'.key = c.key /\ reply'.value = c.value
            BY <2>1, <3>1 DEF Change
        <3> QED BY <3>2, <3>3 DEF SameValues
    <2>3. CASE ~Accepts(c.key, c.lastModified)
        BY <1>3, <2>1, <2>3 DEF remote
    <2> QED BY <2>2, <2>3
<1>12. CASE SaveUploaded
    <2>1. /\ pc = "uploaded" /\ setRemoteValue(reply) /\ pc' = "upload"
          /\ UNCHANGED <<server, batch>>
        BY <1>12 DEF SaveUploaded, remote
    <2>2. reply.lastModified = server[reply.key].lastModified =>
            reply.value = server[reply.key].value
        BY <2>1 DEF SameInv, SameValues
    <2>3. SameVersionSameValue'
        BY <1>2, <2>1, <2>2, SameSave, Zenon
    <2> QED BY <2>1, <2>3 DEF SameInv, SameValues
<1>13. CASE Finish \/ Fail \/ Restart
    BY <1>3, <1>13 DEF Finish, Fail, Restart, Leave, remote
<1>14. CASE Cancel
    BY <1>3, <1>14 DEF Cancel, remote
<1> QED BY <1>4, <1>5, <1>6, <1>7, <1>8, <1>9, <1>10, <1>11, <1>12, <1>13, <1>14 DEF Next, Run

\* A row under the server's version holds the server's value, whatever refused
\* uploads, lost answers and overtaken downloads came before.
THEOREM SameVersionSameValueCorrect == Spec => []SameVersionSameValue
<1>1. SameInv => SameVersionSameValue
    BY DEF SameInv
<1> QED BY <1>1, SameInit, SameNext, PTL DEF Spec

-----------------------------------------------------------------------------
(* The app shows what is stored, or an event is on its way.  This needs    *)
(* the user who waits: a local value is the one being uploaded, so the     *)
(* answer that takes it away stores the same value as the server's.        *)

Pending(k) == \E i \in 1 .. Len(events) : events[i] = k

ShownOrPending == ~missed => \A k \in Keys : shown[k] = Coalesced(rows[k]) \/ Pending(k)

UploadsAreCurrent ==
    /\ pc \in {"idle", "apply"} => todo = {}
    /\ pc # "uploaded" => reply = None
    /\ \A c \in todo : rows[c.key] # None /\ rows[c.key].local = c.value
    /\ \A c, d \in todo : c.key = d.key => c = d
    /\ pc = "uploaded" =>
        /\ rows[reply.key] # None /\ rows[reply.key].local = reply.value
        /\ \A c \in todo : c.key # reply.key

ShownInv == Typed /\ ~Hasty /\ UploadsAreCurrent /\ ShownOrPending

\* At first the app shows empty settings, and there are no rows.
LEMMA ShownInit == Init /\ ~Hasty => ShownInv
<1> SUFFICES ASSUME Init, ~Hasty PROVE ShownInv
    OBVIOUS
<1>1. UploadsAreCurrent
    BY DEF Init, UploadsAreCurrent
<1>2. ShownOrPending
    BY DEF Init, ShownOrPending, Coalesced
<1> QED BY <1>1, <1>2, TypeInit DEF ShownInv

\* A new event leaves the others on their way.
LEMMA PendingAppend ==
    ASSUME events \in Seq(Keys), NEW k \in Keys, events' = Append(events, k)
    PROVE  Pending(k)' /\ \A j \in Keys : Pending(j) => Pending(j)'
<1>1. /\ Len(events') = Len(events) + 1 /\ Len(events) \in Nat
      /\ events'[Len(events) + 1] = k
      /\ \A i \in 1 .. Len(events) : events'[i] = events[i]
    OBVIOUS
<1> QED BY <1>1 DEF Pending

\* Handling an event takes away that event only.
LEMMA PendingTail ==
    ASSUME events \in Seq(Keys), events # <<>>, events' = Tail(events)
    PROVE  /\ Head(events) \in Keys
           /\ \A j \in Keys : Pending(j) => j = Head(events) \/ Pending(j)'
<1>1. /\ Len(events) \in Nat /\ Len(events) > 0 /\ Len(events') = Len(events) - 1
      /\ Head(events) = events[1] /\ Head(events) \in Keys
      /\ \A i \in 1 .. Len(events) - 1 : events'[i] = events[i + 1]
    OBVIOUS
<1>2. ASSUME NEW j \in Keys, Pending(j), j # Head(events) PROVE Pending(j)'
    <2> PICK i \in 1 .. Len(events) : events[i] = j
        BY <1>2 DEF Pending
    <2>1. i - 1 \in 1 .. Len(events') /\ events'[i - 1] = j
        BY <1>1, <1>2
    <2> QED BY <2>1 DEF Pending
<1> QED BY <1>1, <1>2

\* What the run itself does: each row it changes is announced, or still shows
\* the same value.
LEMMA ShownRun == ShownInv /\ Run => UploadsAreCurrent' /\ ShownOrPending'
<1> SUFFICES ASSUME ShownInv, Run PROVE UploadsAreCurrent' /\ ShownOrPending'
    OBVIOUS
<1>1. /\ rows \in [Keys -> Row \cup {None}] /\ events \in Seq(Keys)
      /\ batch \subseteq Change /\ todo \subseteq Change
      /\ pc = "uploaded" => reply \in Change
      /\ \A c \in Change : c.key \in Keys /\ c.value \in Texts
    BY DEF ShownInv, Typed, TypeOK, Change
<1>2. ASSUME UNCHANGED <<rows, shown, events, missed>> PROVE ShownOrPending'
    BY <1>2 DEF ShownInv, ShownOrPending, Pending
<1>3. CASE DownloadChanges
    <2>1. UploadsAreCurrent'
        BY <1>3 DEF DownloadChanges, ShownInv, UploadsAreCurrent
    <2> QED BY <1>2, <1>3, <2>1 DEF DownloadChanges
<1>4. CASE ApplyRemote
    <2> PICK c \in batch :
            /\ setRemoteValue(c)
            /\ events' = IF cancelled THEN events ELSE Append(events, c.key)
        BY <1>4 DEF ApplyRemote
    <2>1. /\ pc = "apply" /\ UNCHANGED <<pc, todo, reply, shown>>
          /\ missed' = (missed \/ cancelled)
        BY <1>4 DEF ApplyRemote
    <2>2. UploadsAreCurrent'
        BY <2>1 DEF ShownInv, UploadsAreCurrent
    <2>3. CASE cancelled
        BY <2>1, <2>2, <2>3 DEF ShownOrPending
    <2>4. CASE ~cancelled
        <3>1. c.key \in Keys /\ events' = Append(events, c.key)
            BY <1>1, <2>4
        <3>2. Pending(c.key)' /\ \A j \in Keys : Pending(j) => Pending(j)'
            BY <1>1, <3>1, PendingAppend, Zenon
        <3>3. \A j \in Keys : j # c.key => rows'[j] = rows[j]
            BY <1>1, <3>1 DEF setRemoteValue
        <3>4. ASSUME NEW j \in Keys, ~missed
              PROVE  shown'[j] = Coalesced(rows[j])' \/ Pending(j)'
            <4>1. CASE j = c.key
                BY <3>2, <4>1
            <4>2. CASE j # c.key
                <5>1. Coalesced(rows[j])' = Coalesced(rows[j])
                    BY <3>3, <4>2 DEF Coalesced
                <5> QED BY <2>1, <3>2, <3>4, <5>1 DEF ShownInv, ShownOrPending
            <4> QED BY <4>1, <4>2
        <3>5. ShownOrPending'
            BY <2>1, <3>4 DEF ShownOrPending
        <3> QED BY <2>2, <3>5
    <2> QED BY <2>3, <2>4
<1>5. CASE UpdateLatestSync
    <2>1. todo' = LocalChanges /\ pc = "apply" /\ pc' = "upload" /\ UNCHANGED <<rows, reply>>
        BY <1>5 DEF UpdateLatestSync
    <2>2. ASSUME NEW c \in LocalChanges
          PROVE  /\ rows[c.key] # None /\ rows[c.key].local = c.value
                 /\ c = [key |-> c.key, value |-> rows[c.key].local,
                         lastModified |-> rows[c.key].lastModified]
        BY DEF LocalChanges
    <2>3. UploadsAreCurrent'
        BY <2>1, <2>2 DEF ShownInv, UploadsAreCurrent
    <2> QED BY <1>2, <1>5, <2>3 DEF UpdateLatestSync
<1>6. CASE UploadChange
    <2> PICK c \in todo :
            /\ todo' = todo \ {c}
            /\ IF Accepts(c.key, c.lastModified)
               THEN reply' = [c EXCEPT !.lastModified = clock + 1] /\ pc' = "uploaded"
               ELSE UNCHANGED <<remote, reply, pc>>
        BY <1>6 DEF UploadChange
    <2>1. pc = "upload" /\ UNCHANGED <<rows, shown, events, missed>> /\ c \in Change
        BY <1>1, <1>6 DEF UploadChange
    <2>2. CASE Accepts(c.key, c.lastModified)
        <3>1. pc' = "uploaded" /\ reply'.key = c.key /\ reply'.value = c.value
            BY <2>1, <2>2 DEF Change
        <3>2. UploadsAreCurrent'
            BY <2>1, <3>1 DEF ShownInv, UploadsAreCurrent
        <3> QED BY <1>2, <2>1, <3>2
    <2>3. CASE ~Accepts(c.key, c.lastModified)
        <3>1. UploadsAreCurrent'
            BY <2>1, <2>3 DEF ShownInv, UploadsAreCurrent
        <3> QED BY <1>2, <2>1, <3>1
    <2> QED BY <2>2, <2>3
<1>7. CASE SaveUploaded
    <2>1. /\ pc = "uploaded" /\ pc' = "upload" /\ setRemoteValue(reply) /\ reply' = None
          /\ UNCHANGED <<shown, events, todo, missed>>
        BY <1>7 DEF SaveUploaded
    <2>2. /\ reply \in Change /\ reply.key \in Keys /\ reply.value \in Texts
          /\ rows[reply.key] # None /\ rows[reply.key].local = reply.value
          /\ \A c \in todo : c.key \in Keys /\ c.key # reply.key
        BY <1>1, <2>1 DEF ShownInv, UploadsAreCurrent
    <2>3. \A j \in Keys : j # reply.key => rows'[j] = rows[j]
        BY <1>1, <2>1, <2>2 DEF setRemoteValue
    <2>4. UploadsAreCurrent'
        BY <2>1, <2>2, <2>3 DEF ShownInv, UploadsAreCurrent
    <2>5. None \notin Texts /\ None # [local |-> None, remote |-> reply.value,
                                       lastModified |-> reply.lastModified]
        <3>1. [local |-> None, remote |-> reply.value,
               lastModified |-> reply.lastModified] \in Row
            BY <2>2 DEF Row, Change
        <3> QED BY <3>1, NoneIsNoRecord, ProfileAssumption DEF Texts
    <2>6. Coalesced(rows[reply.key]) = reply.value
        BY <2>2, <2>5 DEF Coalesced
    <2>7. Coalesced(rows'[reply.key]) = reply.value
        <3>1. CASE rows[reply.key].lastModified = reply.lastModified
            <4>1. rows'[reply.key] = rows[reply.key]
                BY <1>1, <2>1, <2>2, <3>1 DEF setRemoteValue
            <4> QED BY <2>6, <4>1
        <3>2. CASE rows[reply.key].lastModified # reply.lastModified
            <4>1. rows'[reply.key] = [local |-> None, remote |-> reply.value,
                                      lastModified |-> reply.lastModified]
                BY <1>1, <2>1, <2>2, <3>2 DEF setRemoteValue
            <4> QED BY <2>2, <2>5, <4>1 DEF Coalesced
        <3> QED BY <3>1, <3>2
    <2>8. \A j \in Keys : Coalesced(rows'[j]) = Coalesced(rows[j])
        BY <2>3, <2>6, <2>7
    <2>9. ShownOrPending'
        BY <2>1, <2>8 DEF ShownInv, ShownOrPending, Pending
    <2> QED BY <2>4, <2>9
<1>8. CASE Finish
    <2>1. UploadsAreCurrent'
        BY <1>8 DEF Finish, Leave, UploadsAreCurrent
    <2> QED BY <1>2, <1>8, <2>1 DEF Finish
<1> QED BY <1>3, <1>4, <1>5, <1>6, <1>7, <1>8 DEF Run

\* Every step keeps what is shown, what is stored and the events in line.
LEMMA ShownNext == ShownInv /\ [Next]_vars => ShownInv'
<1> SUFFICES ASSUME ShownInv, [Next]_vars PROVE ShownInv'
    OBVIOUS
<1>1. Typed' /\ ~Hasty
    BY TypeNext DEF ShownInv
<1> SUFFICES UploadsAreCurrent' /\ ShownOrPending'
    BY <1>1 DEF ShownInv
<1>2. /\ rows \in [Keys -> Row \cup {None}] /\ shown \in [Keys -> Texts]
      /\ events \in Seq(Keys) /\ todo \subseteq Change
      /\ pc = "uploaded" => reply \in Change
      /\ \A c \in Change : c.key \in Keys
    BY DEF ShownInv, Typed, TypeOK, Change
<1>3. ASSUME UNCHANGED <<rows, pc, todo, reply>> PROVE UploadsAreCurrent'
    BY <1>3 DEF ShownInv, UploadsAreCurrent
<1>4. ASSUME UNCHANGED <<rows, shown, events, missed>> PROVE ShownOrPending'
    BY <1>4 DEF ShownInv, ShownOrPending, Pending
<1>5. CASE UNCHANGED vars
    BY <1>3, <1>4, <1>5 DEF vars, syncer
<1>6. ASSUME NEW k \in Keys, NEW value \in Values, RemoteChange(k, value)
      PROVE  UploadsAreCurrent' /\ ShownOrPending'
    BY <1>3, <1>4, <1>6 DEF RemoteChange, syncer
<1>7. ASSUME NEW k \in Keys, NEW value \in Values, Set(k, value)
      PROVE  UploadsAreCurrent' /\ ShownOrPending'
    <2>1. /\ ~InUpload(k) /\ setLocalValue(k, value)
          /\ shown' = [shown EXCEPT ![k] = value]
          /\ UNCHANGED <<pc, todo, reply, events, missed>>
        BY <1>1, <1>7 DEF Set, syncer
    <2>2. \A j \in Keys \ {k} : rows'[j] = rows[j]
        BY <1>2, <2>1 DEF setLocalValue
    <2>3. (\A c \in todo : c.key # k) /\ (pc = "uploaded" => reply.key # k)
        BY <2>1, <1>2, NoneIsNoRecord DEF InUpload
    <2>4. UploadsAreCurrent'
        BY <1>2, <2>1, <2>2, <2>3 DEF ShownInv, UploadsAreCurrent
    <2>5. Coalesced(rows'[k]) = value
        <3>1. value # None
            BY ProfileAssumption
        <3>2. rows'[k] \in Row /\ rows'[k].local = value
            BY <1>2, <2>1 DEF setLocalValue, Row, Texts
        <3>3. rows'[k] # None
            BY <3>2, NoneIsNoRecord
        <3> QED BY <3>1, <3>2, <3>3 DEF Coalesced
    <2>6. shown'[k] = value /\ \A j \in Keys \ {k} : shown'[j] = shown[j]
        BY <1>2, <2>1
    <2>7. ASSUME NEW j \in Keys, ~missed
          PROVE  shown'[j] = Coalesced(rows'[j]) \/ Pending(j)'
        <3>1. CASE j = k
            BY <2>5, <2>6, <3>1
        <3>2. CASE j # k
            <4>1. Pending(j)' = Pending(j) /\ rows'[j] = rows[j] /\ shown'[j] = shown[j]
                BY <2>1, <2>2, <2>6, <3>2 DEF Pending
            <4>2. shown[j] = Coalesced(rows[j]) \/ Pending(j)
                BY <2>7 DEF ShownInv, ShownOrPending
            <4> QED BY <4>1, <4>2
        <3> QED BY <3>1, <3>2
    <2>8. ShownOrPending'
        BY <2>1, <2>7 DEF ShownOrPending
    <2> QED BY <2>4, <2>8
<1>8. CASE Notify
    <2>1. /\ events # <<>> /\ events' = Tail(events)
          /\ shown' = [shown EXCEPT ![Head(events)] = Coalesced(rows[Head(events)])]
          /\ UNCHANGED <<rows, pc, todo, reply, missed>>
        BY <1>8 DEF Notify, syncer
    <2>2. /\ Head(events) \in Keys
          /\ \A j \in Keys : Pending(j) => j = Head(events) \/ Pending(j)'
        BY <1>2, <2>1, PendingTail, Zenon
    <2>3. shown'[Head(events)] = Coalesced(rows[Head(events)])
          /\ \A j \in Keys : j # Head(events) => shown'[j] = shown[j]
        BY <1>2, <2>1, <2>2
    <2>4. ShownOrPending'
        BY <2>1, <2>2, <2>3 DEF ShownInv, ShownOrPending
    <2> QED BY <1>3, <2>1, <2>4
<1>9. CASE Run
    BY <1>9, ShownRun
<1>10. CASE Fail
    <2>1. UploadsAreCurrent'
        BY <1>10 DEF Fail, Leave, UploadsAreCurrent
    <2> QED BY <1>4, <1>10, <2>1 DEF Fail
<1>11. CASE Cancel
    BY <1>3, <1>4, <1>11 DEF Cancel
<1>12. CASE Restart
    <2>1. UploadsAreCurrent'
        BY <1>12 DEF Restart, Leave, UploadsAreCurrent
    <2>2. ShownOrPending'
        BY <1>12 DEF Restart, ShownOrPending
    <2> QED BY <2>1, <2>2
<1> QED BY <1>5, <1>6, <1>7, <1>8, <1>9, <1>10, <1>11, <1>12 DEF Next

\* If the user waits for a running upload, the app shows what is in the database
\* once UserSettingsImpl has handled all events and none was lost by a cancel.
THEOREM ShownIsStoredCorrect == Spec /\ ~Hasty => []ShownIsStored
<1>1. ShownInv => ShownIsStored
    <2> SUFFICES ASSUME ShownInv, events = <<>>, ~missed
                 PROVE  shown = [k \in Keys |-> Coalesced(rows[k])]
        BY DEF ShownIsStored
    <2>1. \A k \in Keys : shown[k] = Coalesced(rows[k])
        BY DEF ShownInv, ShownOrPending, Pending
    <2> QED BY <2>1 DEF ShownInv, Typed, TypeOK
<1> QED BY <1>1, ShownInit, ShownNext, PTL DEF Spec

-----------------------------------------------------------------------------
(* What becomes of a local value.  An upload of this device is in its own  *)
(* table, or its answer is being saved or was lost, so the next download   *)
(* finds the upload's version there and leaves the local value alone.      *)

OwnUploads ==
    /\ \A k \in Keys : server[k].lastModified \in mine =>
            \/ k \in unanswered
            \/ Taken(k)
            \/ pc = "uploaded" /\ reply.key = k
    /\ pc = "uploaded" /\ server[reply.key].lastModified \in mine =>
            reply.lastModified = server[reply.key].lastModified

OwnBatch ==
    /\ pc # "apply" => batch = {}
    /\ \A c, d \in batch : c.key = d.key => c = d
    /\ \A c \in batch : c.lastModified \in mine =>
            \/ c.key \in unanswered
            \/ rows[c.key] # None /\ rows[c.key].lastModified = c.lastModified
    /\ \A c \in batch : server[c.key].lastModified \in mine =>
            c.lastModified = server[c.key].lastModified

OwnInv == ShownInv /\ OwnUploads /\ OwnBatch

\* At first nothing was uploaded.
LEMMA OwnInit == Init /\ ~Hasty => OwnInv
<1> SUFFICES ASSUME Init, ~Hasty PROVE OwnInv
    OBVIOUS
<1>1. OwnUploads /\ OwnBatch
    BY DEF Init, OwnUploads, OwnBatch
<1> QED BY <1>1, ShownInit DEF OwnInv

\* Versions, as facts about the sets they are in.
LEMMA OwnTypes ==
    ASSUME OwnInv
    PROVE  /\ rows \in [Keys -> Row \cup {None}] /\ None \notin Row
           /\ clock \in Nat /\ mine \subseteq 1 .. clock /\ clock + 1 \notin mine
           /\ \A k \in Keys : server[k].lastModified \in 0 .. clock
           /\ batch \subseteq Change /\ todo \subseteq Change
           /\ pc = "uploaded" => reply \in Change
           /\ \A c \in Change : c.key \in Keys /\ c.value \in Texts
<1>1. clock \in Nat /\ mine \subseteq 1 .. clock
    BY DEF OwnInv, ShownInv, Typed, TypeOK
<1>2. \A k \in Keys : server[k].lastModified \in 0 .. clock
    BY DEF OwnInv, ShownInv, Typed, TypeOK, Entry
<1>3. clock + 1 \notin mine
    BY <1>1
<1> QED BY <1>1, <1>2, <1>3, NoneIsNoRecord DEF OwnInv, ShownInv, Typed, TypeOK, Change

\* A step that leaves uploads and batches alone, or ends them.
LEMMA OwnUnmoved ==
    ASSUME OwnInv, UNCHANGED <<server, mine>>, unanswered \subseteq unanswered',
           \A k \in Keys : rows[k] # None =>
                rows'[k] # None /\ rows'[k].lastModified = rows[k].lastModified,
           \/ UNCHANGED <<pc, batch, reply>>
           \/ /\ batch' = {} /\ pc' # "uploaded"
              /\ pc = "uploaded" => reply.key \in unanswered'
    PROVE  OwnUploads' /\ OwnBatch'
<1>1. \A k \in Keys : Taken(k) => Taken(k)'
    BY DEF Taken
<1>2. OwnUploads'
    BY <1>1 DEF OwnInv, OwnUploads
<1>3. \A c \in batch : c.key \in Keys
    BY OwnTypes
<1>4. OwnBatch'
    BY <1>3 DEF OwnInv, OwnBatch
<1> QED BY <1>2, <1>4

\* Another device writes a version that is none of this device's.
LEMMA OwnRemoteChange ==
    ASSUME OwnInv, NEW k \in Keys, NEW value \in Values, RemoteChange(k, value)
    PROVE  OwnUploads' /\ OwnBatch'
<1>1. /\ UNCHANGED <<mine, rows, pc, batch, reply, unanswered>>
      /\ value \in Texts /\ Write(k, value)
    BY DEF RemoteChange, syncer, Texts
<1>2. /\ server'[k].lastModified = clock + 1
      /\ \A j \in Keys \ {k} : server'[j] = server[j]
    <2>1. server'[k] = [value |-> value, lastModified |-> clock + 1]
        BY <1>1, WriteType, Zenon DEF OwnInv, ShownInv
    <2>2. \A j \in Keys \ {k} : server'[j] = server[j]
        BY <1>1, WriteType, Zenon DEF OwnInv, ShownInv
    <2> QED BY <2>1, <2>2
<1>3. clock + 1 \notin mine /\ \A c \in batch : c.key \in Keys
    BY OwnTypes
<1>4. OwnUploads'
    <2>1. ASSUME NEW j \in Keys, server'[j].lastModified \in mine
          PROVE  j # k /\ server'[j] = server[j]
        BY <1>2, <1>3, <2>1
    <2>2. pc = "uploaded" => reply.key \in Keys
        BY OwnTypes
    <2> QED BY <1>1, <2>1, <2>2 DEF OwnInv, OwnUploads, Taken
<1>5. OwnBatch'
    BY <1>1, <1>2, <1>3 DEF OwnInv, OwnBatch
<1> QED BY <1>4, <1>5

\* The download finds the versions of the server.
LEMMA OwnDownload ==
    ASSUME OwnInv, DownloadChanges PROVE OwnUploads' /\ OwnBatch'
<1>1. /\ pc = "idle" /\ pc' = "apply" /\ batch' = Changed(latestSync)
      /\ UNCHANGED <<server, mine, rows, reply, unanswered>>
    BY DEF DownloadChanges, remote
<1>2. \A k \in Keys : server[k].lastModified \in mine => k \in unanswered \/ Taken(k)
    BY <1>1 DEF OwnInv, OwnUploads
<1>3. OwnUploads'
    BY <1>1, <1>2 DEF OwnUploads, Taken
<1>4. \A c \in batch' : /\ c.key \in Keys
                        /\ c = [key |-> c.key, value |-> server[c.key].value,
                                lastModified |-> server[c.key].lastModified]
    BY <1>1 DEF Changed
<1>5. OwnBatch'
    BY <1>1, <1>2, <1>4 DEF OwnBatch, Taken
<1> QED BY <1>3, <1>5

\* Taking in a change brings the table to its version.
LEMMA OwnApply ==
    ASSUME OwnInv, ApplyRemote PROVE OwnUploads' /\ OwnBatch'
<1> PICK c \in batch : setRemoteValue(c) /\ batch' = batch \ {c}
    BY DEF ApplyRemote
<1>1. pc = "apply" /\ UNCHANGED <<server, mine, pc, reply, unanswered>>
    BY DEF ApplyRemote, remote
<1>2. /\ c.key \in Keys /\ rows'[c.key] # None
      /\ rows'[c.key].lastModified = c.lastModified
      /\ \A k \in Keys \ {c.key} : rows'[k] = rows[k]
    <2>1. /\ c.key \in Keys /\ rows'[c.key] \in Row
          /\ rows'[c.key].lastModified = c.lastModified
          /\ \A k \in Keys \ {c.key} : rows'[k] = rows[k]
        BY OwnTypes, RowTypes, Zenon DEF OwnInv, ShownInv, Typed
    <2> QED BY <2>1, NoneIsNoRecord
<1>3. OwnUploads'
    <2> SUFFICES ASSUME NEW k \in Keys, server[k].lastModified \in mine
                 PROVE  k \in unanswered \/ Taken(k)'
        BY <1>1 DEF OwnUploads
    <2>1. CASE k = c.key
        BY <1>1, <1>2, <2>1 DEF OwnInv, OwnBatch, Taken
    <2>2. CASE k # c.key
        BY <1>1, <1>2, <2>2 DEF OwnInv, OwnUploads, Taken
    <2> QED BY <2>1, <2>2
<1>4. \A d \in batch' : d \in batch /\ d.key \in Keys /\ d.key # c.key
    BY OwnTypes DEF OwnInv, OwnBatch
<1>5. OwnBatch'
    BY <1>1, <1>2, <1>4 DEF OwnInv, OwnBatch
<1> QED BY <1>3, <1>5

\* An upload makes a version of this device's, whose answer is saved next.
LEMMA OwnUpload ==
    ASSUME OwnInv, UploadChange PROVE OwnUploads' /\ OwnBatch'
<1> PICK c \in todo :
        IF Accepts(c.key, c.lastModified)
        THEN /\ Write(c.key, c.value)
             /\ mine' = mine \cup {clock + 1}
             /\ reply' = [c EXCEPT !.lastModified = clock + 1]
             /\ pc' = "uploaded"
        ELSE UNCHANGED <<remote, reply, pc>>
    BY DEF UploadChange
<1>1. pc = "upload" /\ batch = {} /\ UNCHANGED <<rows, batch, unanswered>>
    BY DEF UploadChange, OwnInv, OwnBatch
<1>2. c \in Change /\ c.key \in Keys /\ c.value \in Texts
    BY OwnTypes
<1>3. CASE Accepts(c.key, c.lastModified)
    <2>1. /\ Write(c.key, c.value) /\ mine' = mine \cup {clock + 1} /\ pc' = "uploaded"
          /\ reply'.key = c.key /\ reply'.lastModified = clock + 1
        BY <1>2, <1>3 DEF Change
    <2>2. /\ server'[c.key].lastModified = clock + 1
          /\ \A j \in Keys \ {c.key} : server'[j] = server[j]
        <3>1. server'[c.key] = [value |-> c.value, lastModified |-> clock + 1]
            BY <1>2, <2>1, WriteType, Zenon DEF OwnInv, ShownInv
        <3>2. \A j \in Keys \ {c.key} : server'[j] = server[j]
            BY <1>2, <2>1, WriteType, Zenon DEF OwnInv, ShownInv
        <3> QED BY <3>1, <3>2
    <2>3. OwnUploads'
        <3> SUFFICES ASSUME NEW j \in Keys, server'[j].lastModified \in mine', j # c.key
                     PROVE  j \in unanswered \/ Taken(j)'
            BY <1>1, <2>1, <2>2 DEF OwnUploads
        <3>1. server'[j] = server[j] /\ server[j].lastModified # clock + 1
            BY <2>2, OwnTypes
        <3> QED BY <1>1, <2>1, <3>1 DEF OwnInv, OwnUploads, Taken
    <2> QED BY <1>1, <2>3 DEF OwnBatch
<1>4. CASE ~Accepts(c.key, c.lastModified)
    <2>1. UNCHANGED <<server, mine, pc, reply>>
        BY <1>4 DEF remote
    <2> QED BY <1>1, <2>1, OwnUnmoved
<1> QED BY <1>3, <1>4

\* The answer brings the table to the version of the upload.
LEMMA OwnSave ==
    ASSUME OwnInv, SaveUploaded PROVE OwnUploads' /\ OwnBatch'
<1>1. /\ pc = "uploaded" /\ pc' = "upload" /\ batch = {} /\ setRemoteValue(reply)
      /\ UNCHANGED <<server, mine, batch, unanswered>>
    BY DEF SaveUploaded, remote, OwnInv, OwnBatch
<1>2. /\ reply.key \in Keys /\ rows'[reply.key] # None
      /\ rows'[reply.key].lastModified = reply.lastModified
      /\ \A k \in Keys \ {reply.key} : rows'[k] = rows[k]
    <2>1. /\ reply.key \in Keys /\ rows'[reply.key] \in Row
          /\ rows'[reply.key].lastModified = reply.lastModified
          /\ \A k \in Keys \ {reply.key} : rows'[k] = rows[k]
        BY <1>1, OwnTypes, RowTypes, Zenon DEF OwnInv, ShownInv, Typed
    <2> QED BY <2>1, NoneIsNoRecord
<1>3. OwnUploads'
    <2> SUFFICES ASSUME NEW k \in Keys, server[k].lastModified \in mine
                 PROVE  k \in unanswered \/ Taken(k)'
        BY <1>1 DEF OwnUploads
    <2>1. CASE k = reply.key
        BY <1>1, <1>2, <2>1 DEF OwnInv, OwnUploads, Taken
    <2>2. CASE k # reply.key
        BY <1>1, <1>2, <2>2 DEF OwnInv, OwnUploads, Taken
    <2> QED BY <2>1, <2>2
<1> QED BY <1>1, <1>3 DEF OwnBatch

LEMMA OwnNext == OwnInv /\ [Next]_vars => OwnInv'
<1> SUFFICES ASSUME OwnInv, [Next]_vars PROVE OwnUploads' /\ OwnBatch'
    BY ShownNext DEF OwnInv
<1>1. CASE UNCHANGED vars
    BY <1>1, OwnUnmoved DEF vars, remote, syncer
<1>2. ASSUME NEW k \in Keys, NEW value \in Values, RemoteChange(k, value)
      PROVE  OwnUploads' /\ OwnBatch'
    BY <1>2, OwnRemoteChange
<1>3. ASSUME NEW k \in Keys, NEW value \in Values, Set(k, value)
      PROVE  OwnUploads' /\ OwnBatch'
    <2>1. /\ setLocalValue(k, value)
          /\ UNCHANGED <<server, mine, pc, batch, reply, unanswered>>
        BY <1>3 DEF Set, remote, syncer
    <2>2. ASSUME NEW j \in Keys, rows[j] # None
          PROVE  rows'[j] # None /\ rows'[j].lastModified = rows[j].lastModified
        <3>1. rows \in [Keys -> Row \cup {None}] /\ rows[j] \in Row
            BY <2>2, OwnTypes
        <3>2. rows'[j].lastModified = rows[j].lastModified /\ rows'[j] \in Row
            BY <1>3, <2>1, <2>2, <3>1 DEF setLocalValue, Row, Texts
        <3> QED BY <3>2, NoneIsNoRecord
    <2> QED BY <2>1, <2>2, OwnUnmoved
<1>4. CASE Notify
    BY <1>4, OwnUnmoved DEF Notify, remote, syncer
<1>5. CASE DownloadChanges \/ ApplyRemote \/ UploadChange \/ SaveUploaded
    BY <1>5, OwnDownload, OwnApply, OwnUpload, OwnSave
<1>6. CASE UpdateLatestSync
    <2>1. /\ pc = "apply" /\ pc' = "upload" /\ batch' = {}
          /\ UNCHANGED <<server, mine, rows, unanswered>>
        BY <1>6 DEF UpdateLatestSync, remote
    <2> QED BY <2>1, OwnUnmoved
<1>7. CASE Finish \/ Fail \/ Restart
    <2>1. /\ batch' = {} /\ pc' # "uploaded" /\ UNCHANGED <<server, mine, rows>>
          /\ unanswered \subseteq unanswered'
          /\ pc = "uploaded" => reply.key \in unanswered'
        BY <1>7 DEF Finish, Fail, Restart, Leave, remote
    <2> QED BY <2>1, OwnUnmoved
<1>8. CASE Cancel
    BY <1>8, OwnUnmoved DEF Cancel, remote
<1> QED BY <1>1, <1>2, <1>3, <1>4, <1>5, <1>6, <1>7, <1>8 DEF Next, Run

\* "local_value is empty because it has either been pushed to the server or been
\* overwritten": if the user waits for a running upload, ProfileSyncer takes a
\* local value away only with the same value from the server, with a change
\* another device made, or for a key one of whose uploads was never answered.
THEOREM PushedOrOverwrittenCorrect == Spec /\ ~Hasty => PushedOrOverwritten
<1> DEFINE Kept ==
        \A k \in Keys :
          (rows[k] # None /\ rows[k].local # None /\ rows'[k].local = None) =>
              \/ rows'[k].remote = rows[k].local
              \/ k \in unanswered
              \/ \E change \in batch :
                    /\ change.key = k /\ change.lastModified \notin mine
                    /\ change \notin batch'
<1>1. OwnInv /\ [Next]_vars => [Kept]_vars
    <2> SUFFICES ASSUME OwnInv, [Next]_vars, NEW k \in Keys,
                        rows[k] # None, rows[k].local # None, rows'[k].local = None
                 PROVE  \/ rows'[k].remote = rows[k].local
                        \/ k \in unanswered
                        \/ \E change \in batch :
                              /\ change.key = k /\ change.lastModified \notin mine
                              /\ change \notin batch'
        OBVIOUS
    <2>1. /\ rows \in [Keys -> Row \cup {None}] /\ None \notin Texts
          /\ \A c \in Change : c.key \in Keys
          /\ rows[k] \in Row /\ rows'[k] # rows[k]
        BY OwnTypes, ProfileAssumption DEF Texts
    <2>2. CASE ApplyRemote
        <3> PICK c \in batch : setRemoteValue(c) /\ batch' = batch \ {c}
            BY <2>2 DEF ApplyRemote
        <3>1. c.key \in Keys
            BY <2>1, OwnTypes
        <3>2. k = c.key /\ rows[k].lastModified # c.lastModified
            BY <2>1, <3>1 DEF setRemoteValue
        <3>3. c.lastModified \in mine => k \in unanswered
            BY <3>2 DEF OwnInv, OwnBatch
        <3> QED BY <3>2, <3>3
    <2>3. CASE SaveUploaded
        <3>1. /\ pc = "uploaded" /\ setRemoteValue(reply) /\ reply.key \in Keys
              /\ rows[reply.key].local = reply.value
            BY <2>1, <2>3, OwnTypes DEF SaveUploaded, OwnInv, ShownInv, UploadsAreCurrent
        <3>2. /\ k = reply.key
              /\ rows'[k] = [local |-> None, remote |-> reply.value,
                             lastModified |-> reply.lastModified]
            BY <2>1, <3>1 DEF setRemoteValue
        <3> QED BY <3>1, <3>2
    <2>4. ASSUME NEW j \in Keys, NEW value \in Values, Set(j, value) PROVE FALSE
        <3>1. setLocalValue(j, value) /\ value # None
            BY <2>4, ProfileAssumption DEF Set
        <3>2. j = k /\ rows'[k] = [rows[k] EXCEPT !.local = value]
            BY <2>1, <3>1 DEF setLocalValue
        <3>3. rows'[k].local = value
            BY <2>1, <3>2 DEF Row
        <3> QED BY <3>1, <3>3
    <2>5. ASSUME UNCHANGED rows PROVE FALSE
        BY <2>1, <2>5
    <2>6. ASSUME NEW j \in Keys, NEW value \in Values, RemoteChange(j, value) PROVE FALSE
        BY <2>5, <2>6 DEF RemoteChange
    <2>7. CASE Notify \/ DownloadChanges \/ UpdateLatestSync \/ UploadChange \/ Finish
               \/ Fail \/ Cancel \/ Restart \/ UNCHANGED vars
        BY <2>5, <2>7 DEF Notify, DownloadChanges, UpdateLatestSync, UploadChange, Finish,
                          Fail, Cancel, Restart, vars
    <2> QED BY <2>2, <2>3, <2>4, <2>6, <2>7 DEF Next, Run
<1> QED BY <1>1, OwnInit, OwnNext, PTL DEF Spec, PushedOrOverwritten

=============================================================================
