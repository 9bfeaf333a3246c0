-------------------------- MODULE SyncerQueueProofs -------------------------
(***************************************************************************)
(* Theorems about SyncerQueue, for any messages and threads: its types and *)
(* the merging of downloads hold always; that it implements SyncService    *)
(* needs an app that asks for nothing while a sync that it cancelled still *)
(* runs.                                                                   *)
(***************************************************************************)
EXTENDS SyncerQueue, TLAPS

-----------------------------------------------------------------------------
(* The types.                                                              *)

LEMMA JobsAreSomething ==
    /\ Modes \subseteq Jobs /\ Msgs \subseteq Jobs /\ Modes \cap Msgs = {}
    /\ None \notin Jobs /\ None \notin Threads /\ Full \subseteq Modes
BY QueueAssumption DEF Jobs, Modes, Full

LEMMA MergedIsMode ==
    ASSUME NEW mode \in Modes, enqueued \in Modes \cup {None}
    PROVE  MergedSync(mode) \in Modes
BY DEF MergedSync, Modes

\* What is in the queue has its types when a request or an end goes through it.
LEMMA TypesOfRunNextJob ==
    ASSUME TypeOK, NEW sync \in Modes \cup {None}, NEW queue \in Seq(Msgs),
           NEW left \in [Threads -> Phases], RunNextJob(sync, queue, left),
           \A w \in Threads : left[w] # "free" => job[w] # None,
           lastFullSync' \in Jobs \cup {None}
    PROVE  TypeOK'
<1> USE JobsAreSomething
<1>1. ASSUME NEW j \in Jobs, Launch(left, j),
             enqueued' \in Modes \cup {None}, downloads' \in Seq(Msgs),
             lastMode' \in Modes \cup {None}
      PROVE  TypeOK'
    <2>1. PICK w \in Threads :
              /\ phase' = [left EXCEPT ![w] = "new"]
              /\ job' = [job EXCEPT ![w] = j]
              /\ task' = w
              /\ cancelled' = [v \in Threads |-> v # w /\ (cancelled[v] \/ v = task)]
        BY <1>1 DEF Launch
    <2>2. cancelled' \in [Threads -> BOOLEAN]
        BY <2>1, Zenon
    <2>3. phase' \in [Threads -> Phases] /\ job' \in [Threads -> Jobs \cup {None}]
        BY <2>1 DEF TypeOK, Phases
    <2>4. \A v \in Threads : phase'[v] # "free" => job'[v] # None
        BY <2>1 DEF TypeOK
    <2>5. running' = TRUE /\ task' \in Threads /\ callback' = callback
        BY <1>1, <2>1 DEF Launch
    <2> QED BY <1>1, <2>2, <2>3, <2>4, <2>5 DEF TypeOK
<1>2. CASE queue # <<>> /\ Launch(left, Head(queue))
    <2>1. Head(queue) \in Msgs /\ Tail(queue) \in Seq(Msgs)
        BY <1>2
    <2>2. \/ enqueued' = sync /\ downloads' = Tail(queue) /\ lastMode' = None
          \/ queue = <<>>
        BY DEF RunNextJob
    <2> QED BY <1>1, <1>2, <2>1, <2>2
<1>3. CASE queue = <<>> /\ sync # None
    BY <1>1, <1>3 DEF RunNextJob
<1>4. CASE queue = <<>> /\ sync = None
    BY <1>4 DEF RunNextJob, TypeOK, Callbacks
<1> QED BY <1>2, <1>3, <1>4 DEF RunNextJob

LEMMA TypesOfRequest ==
    ASSUME TypeOK, NEW sync \in Modes \cup {None}, NEW queue \in Seq(Msgs),
           RunNextJobIfIdle(sync, queue), UNCHANGED lastFullSync
    PROVE  TypeOK'
<1>1. CASE running
    BY <1>1 DEF RunNextJobIfIdle, TypeOK
<1>2. CASE ~running
    BY <1>2, TypesOfRunNextJob DEF RunNextJobIfIdle, TypeOK
<1> QED BY <1>1, <1>2

LEMMA TypeInit == Init => TypeOK
<1> SUFFICES ASSUME Init PROVE TypeOK
    OBVIOUS
<1>1. cancelled \in [Threads -> BOOLEAN]
    BY Zenon DEF Init
<1>2. downloads \in Seq(Msgs)
    BY DEF Init
<1> QED BY <1>1, <1>2 DEF Init, TypeOK, Phases, Callbacks

LEMMA TypeNext == TypeOK /\ [Next]_vars => TypeOK'
<1> SUFFICES ASSUME TypeOK, [Next]_vars PROVE TypeOK'
    OBVIOUS
<1>0. CASE UNCHANGED vars
    BY <1>0 DEF vars, TypeOK
<1>1. ASSUME NEW mode \in Modes, RequestSync(mode) PROVE TypeOK'
    <2>1. MergedSync(mode) \in Modes /\ (IF mode = "Everything" THEN <<>> ELSE downloads) \in Seq(Msgs)
        BY MergedIsMode DEF TypeOK
    <2> QED BY <1>1, <2>1, TypesOfRequest DEF RequestSync
<1>2. ASSUME NEW m \in Msgs, RequestDownloadingAttachmentsForMessage(m) PROVE TypeOK'
    <2> DEFINE queue == IF enqueued = "Everything" \/ \E i \in DOMAIN downloads : downloads[i] = m
                        THEN downloads ELSE Append(downloads, m)
    <2>1. queue \in Seq(Msgs) /\ enqueued \in Modes \cup {None}
        BY DEF TypeOK
    <2>2. RunNextJobIfIdle(enqueued, queue) /\ UNCHANGED lastFullSync
        BY <1>2 DEF RequestDownloadingAttachmentsForMessage
    <2> QED BY <2>1, <2>2, TypesOfRequest
<1>3. CASE Cancel
    <2>1. cancelled' \in [Threads -> BOOLEAN]
        <3>1. cancelled \in [Threads -> BOOLEAN] /\ cancelled' = [cancelled EXCEPT ![task] = TRUE]
            BY <1>3 DEF Cancel, TypeOK
        <3> QED BY <3>1, Zenon
    <2>2. downloads' \in Seq(Msgs)
        BY <1>3 DEF Cancel
    <2> QED BY <1>3, <2>1, <2>2 DEF Cancel, TypeOK
<1>4. ASSUME NEW w \in Threads, Started(w) \/ Succeed(w) \/ Throw(w) \/ Quit(w) PROVE TypeOK'
    BY <1>4 DEF Started, Succeed, Throw, Quit, Goto, queueVars, TypeOK, Phases, Callbacks
<1>5. ASSUME NEW w \in Threads, Finished(w) PROVE TypeOK'
    <2> DEFINE left == [phase EXCEPT ![w] = "free"]
    <2>1. left \in [Threads -> Phases] /\ \A v \in Threads : left[v] # "free" => job[v] # None
        BY DEF TypeOK, Phases
    <2>2. RunNextJob(enqueued, downloads, left)
        BY <1>5 DEF Finished
    <2>3. lastFullSync' \in Jobs \cup {None}
        BY <1>5 DEF Finished, TypeOK
    <2>4. enqueued \in Modes \cup {None} /\ downloads \in Seq(Msgs)
        BY DEF TypeOK
    <2> HIDE DEF left
    <2> QED BY <2>1, <2>2, <2>3, <2>4, TypesOfRunNextJob
<1>6. ASSUME NEW w \in Threads, Error(w) PROVE TypeOK'
    BY <1>6 DEF Error, Goto, TypeOK, Phases, Callbacks
<1> QED BY <1>0, <1>1, <1>2, <1>3, <1>4, <1>5, <1>6 DEF Next, App, Thread

\* The members of SyncerImpl and the threads have their types, whatever the app
\* asks for and when.
THEOREM TypeCorrect == Spec => []TypeOK
BY TypeInit, TypeNext, PTL DEF Spec

-----------------------------------------------------------------------------
(* The queue.                                                              *)

Queued(queue) == {queue[i] : i \in DOMAIN queue}

\* No message is asked for twice, and none beside a sync of everything.
Merged(sync, queue) ==
    /\ \A i, k \in DOMAIN queue : queue[i] = queue[k] => i = k
    /\ sync = "Everything" => queue = <<>>

LEMMA AppendedMessage ==
    ASSUME NEW queue \in Seq(Msgs), NEW m \in Msgs, m \notin Queued(queue)
    PROVE  /\ Queued(Append(queue, m)) = Queued(queue) \cup {m}
           /\ \A sync : sync # "Everything" /\ Merged(sync, queue) => Merged(sync, Append(queue, m))
<1> DEFINE longer == Append(queue, m)
<1>1. /\ DOMAIN longer = 1 .. Len(queue) + 1 /\ DOMAIN queue = 1 .. Len(queue) /\ Len(queue) \in Nat
      /\ longer[Len(queue) + 1] = m /\ \A i \in 1 .. Len(queue) : longer[i] = queue[i]
    OBVIOUS
<1>2. \A i \in DOMAIN longer : i \in DOMAIN queue \/ i = Len(queue) + 1
    BY <1>1
<1>3. \A i \in DOMAIN queue : i \in DOMAIN longer /\ longer[i] = queue[i] /\ queue[i] # m
    BY <1>1 DEF Queued
<1>4. Len(queue) + 1 \in DOMAIN longer
    BY <1>1
<1>5. Queued(longer) = Queued(queue) \cup {m}
    BY <1>1, <1>2, <1>3, <1>4, Zenon DEF Queued
<1>6. ASSUME NEW sync, sync # "Everything", Merged(sync, queue) PROVE Merged(sync, longer)
    <2> HIDE DEF longer
    <2> QED BY <1>1, <1>2, <1>3, <1>6, Zenon DEF Merged
<1> QED BY <1>5, <1>6

LEMMA TakenMessage ==
    ASSUME NEW queue \in Seq(Msgs), queue # <<>>, NEW sync, Merged(sync, queue)
    PROVE  /\ Head(queue) \in Queued(queue)
           /\ Queued(Tail(queue)) = Queued(queue) \ {Head(queue)}
           /\ Merged(sync, Tail(queue))
<1> DEFINE shorter == Tail(queue)
<1>1. /\ Len(queue) \in Nat /\ Len(queue) # 0
      /\ DOMAIN queue = 1 .. Len(queue) /\ DOMAIN shorter = 1 .. Len(queue) - 1
      /\ Head(queue) = queue[1]
      /\ \A i \in 1 .. Len(queue) - 1 : shorter[i] = queue[i + 1]
    OBVIOUS
<1>2. 1 \in DOMAIN queue /\ \A i \in DOMAIN shorter : i + 1 \in DOMAIN queue /\ i + 1 # 1
    BY <1>1
<1>3. \A i \in DOMAIN queue : i = 1 \/ (i - 1 \in DOMAIN shorter /\ shorter[i - 1] = queue[i])
    BY <1>1
<1>4. \A i, k \in DOMAIN queue : queue[i] = queue[k] => i = k
    BY DEF Merged
<1>5. sync # "Everything"
    BY DEF Merged
<1>6. Queued(shorter) \subseteq Queued(queue) \ {queue[1]}
    BY <1>1, <1>2, <1>4 DEF Queued
<1>7. Queued(queue) \ {queue[1]} \subseteq Queued(shorter)
    <2>1. ASSUME NEW i \in DOMAIN queue, queue[i] # queue[1] PROVE queue[i] \in Queued(shorter)
        <3>1. i - 1 \in DOMAIN shorter /\ shorter[i - 1] = queue[i]
            BY <1>3, <2>1
        <3> HIDE DEF shorter
        <3> QED BY <3>1, Zenon DEF Queued
    <2> HIDE DEF shorter
    <2> QED BY <2>1 DEF Queued
<1>8. \A i, k \in DOMAIN shorter : shorter[i] = shorter[k] => i = k
    BY <1>1, <1>2, <1>4
<1>9. queue[1] \in Queued(queue)
    BY <1>2 DEF Queued
<1> QED BY <1>1, <1>5, <1>6, <1>7, <1>8, <1>9 DEF Merged

\* What a request leaves in the queue is merged, and covers what was asked for.
LEMMA MergedRequest ==
    ASSUME TypeOK, Merged(enqueued, downloads), NEW mode \in Modes
    PROVE  LET queue == IF mode = "Everything" THEN <<>> ELSE downloads
           IN  queue \in Seq(Msgs) /\ Merged(MergedSync(mode), queue)
<1> DEFINE queue == IF mode = "Everything" THEN <<>> ELSE downloads
<1>1. queue \in Seq(Msgs)
    BY DEF TypeOK
<1>2. CASE mode = "Everything"
    <2>1. queue = <<>> /\ DOMAIN queue = {}
        BY <1>2
    <2> QED BY <1>1, <2>1 DEF Merged
<1>3. CASE mode # "Everything"
    <2>1. MergedSync(mode) = "Everything" => enqueued = "Everything"
        BY <1>3 DEF MergedSync, Modes
    <2> QED BY <1>1, <1>3, <2>1 DEF Merged
<1> QED BY <1>2, <1>3

Requested(m) ==
    IF enqueued = "Everything" \/ \E i \in DOMAIN downloads : downloads[i] = m
    THEN downloads ELSE Append(downloads, m)

LEMMA MergedDownload ==
    ASSUME TypeOK, Merged(enqueued, downloads), NEW m \in Msgs
    PROVE  Requested(m) \in Seq(Msgs) /\ Merged(enqueued, Requested(m))
<1>1. downloads \in Seq(Msgs)
    BY DEF TypeOK
<1>2. CASE enqueued = "Everything" \/ m \in Queued(downloads)
    <2>1. Requested(m) = downloads
        BY <1>2 DEF Requested, Queued
    <2> QED BY <1>1, <2>1
<1>3. CASE enqueued # "Everything" /\ m \notin Queued(downloads)
    <2>1. Requested(m) = Append(downloads, m)
        BY <1>3 DEF Requested, Queued
    <2> QED BY <1>1, <1>3, <2>1, AppendedMessage
<1> QED BY <1>2, <1>3

LEMMA MergedRunNextJob ==
    ASSUME NEW sync, NEW queue \in Seq(Msgs), Merged(sync, queue), NEW left, RunNextJob(sync, queue, left)
    PROVE  Merged(enqueued, downloads)'
<1>1. CASE queue # <<>>
    BY <1>1, TakenMessage DEF RunNextJob
<1>2. CASE queue = <<>>
    <2>1. downloads' = queue /\ DOMAIN queue = {}
        BY <1>2 DEF RunNextJob
    <2> QED BY <1>2, <2>1 DEF Merged
<1> QED BY <1>1, <1>2

LEMMA MergedNext ==
    ASSUME TypeOK, Merged(enqueued, downloads), [Next]_vars
    PROVE  Merged(enqueued, downloads)'
<1>a. ASSUME NEW sync, NEW queue \in Seq(Msgs), Merged(sync, queue), RunNextJobIfIdle(sync, queue)
      PROVE  Merged(enqueued, downloads)'
    BY <1>a, MergedRunNextJob DEF RunNextJobIfIdle
<1>b. ASSUME UNCHANGED <<enqueued, downloads>> PROVE Merged(enqueued, downloads)'
    BY <1>b
<1>1. ASSUME NEW mode \in Modes, RequestSync(mode) PROVE Merged(enqueued, downloads)'
    <2> DEFINE queue == IF mode = "Everything" THEN <<>> ELSE downloads
    <2>1. RunNextJobIfIdle(MergedSync(mode), queue)
        BY <1>1 DEF RequestSync
    <2>2. queue \in Seq(Msgs) /\ Merged(MergedSync(mode), queue)
        BY MergedRequest
    <2> HIDE DEF queue
    <2> QED BY <1>a, <2>1, <2>2
<1>2. ASSUME NEW m \in Msgs, RequestDownloadingAttachmentsForMessage(m) PROVE Merged(enqueued, downloads)'
    <2>1. RunNextJobIfIdle(enqueued, Requested(m))
        BY <1>2 DEF RequestDownloadingAttachmentsForMessage, Requested
    <2>2. Requested(m) \in Seq(Msgs) /\ Merged(enqueued, Requested(m))
        BY MergedDownload
    <2> QED BY <1>a, <2>1, <2>2
<1>3. CASE Cancel
    <2>1. enqueued' = None /\ downloads' = <<>> /\ DOMAIN downloads' = {}
        BY <1>3 DEF Cancel
    <2> QED BY <2>1 DEF Merged
<1>4. ASSUME NEW w \in Threads, Finished(w) PROVE Merged(enqueued, downloads)'
    BY <1>4, MergedRunNextJob DEF Finished, TypeOK
<1>5. ASSUME NEW w \in Threads, Started(w) \/ Succeed(w) \/ Throw(w) \/ Quit(w) \/ Error(w)
      PROVE  Merged(enqueued, downloads)'
    BY <1>5, <1>b DEF Started, Succeed, Throw, Quit, Error, queueVars
<1>6. CASE UNCHANGED vars
    BY <1>6, <1>b DEF vars
<1> QED BY <1>1, <1>2, <1>3, <1>4, <1>5, <1>6 DEF Next, App, Thread

\* No message is queued for a download twice, and none waits beside a sync of
\* everything, which downloads it anyway: whatever is asked for, in any order, also
\* while a cancelled sync still runs.
THEOREM MergedCorrect == Spec => []Merged(enqueued, downloads)
<1>1. Init => Merged(enqueued, downloads)
    <2> SUFFICES ASSUME Init PROVE Merged(enqueued, downloads)
        OBVIOUS
    <2>1. DOMAIN downloads = {} /\ downloads = <<>>
        BY DEF Init
    <2> QED BY <2>1 DEF Merged
<1>2. TypeOK /\ Merged(enqueued, downloads) /\ [Next]_vars => Merged(enqueued, downloads)'
    BY MergedNext
<1> QED BY <1>1, <1>2, TypeInit, TypeNext, PTL DEF Spec

-----------------------------------------------------------------------------
(* One sync at a time.                                                     *)

\* A thread that is busy is the one of the current task, or was cancelled with
\* it: then nothing is queued and the app asks for nothing until it is free.
OneBusy ==
    /\ \A v, w \in Threads : phase[v] # "free" /\ phase[w] # "free" => v = w
    /\ running => task \in Threads /\ phase[task] # "free" /\ ~cancelled[task]
    /\ ~running => \A w \in Threads :
          phase[w] # "free" => cancelled[w] /\ enqueued = None /\ downloads = <<>>

\* The mode is the one of the sync that is under way, or none for a download.
ModeOfJob ==
    \A w \in Threads : phase[w] # "free" /\ lastMode # None => job[w] = lastMode

InOrder == TypeOK /\ OneBusy /\ ModeOfJob /\ Merged(enqueued, downloads)

Quiet == ~Hasty /\ InOrder

LEMMA QuietInit == Init /\ ~Hasty => Quiet
<1> SUFFICES ASSUME Init, ~Hasty PROVE Quiet
    OBVIOUS
<1>1. OneBusy /\ ModeOfJob
    BY QueueAssumption DEF Init, OneBusy, ModeOfJob
<1>2. DOMAIN downloads = {} /\ enqueued = None
    BY DEF Init
<1>3. Merged(enqueued, downloads)
    BY <1>2 DEF Init, Merged
<1> QED BY <1>1, <1>3, TypeInit DEF Quiet, InOrder

\* The next job is taken when every thread is free.
LEMMA QuietRunNextJob ==
    ASSUME TypeOK, NEW sync \in Modes \cup {None}, NEW queue \in Seq(Msgs),
           NEW left, DOMAIN left = Threads,
           \A w \in Threads : left[w] = "free", RunNextJob(sync, queue, left)
    PROVE  OneBusy' /\ ModeOfJob'
<1> USE JobsAreSomething
<1>1. ASSUME NEW j \in Jobs, Launch(left, j), lastMode' \in {None, j}
      PROVE  OneBusy' /\ ModeOfJob'
    <2>1. PICK w \in Threads :
              /\ phase' = [left EXCEPT ![w] = "new"]
              /\ job' = [job EXCEPT ![w] = j]
              /\ task' = w
              /\ cancelled' = [v \in Threads |-> v # w /\ (cancelled[v] \/ v = task)]
        BY <1>1 DEF Launch
    <2>2. running'
        BY <1>1 DEF Launch
    <2>3. ~cancelled'[w]
        BY <2>1
    <2>4. \A v \in Threads : phase'[v] # "free" => v = w
        BY <2>1
    <2>5. phase'[w] # "free" /\ job'[w] = j
        BY <2>1 DEF TypeOK
    <2> QED BY <1>1, <2>1, <2>2, <2>3, <2>4, <2>5 DEF OneBusy, ModeOfJob
<1>2. CASE queue # <<>>
    <2>1. Launch(left, Head(queue)) /\ lastMode' = None
        BY <1>2 DEF RunNextJob
    <2>2. Head(queue) \in Msgs
        BY <1>2
    <2> QED BY <1>1, <1>2, <2>1, <2>2
<1>3. CASE queue = <<>> /\ sync # None
    <2>1. Launch(left, sync) /\ lastMode' = sync
        BY <1>3 DEF RunNextJob
    <2> QED BY <1>1, <1>3, <2>1
<1>4. CASE queue = <<>> /\ sync = None
    <2>1. phase' = left /\ running' = FALSE /\ enqueued' = sync /\ downloads' = queue
        BY <1>4 DEF RunNextJob
    <2> QED BY <2>1 DEF OneBusy, ModeOfJob
<1> QED BY <1>2, <1>3, <1>4

\* A request is merged while a sync runs, and begun at once when none does.
LEMMA QuietRequest ==
    ASSUME Quiet, AppMayRequest, NEW sync \in Modes \cup {None}, NEW queue \in Seq(Msgs),
           RunNextJobIfIdle(sync, queue)
    PROVE  OneBusy' /\ ModeOfJob'
<1>1. CASE running
    <2>1. /\ enqueued' = sync /\ downloads' = queue
          /\ UNCHANGED <<running, task, lastMode, phase, job, cancelled>>
        BY <1>1 DEF RunNextJobIfIdle
    <2> QED BY <1>1, <2>1 DEF Quiet, InOrder, OneBusy, ModeOfJob
<1>2. CASE ~running
    <2>1. DOMAIN phase = Threads /\ TypeOK /\ \A w \in Threads : phase[w] = "free"
        BY <1>2 DEF Quiet, InOrder, TypeOK, OneBusy, AppMayRequest
    <2>2. RunNextJob(sync, queue, phase)
        BY <1>2 DEF RunNextJobIfIdle
    <2> QED BY <2>1, <2>2, QuietRunNextJob
<1> QED BY <1>1, <1>2

LEMMA QuietFinished ==
    ASSUME Quiet, NEW w \in Threads, Finished(w)
    PROVE  OneBusy' /\ ModeOfJob'
<1> DEFINE left == [phase EXCEPT ![w] = "free"]
<1>1. /\ phase \in [Threads -> Phases] /\ enqueued \in Modes \cup {None}
      /\ downloads \in Seq(Msgs) /\ phase[w] = "finishing"
    BY DEF Quiet, InOrder, TypeOK, Finished
<1>2. \A v \in Threads : left[v] = "free"
    BY <1>1 DEF Quiet, InOrder, OneBusy
<1>3. DOMAIN left = Threads
    BY <1>1
<1>4. RunNextJob(enqueued, downloads, left) /\ TypeOK
    BY DEF Finished, Quiet, InOrder
<1> HIDE DEF left
<1> QED BY <1>1, <1>2, <1>3, <1>4, QuietRunNextJob

LEMMA QuietNext == Quiet /\ [Next]_vars => Quiet'
<1> SUFFICES ASSUME Quiet, [Next]_vars
             PROVE  OneBusy' /\ ModeOfJob'
    BY TypeNext, MergedNext DEF Quiet, InOrder
<1>a. TypeOK /\ Merged(enqueued, downloads)
    BY DEF Quiet, InOrder
<1>0. CASE UNCHANGED vars
    BY <1>0 DEF vars, Quiet, InOrder, OneBusy, ModeOfJob
<1>1. ASSUME NEW mode \in Modes, RequestSync(mode)
      PROVE  OneBusy' /\ ModeOfJob'
    <2> DEFINE queue == IF mode = "Everything" THEN <<>> ELSE downloads
    <2>1. AppMayRequest /\ RunNextJobIfIdle(MergedSync(mode), queue)
        BY <1>1 DEF RequestSync
    <2>2. MergedSync(mode) \in Modes
        BY <1>a, MergedIsMode DEF TypeOK
    <2>3. queue \in Seq(Msgs)
        BY <1>a DEF TypeOK
    <2> HIDE DEF queue
    <2> QED BY <2>1, <2>2, <2>3, QuietRequest
<1>2. ASSUME NEW m \in Msgs, RequestDownloadingAttachmentsForMessage(m)
      PROVE  OneBusy' /\ ModeOfJob'
    <2>1. AppMayRequest /\ RunNextJobIfIdle(enqueued, Requested(m))
        BY <1>2 DEF RequestDownloadingAttachmentsForMessage, Requested
    <2>2. Requested(m) \in Seq(Msgs) /\ enqueued \in Modes \cup {None}
        BY <1>a, MergedDownload DEF TypeOK
    <2> QED BY <2>1, <2>2, QuietRequest
<1>3. CASE Cancel
    <2>1. /\ enqueued' = None /\ downloads' = <<>> /\ running' = FALSE
          /\ cancelled' = [cancelled EXCEPT ![task] = TRUE]
          /\ UNCHANGED <<lastMode, phase, job>> /\ task \in Threads
        BY <1>3, <1>a DEF Cancel, TypeOK
    <2>2. \A w \in Threads : phase[w] # "free" => cancelled'[w]
        BY <2>1, <1>a DEF Quiet, InOrder, OneBusy, TypeOK
    <2> QED BY <2>1, <2>2 DEF Quiet, InOrder, OneBusy, ModeOfJob
<1>4. ASSUME NEW w \in Threads, Started(w) \/ Succeed(w) \/ Throw(w) \/ Quit(w)
      PROVE  OneBusy' /\ ModeOfJob'
    <2>1. /\ phase[w] # "free" /\ UNCHANGED <<enqueued, downloads, running, task, lastMode, job, cancelled>>
          /\ \E p \in Phases : phase' = [phase EXCEPT ![w] = p] /\ (p = "free" => cancelled[w])
        BY <1>4 DEF Started, Succeed, Throw, Quit, Goto, queueVars, Phases
    <2> QED BY <2>1, <1>a DEF Quiet, InOrder, OneBusy, ModeOfJob, TypeOK
<1>5. ASSUME NEW w \in Threads, Finished(w)
      PROVE  OneBusy' /\ ModeOfJob'
    BY <1>5, QuietFinished
<1>6. ASSUME NEW w \in Threads, Error(w)
      PROVE  OneBusy' /\ ModeOfJob'
    <2>1. /\ phase[w] # "free" /\ phase' = [phase EXCEPT ![w] = "free"] /\ running' = FALSE
          /\ UNCHANGED <<enqueued, downloads, lastMode, job>>
        BY <1>6 DEF Error, Goto
    <2>2. \A v \in Threads : phase'[v] = "free"
        BY <2>1, <1>a DEF Quiet, InOrder, OneBusy, TypeOK
    <2> QED BY <2>1, <2>2, <1>a DEF OneBusy, ModeOfJob
<1> QED BY <1>0, <1>1, <1>2, <1>3, <1>4, <1>5, <1>6 DEF Next, App, Thread

\* Two syncs never run in parallel.
THEOREM OneAtATimeCorrect == Spec /\ ~Hasty => []OneAtATime
<1>1. Quiet => OneAtATime
    BY DEF Quiet, InOrder, OneBusy, OneAtATime
<1> QED BY <1>1, QuietInit, QuietNext, PTL DEF Spec

\* lastFullSync() is the end of a full sync only: the mode that finished()
\* looks at is that of the job that has ended, also when it was cancelled.
THEOREM FullSyncIsFullCorrect == Spec /\ ~Hasty => []FullSyncIsFull
<1>1. Init => FullSyncIsFull
    BY DEF Init, FullSyncIsFull
<1>2. Quiet /\ FullSyncIsFull /\ [Next]_vars => FullSyncIsFull'
    <2> SUFFICES ASSUME Quiet, FullSyncIsFull, [Next]_vars PROVE FullSyncIsFull'
        OBVIOUS
    <2>1. CASE UNCHANGED lastFullSync
        BY <2>1 DEF FullSyncIsFull
    <2>2. ASSUME NEW w \in Threads, Finished(w) PROVE FullSyncIsFull'
        <3>1. lastMode \in Full => job[w] = lastMode
            BY <2>2, JobsAreSomething DEF Finished, Quiet, InOrder, ModeOfJob
        <3> QED BY <2>2, <3>1 DEF Finished, FullSyncIsFull
    <2> QED BY <2>1, <2>2 DEF Next, App, Thread, vars, RequestSync, Cancel, Started, Succeed, Throw,
                Quit, Error, RequestDownloadingAttachmentsForMessage
<1> QED BY <1>1, <1>2, QuietInit, QuietNext, PTL DEF Spec

-----------------------------------------------------------------------------
(* The service.                                                            *)

LEMMA WhatIsCovered ==
    /\ Covers(None) = {}
    /\ Covers("SendOnly") = {"send"}
    /\ Covers("WithoutAttachments") = {"send", "receive"}
    /\ Covers("Everything") = {"send", "receive"} \cup Msgs
    /\ \A m \in Msgs : Covers(m) = {m}
<1>1. /\ None \notin Msgs /\ None # "SendOnly" /\ None # "WithoutAttachments" /\ None # "Everything"
      /\ \A m \in Msgs : m # "SendOnly" /\ m # "WithoutAttachments" /\ m # "Everything"
    BY QueueAssumption DEF Jobs, Modes
<1> QED BY <1>1 DEF Covers

LEMMA JobsCover ==
    ASSUME NEW j \in Jobs
    PROVE  Covers(j) # {} /\ Covers(j) \subseteq {"send", "receive"} \cup Msgs
BY WhatIsCovered DEF Jobs, Modes

Asked(sync, queue) == Covers(sync) \cup Queued(queue)

LEMMA OwedIsAsked == Owed = Asked(enqueued, downloads) /\ Owed' = Asked(enqueued', downloads')
BY DEF Owed, Asked, Queued

\* What is taken from the queue is begun; nothing else leaves it.
LEMMA RunNextJobBegins ==
    ASSUME TypeOK, NEW sync \in Modes \cup {None}, NEW queue \in Seq(Msgs),
           Merged(sync, queue), NEW left, RunNextJob(sync, queue, left)
    PROVE  IF Asked(sync, queue) = {}
           THEN Active' = {} /\ Owed' = {}
           ELSE Service!Begin(Asked(sync, queue))
<1> USE JobsAreSomething
<1>1. ASSUME NEW j \in Jobs, Launch(left, j) PROVE Active' = Covers(j)
    BY <1>1 DEF Launch, TypeOK, Active
<1>2. CASE queue # <<>>
    <2>1. /\ Launch(left, Head(queue)) /\ enqueued' = sync /\ downloads' = Tail(queue)
        BY <1>2 DEF RunNextJob
    <2>2. /\ Head(queue) \in Msgs /\ Head(queue) \in Queued(queue)
          /\ Queued(Tail(queue)) = Queued(queue) \ {Head(queue)} /\ sync # "Everything"
        BY <1>2, TakenMessage DEF Merged
    <2>3. Covers(Head(queue)) = {Head(queue)} /\ Head(queue) \notin Covers(sync)
        BY <2>2, WhatIsCovered, QueueAssumption DEF Modes
    <2>4. Active' = {Head(queue)} /\ Owed' = Covers(sync) \cup Queued(Tail(queue))
        BY <1>1, <2>1, <2>2, <2>3, OwedIsAsked DEF Asked
    <2>5. Head(queue) \in Asked(sync, queue) /\ Owed' = Asked(sync, queue) \ {Head(queue)}
        BY <2>2, <2>3, <2>4 DEF Asked
    <2>6. {Head(queue)} \in (SUBSET Asked(sync, queue)) \ {{}}
        BY <2>5
    <2>7. Asked(sync, queue) # {} /\ Service!Begin(Asked(sync, queue))
        BY <2>4, <2>5, <2>6 DEF Service!Begin
    <2> QED BY <2>7
<1>3. CASE queue = <<>> /\ sync # None
    <2>1. Launch(left, sync) /\ enqueued' = None /\ downloads' = queue
        BY <1>3 DEF RunNextJob
    <2>2. Queued(queue) = {}
        BY <1>3 DEF Queued
    <2>3. sync \in Jobs /\ Active' = Covers(sync) /\ Covers(sync) # {}
        BY <1>1, <1>3, <2>1, JobsCover
    <2>4. Asked(sync, queue) = Covers(sync) /\ Owed' = {}
        BY <2>1, <2>2, WhatIsCovered, OwedIsAsked DEF Asked
    <2>5. Active' \in (SUBSET Asked(sync, queue)) \ {{}} /\ Owed' = Asked(sync, queue) \ Active'
        BY <2>3, <2>4
    <2>6. Service!Begin(Asked(sync, queue))
        BY <2>5 DEF Service!Begin
    <2> QED BY <2>3, <2>4, <2>6
<1>4. CASE queue = <<>> /\ sync = None
    <2>1. running' = FALSE /\ enqueued' = sync /\ downloads' = queue
        BY <1>4 DEF RunNextJob
    <2>2. Queued(queue) = {}
        BY <1>4 DEF Queued
    <2>3. Active' = {} /\ Owed' = {} /\ Asked(sync, queue) = {}
        BY <1>4, <2>1, <2>2, WhatIsCovered, OwedIsAsked DEF Asked, Active
    <2> QED BY <2>3
<1> QED BY <1>2, <1>3, <1>4

\* A request that leaves the queue with what it asked for, merged.
LEMMA RequestIsServed ==
    ASSUME Quiet, NEW sync \in Modes \cup {None}, NEW queue \in Seq(Msgs),
           Merged(sync, queue), RunNextJobIfIdle(sync, queue),
           NEW asked \in (SUBSET ({"send", "receive"} \cup Msgs)) \ {{}},
           Asked(sync, queue) = Owed \cup asked
    PROVE  Service!Next
<1>1. Service!Request(asked)
    <2>1. CASE running
        <3>1. enqueued' = sync /\ downloads' = queue /\ Active' = Active
            BY <2>1 DEF RunNextJobIfIdle, Active
        <3>2. Active # {}
            BY <2>1, JobsCover DEF Active, Quiet, InOrder, OneBusy, TypeOK
        <3> QED BY <3>1, <3>2, OwedIsAsked DEF Service!Request
    <2>2. CASE ~running
        <3>1. Active = {} /\ RunNextJob(sync, queue, phase) /\ TypeOK
            BY <2>2 DEF RunNextJobIfIdle, Active, Quiet, InOrder
        <3>2. Asked(sync, queue) # {}
            OBVIOUS
        <3>3. Service!Begin(Asked(sync, queue))
            BY <3>1, <3>2, RunNextJobBegins
        <3>4. Service!Begin(Owed \cup asked)
            BY <3>3
        <3> QED BY <3>1, <3>4 DEF Service!Request
    <2> QED BY <2>1, <2>2
<1> QED BY <1>1 DEF Service!Next

LEMMA ServiceNext == Quiet /\ [Next]_vars => [Service!Next]_<<Owed, Active>>
<1> SUFFICES ASSUME Quiet, [Next]_vars
             PROVE  Service!Next \/ (Owed' = Owed /\ Active' = Active)
    OBVIOUS
<1>a. TypeOK /\ Merged(enqueued, downloads)
    BY DEF Quiet, InOrder
<1>0. ASSUME UNCHANGED <<enqueued, downloads, running, task, job>>
      PROVE  Owed' = Owed /\ Active' = Active
    BY <1>0 DEF Owed, Active
<1>1. ASSUME NEW mode \in Modes, RequestSync(mode) PROVE Service!Next
    <2> DEFINE queue == IF mode = "Everything" THEN <<>> ELSE downloads
    <2>1. RunNextJobIfIdle(MergedSync(mode), queue)
        BY <1>1 DEF RequestSync
    <2>2. MergedSync(mode) \in Modes
        BY <1>a, MergedIsMode DEF TypeOK
    <2>3. queue \in Seq(Msgs) /\ Merged(MergedSync(mode), queue)
        BY <1>a, MergedRequest
    <2>4. Covers(mode) # {} /\ Covers(mode) \subseteq {"send", "receive"} \cup Msgs
        BY JobsAreSomething, JobsCover
    <2>5. Covers(MergedSync(mode)) \cup Queued(queue) = Covers(enqueued) \cup Queued(downloads) \cup Covers(mode)
        <3>1. Queued(<<>>) = {} /\ Queued(downloads) \subseteq Msgs
            BY <1>a DEF TypeOK, Queued
        <3>2. enqueued \in Modes \cup {None}
            BY <1>a DEF TypeOK
        <3>3. CASE mode = "Everything"
            BY <3>1, <3>2, <3>3, WhatIsCovered DEF MergedSync, Modes
        <3>4. CASE mode = "WithoutAttachments"
            BY <3>2, <3>4, WhatIsCovered DEF MergedSync, Modes
        <3>5. CASE mode = "SendOnly"
            BY <3>2, <3>5, WhatIsCovered DEF MergedSync, Modes
        <3> QED BY <3>3, <3>4, <3>5 DEF Modes
    <2>6. Asked(MergedSync(mode), queue) = Owed \cup Covers(mode)
        BY <2>5, OwedIsAsked DEF Asked
    <2> HIDE DEF queue
    <2> QED BY <2>1, <2>2, <2>3, <2>4, <2>6, RequestIsServed
<1>2. ASSUME NEW m \in Msgs, RequestDownloadingAttachmentsForMessage(m) PROVE Service!Next
    <2>1. RunNextJobIfIdle(enqueued, Requested(m))
        BY <1>2 DEF RequestDownloadingAttachmentsForMessage, Requested
    <2>2. Requested(m) \in Seq(Msgs) /\ Merged(enqueued, Requested(m)) /\ enqueued \in Modes \cup {None}
        BY <1>a, MergedDownload DEF TypeOK
    <2>3. Covers(enqueued) \cup Queued(Requested(m)) = Covers(enqueued) \cup Queued(downloads) \cup {m}
        <3>1. CASE enqueued = "Everything"
            BY <3>1, WhatIsCovered DEF Requested
        <3>2. CASE enqueued # "Everything" /\ m \in Queued(downloads)
            BY <3>2 DEF Requested, Queued
        <3>3. CASE enqueued # "Everything" /\ m \notin Queued(downloads)
            <4>1. Requested(m) = Append(downloads, m) /\ downloads \in Seq(Msgs)
                BY <3>3, <1>a DEF Requested, Queued, TypeOK
            <4> QED BY <3>3, <4>1, AppendedMessage
        <3> QED BY <3>1, <3>2, <3>3
    <2>4. Asked(enqueued, Requested(m)) = Owed \cup {m}
        BY <2>3, OwedIsAsked DEF Asked
    <2> QED BY <2>1, <2>2, <2>4, RequestIsServed
<1>3. CASE Cancel
    <2>1. enqueued' = None /\ downloads' = <<>> /\ running' = FALSE
        BY <1>3 DEF Cancel
    <2>2. Queued(<<>>) = {}
        BY DEF Queued
    <2>3. Owed' = {} /\ Active' = {}
        BY <2>1, <2>2, WhatIsCovered, OwedIsAsked DEF Asked, Active
    <2> QED BY <2>3 DEF Service!Next, Service!Cancel
<1>4. ASSUME NEW w \in Threads, Started(w) \/ Succeed(w) \/ Throw(w) \/ Quit(w)
      PROVE  Owed' = Owed /\ Active' = Active
    BY <1>0, <1>4 DEF Started, Succeed, Throw, Quit, queueVars
<1>5. ASSUME NEW w \in Threads, Finished(w)
      PROVE  Service!Next \/ (Owed' = Owed /\ Active' = Active)
    <2>1. /\ RunNextJob(enqueued, downloads, [phase EXCEPT ![w] = "free"]) /\ phase[w] # "free"
          /\ enqueued \in Modes \cup {None} /\ downloads \in Seq(Msgs)
        BY <1>5, <1>a DEF Finished, TypeOK
    <2>2. IF Owed = {} THEN Active' = {} /\ Owed' = {} ELSE Service!Begin(Owed)
        BY <1>a, <2>1, OwedIsAsked, RunNextJobBegins
    <2>3. CASE running
        <3>1. Active # {}
            BY <2>3, JobsCover DEF Active, Quiet, InOrder, OneBusy, TypeOK
        <3>2. Service!Finish
            BY <2>2, <3>1 DEF Service!Finish
        <3> QED BY <3>2 DEF Service!Next
    <2>4. CASE ~running
        <3>1. enqueued = None /\ downloads = <<>> /\ Active = {}
            BY <2>1, <2>4 DEF Quiet, InOrder, OneBusy, Active
        <3>2. Owed = {}
            BY <3>1, WhatIsCovered DEF Owed
        <3> QED BY <2>2, <3>1, <3>2
    <2> QED BY <2>3, <2>4
<1>6. ASSUME NEW w \in Threads, Error(w)
      PROVE  Service!Next \/ (Owed' = Owed /\ Active' = Active)
    <2>1. Owed' = Owed /\ Active' = {}
        BY <1>6 DEF Error, Owed, Active
    <2>2. Active # {} => Service!Error
        BY <2>1 DEF Service!Error
    <2> QED BY <2>1, <2>2 DEF Service!Next
<1> QED BY <1>0, <1>1, <1>2, <1>3, <1>4, <1>5, <1>6 DEF Next, App, Thread, vars

\* The queue implements the service: nothing that was asked for is lost by merging,
\* nothing is done twice or unasked, and a sync begins when the one before has ended.
THEOREM ImplementsServiceCorrect == Spec /\ ~Hasty => ImplementsService
<1>1. Init => Service!Init
    <2> SUFFICES ASSUME Init PROVE Owed = {} /\ Active = {}
        BY DEF Service!Init
    <2>1. DOMAIN downloads = {} /\ enqueued = None /\ running = FALSE
        BY DEF Init
    <2> QED BY <2>1, WhatIsCovered DEF Owed, Active
<1> QED BY <1>1, QuietInit, QuietNext, ServiceNext, PTL DEF Spec, ImplementsService, Service!Spec

=============================================================================
