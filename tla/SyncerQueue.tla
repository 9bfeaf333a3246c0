----------------------------- MODULE SyncerQueue ----------------------------
(***************************************************************************)
(* SyncerImpl (api_impl/syncerimpl.cpp): the queue of requested syncs, the *)
(* AsyncTaskImpl of the current one, and the threads that run the          *)
(* SyncerWorkers (api_impl/syncerworker.cpp).  A step is what is done      *)
(* under queueMutex_, or a step of a worker between two calls of its       *)
(* listener.  A worker copies its listener before it calls it, so that     *)
(* cancel() may come in between.                                           *)
(***************************************************************************)
EXTENDS Sequences, FiniteSets, Naturals

CONSTANTS
    None,       \* boost::none and nullptr
    Msgs,       \* ids of messages whose attachments may be requested
    Threads,    \* threads the task runner has, see Launch
    Hasty       \* does the app request syncs while a cancelled one is running?

Modes == {"SendOnly", "WithoutAttachments", "Everything"}   \* SyncMode
Full  == {"WithoutAttachments", "Everything"}
Jobs  == Modes \cup Msgs        \* SyncerRunWorker, or the attachments worker

ASSUME QueueAssumption ==
    /\ None \notin Jobs \cup Threads
    /\ Msgs \cap (Modes \cup {"send", "receive"}) = {}
    /\ Hasty \in BOOLEAN

VARIABLES
    enqueued,       \* enqueuedSync_
    downloads,      \* messageAttachmentDownloadQueue_
    running,        \* running_
    task,           \* the thread task_ stands for
    lastMode,       \* lastSyncMode_
    lastFullSync,   \* the job whose end lastFullSync_ is the time of
    phase,          \* where each thread is
    job,            \* and what it does
    cancelled,      \* shouldCancel_, and listener_ dropped
    callback        \* the last call of the app's SyncerListener

queueVars == <<enqueued, downloads, running, task, lastMode>>
vars == <<enqueued, downloads, running, task, lastMode, lastFullSync,
          phase, job, cancelled, callback>>

\* A thread that is "finishing" or "failing" has copied the listener.
Phases    == {"free", "new", "working", "finishing", "failing"}
Callbacks == {"none", "started", "finished", "error"}

\* The types, and each thread that runs has something to run.
TypeOK ==
    /\ enqueued \in Modes \cup {None}
    /\ downloads \in Seq(Msgs)
    /\ running \in BOOLEAN
    /\ task \in Threads \cup {None}
    /\ lastMode \in Modes \cup {None}
    /\ lastFullSync \in Jobs \cup {None}
    /\ phase \in [Threads -> Phases]
    /\ job \in [Threads -> Jobs \cup {None}]
    /\ \A w \in Threads : phase[w] # "free" => job[w] # None
    /\ cancelled \in [Threads -> BOOLEAN]
    /\ callback \in Callbacks

Init ==
    /\ enqueued = None
    /\ downloads = <<>>
    /\ running = FALSE
    /\ task = None
    /\ lastMode = None
    /\ lastFullSync = None
    /\ phase = [w \in Threads |-> "free"]
    /\ job = [w \in Threads |-> None]
    /\ cancelled = [w \in Threads |-> FALSE]
    /\ callback = "none"

-----------------------------------------------------------------------------
Launch(left, j) ==
    /\ running' = TRUE
    /\ \E w \in Threads :
        /\ phase[w] = "free"
        /\ phase' = [left EXCEPT ![w] = "new"]
        /\ job' = [job EXCEPT ![w] = j]
        /\ task' = w
        /\ cancelled' = [v \in Threads |-> v # w /\ (cancelled[v] \/ v = task)]
    /\ UNCHANGED callback

RunNextJob_Slip1(sync, queue, left) ==  \* the mode is kept for a download
    \/ /\ queue # <<>>
       /\ Launch(left, Head(queue))
       /\ enqueued' = sync /\ downloads' = Tail(queue) /\ UNCHANGED lastMode
    \/ /\ queue = <<>> /\ sync # None
       /\ Launch(left, sync)
       /\ enqueued' = None /\ downloads' = queue /\ lastMode' = sync
    \/ /\ queue = <<>> /\ sync = None
       /\ running' = FALSE
       /\ callback' = "finished"
       /\ phase' = left
       /\ enqueued' = sync /\ downloads' = queue
       /\ UNCHANGED <<task, lastMode, job, cancelled>>

\* runNextJobIfIdle() when idle: attachments first, then the sync.
RunNextJob(sync, queue, left) ==
    \/ /\ queue # <<>>
       /\ Launch(left, Head(queue))
       /\ enqueued' = sync /\ downloads' = Tail(queue) /\ lastMode' = None
    \/ /\ queue = <<>> /\ sync # None
       /\ Launch(left, sync)
       /\ enqueued' = None /\ downloads' = queue /\ lastMode' = sync
    \/ /\ queue = <<>> /\ sync = None
       /\ running' = FALSE
       /\ callback' = "finished"
       /\ phase' = left
       /\ enqueued' = sync /\ downloads' = queue
       /\ UNCHANGED <<task, lastMode, job, cancelled>>

RunNextJobIfIdle(sync, queue) ==
    IF running
    THEN /\ enqueued' = sync /\ downloads' = queue
         /\ UNCHANGED <<running, task, lastMode, phase, job, cancelled, callback>>
    ELSE RunNextJob(sync, queue, phase)

-----------------------------------------------------------------------------
(* The app.                                                                *)

AppMayRequest == Hasty \/ \A w \in Threads : cancelled[w] => phase[w] = "free"

\* What requestSync() leaves in the queue.
MergedSync(mode) ==
    CASE mode = "SendOnly" -> IF enqueued = None THEN mode ELSE enqueued
      [] mode = "WithoutAttachments" -> IF enqueued = "Everything" THEN enqueued ELSE mode
      [] OTHER -> mode

RequestSync_Slip(mode) ==       \* downloads are dropped by any sync
    /\ AppMayRequest
    /\ RunNextJobIfIdle(MergedSync(mode), <<>>)
    /\ UNCHANGED lastFullSync

RequestSync(mode) ==
    /\ AppMayRequest
    /\ RunNextJobIfIdle(MergedSync(mode), IF mode = "Everything" THEN <<>> ELSE downloads)
    /\ UNCHANGED lastFullSync

RequestDownloadingAttachmentsForMessage(m) ==
    /\ AppMayRequest
    /\ RunNextJobIfIdle(enqueued,
            IF enqueued = "Everything" \/ \E i \in DOMAIN downloads : downloads[i] = m
            THEN downloads ELSE Append(downloads, m))
    /\ UNCHANGED lastFullSync

\* Without a task_ the call dereferences a null pointer, nothing comes after.
Cancel ==
    /\ task # None
    /\ enqueued' = None
    /\ downloads' = <<>>
    /\ cancelled' = [cancelled EXCEPT ![task] = TRUE]
    /\ task' = None
    /\ running' = FALSE
    /\ UNCHANGED <<lastMode, lastFullSync, phase, job, callback>>

-----------------------------------------------------------------------------
(* The threads: SyncerWorker::work().                                      *)

Goto(w, p) == phase' = [phase EXCEPT ![w] = p]

Started(w) ==
    /\ phase[w] = "new"
    /\ Goto(w, "working")
    /\ callback' = IF cancelled[w] THEN callback ELSE "started"
    /\ UNCHANGED <<queueVars, lastFullSync, job, cancelled>>

\* doWork() returns or throws; the thread copies its listener, if it has one.
Succeed(w) ==
    /\ phase[w] = "working"
    /\ Goto(w, IF cancelled[w] THEN "free" ELSE "finishing")
    /\ UNCHANGED <<queueVars, lastFullSync, job, cancelled, callback>>

Throw(w) ==
    /\ phase[w] = "working"
    /\ Goto(w, IF cancelled[w] THEN "free" ELSE "failing")
    /\ UNCHANGED <<queueVars, lastFullSync, job, cancelled, callback>>

\* SyncCanceled
Quit(w) ==
    /\ phase[w] = "working"
    /\ cancelled[w]
    /\ Goto(w, "free")
    /\ UNCHANGED <<queueVars, lastFullSync, job, cancelled, callback>>

Finished_Slip(w) ==     \* the next job is not run
    /\ phase[w] = "finishing"
    /\ lastFullSync' = IF lastMode \in Full THEN job[w] ELSE lastFullSync
    /\ running' = FALSE
    /\ Goto(w, "free")
    /\ callback' = "finished"
    /\ UNCHANGED <<enqueued, downloads, task, lastMode, job, cancelled>>

Finished(w) ==
    /\ phase[w] = "finishing"
    /\ lastFullSync' = IF lastMode \in Full THEN job[w] ELSE lastFullSync
    /\ RunNextJob(enqueued, downloads, [phase EXCEPT ![w] = "free"])

Error(w) ==
    /\ phase[w] = "failing"
    /\ running' = FALSE
    /\ Goto(w, "free")
    /\ cancelled' = [v \in Threads |-> cancelled[v] \/ v = task]
    /\ callback' = "error"
    /\ UNCHANGED <<enqueued, downloads, task, lastMode, lastFullSync, job>>

-----------------------------------------------------------------------------
App ==
    \/ \E mode \in Modes : RequestSync(mode)
    \/ \E m \in Msgs : RequestDownloadingAttachmentsForMessage(m)
    \/ Cancel

Thread(w) ==
    Started(w) \/ Succeed(w) \/ Throw(w) \/ Quit(w) \/ Finished(w) \/ Error(w)

Next == App \/ \E w \in Threads : Thread(w)

Spec == Init /\ [][Next]_vars

\* Every thread is scheduled, and doWork() comes to an end.
FairSpec == Spec /\ \A w \in Threads : WF_vars(Thread(w))

-----------------------------------------------------------------------------
(* Properties.                                                             *)

\* What a job does: an Everything sync downloads the attachments of all messages.
Covers(j) ==
    CASE j = "SendOnly" -> {"send"}
      [] j = "WithoutAttachments" -> {"send", "receive"}
      [] j = "Everything" -> {"send", "receive"} \cup Msgs
      [] j \in Msgs -> {j}
      [] OTHER -> {}

Owed   == Covers(enqueued) \cup {downloads[i] : i \in DOMAIN downloads}
Active == IF running THEN Covers(job[task]) ELSE {}

Service == INSTANCE SyncService
    WITH Work <- {"send", "receive"} \cup Msgs, owed <- Owed, active <- Active

\* The queue implements the service: requests are merged, none is lost, also not
\* to what is running already, and the next sync begins only when the one before
\* has ended.
ImplementsService == Service!Spec

\* "Prevents multiple syncs from running in parallel".
OneAtATime ==
    \A v, w \in Threads : phase[v] = "working" /\ phase[w] = "working" => v = w

\* lastFullSync() is the end of a full sync, never of a download or a SendOnly
\* sync that ended while another mode was the last one started.
FullSyncIsFull == lastFullSync \in Full \cup {None}

\* What is asked for is begun, unless it is cancelled or an error reported: the
\* attachments always, the rest when the app does not ask for attachments for
\* ever, which go first.
Begun(k) == k \in Owed ~> k \notin Owed \/ callback = "error"

Served ==
    /\ \A m \in Msgs : Begun(m)
    /\ \/ []<><<\E m \in Msgs : RequestDownloadingAttachmentsForMessage(m)>>_vars
       \/ Begun("send") /\ Begun("receive")

=============================================================================
