----------------------------- MODULE AsyncTasks -----------------------------
(***************************************************************************)
(* Asynchronous tasks: StlTaskRunner and its list of futures, AsyncTaskImpl*)
(* with the Worker it starts, cancels and waits for, the workers of the API*)
(* that ask the server or the database and call a listener, and the one    *)
(* that starts another: ClientGenerateKeysWorker ("keys") leaves one of its*)
(* keys to ClientGenerateKeysSigningWorker ("sign").  Every worker runs in *)
(* a thread of its own; a step ends where another thread can see it.       *)
(***************************************************************************)
EXTENDS Naturals, FiniteSets

CONSTANTS
    None,
    Plain,              \* the workers beside the two that generate keys
    Threads,            \* threads of the app that wait for a task
    PRUNING_THRESHOLD

ASSUME TasksAssumption ==
    /\ None \notin Plain \cup {"keys", "sign"}
    /\ Plain \cap {"keys", "sign"} = {} /\ (Plain \cup {"keys", "sign"}) \cap Threads = {}
    /\ IsFiniteSet(Plain)
    /\ PRUNING_THRESHOLD \in Nat

\* The workers by what their work() does: does it answer its listener, catch all
\* exceptions, try again after a network error, look at a cancel at its start?
AddressExists    == [answers |-> TRUE, catches |-> TRUE, retries |-> FALSE, early |-> FALSE]
CheckCredentials == [answers |-> TRUE, catches |-> TRUE, retries |-> FALSE, early |-> FALSE]
CreateSession    == [answers |-> TRUE, catches |-> TRUE, retries |-> FALSE, early |-> FALSE]
RegisterAccount  == [answers |-> TRUE, catches |-> TRUE, retries |-> FALSE, early |-> FALSE]
AccountInfo      == [answers |-> TRUE, catches |-> TRUE, retries |-> FALSE, early |-> FALSE]
SaveTo           == [answers |-> TRUE, catches |-> TRUE, retries |-> FALSE, early |-> FALSE]
Content          == [answers |-> TRUE, catches |-> FALSE, retries |-> FALSE, early |-> FALSE]
Search           == [answers |-> TRUE, catches |-> FALSE, retries |-> FALSE, early |-> TRUE]
RegisterPushToken == [answers |-> FALSE, catches |-> TRUE, retries |-> TRUE, early |-> FALSE]

Kinds == {AddressExists, CheckCredentials, CreateSession, RegisterAccount, AccountInfo,
          SaveTo, Content, Search, RegisterPushToken}

VARIABLES
    kind,       \* of each plain worker
    pc,         \* where the thread of each worker is
    listener,   \* workers whose listener_ is set
    cancelled,  \* workers that were told to end
    finished,   \* Worker::isFinished_
    answers,    \* calls of the listener that end a task
    signature,  \* keypairSignature_ of "keys"
    futures,    \* StlTaskRunner::futures_
    unvisited,  \* those that the loop of wait() has not left behind
    raced,      \* have two threads met in the list?
    active,     \* StlTaskRunner::state_
    app,        \* where the app's thread is in the runner
    adding,     \* the worker it starts there
    waits,      \* the worker a thread blocks on in Worker::wait()
    awake       \* threads that were notified there

listVars == <<futures, unvisited, raced>>
runner  == <<listVars, active, app, adding>>
waiting == <<waits, awake>>
vars    == <<kind, pc, listener, cancelled, finished, answers, signature, runner, waiting>>

Started == Plain \cup {"keys"}          \* by the app
Workers == Started \cup {"sign"}
Waiters == Threads \cup {"keys"}

Idle      == {"new", "over", "dropped"}
Positions == Idle \cup {"begin", "request", "sleep", "call", "set", "notify",
                        "spawn", "append", "rest", "join", "check", "store", "report"}

\* The types; threads block on workers that are there, and "keys" on "sign" only.
TypeOK ==
    /\ kind \in [Plain -> Kinds]
    /\ pc \in [Workers -> Positions]
    /\ listener \subseteq Started /\ cancelled \subseteq Started /\ finished \subseteq Workers
    /\ answers \in [Started -> 0 .. 1]
    /\ signature \in BOOLEAN
    /\ futures \subseteq Workers /\ unvisited \subseteq Workers
    /\ raced \in BOOLEAN /\ active \in BOOLEAN
    /\ app \in {"out", "append", "wait", "clear", "stop"}
    /\ adding \in Started \cup {None} /\ (app = "append" <=> adding # None)
    /\ waits \in [Waiters -> Workers \cup {None}]
    /\ waits["keys"] \in {None, "sign"} /\ (waits["keys"] = "sign" => pc["keys"] = "join")
    /\ awake \subseteq {t \in Waiters : waits[t] # None}

Init ==
    /\ kind \in [Plain -> Kinds]
    /\ pc = [w \in Workers |-> "new"]
    /\ listener = {} /\ cancelled = {} /\ finished = {}
    /\ answers = [w \in Started |-> 0] /\ signature = FALSE
    /\ futures = {} /\ unvisited = {} /\ raced = FALSE
    /\ active = TRUE /\ app = "out" /\ adding = None
    /\ waits = [t \in Waiters |-> None] /\ awake = {}

Goto(w, l) == pc' = [pc EXCEPT ![w] = l]

\* A worker is owned by its thread, by the callable in the shared state of its
\* future, which is a local variable before it is in the list, and by the threads
\* that locked the weak_ptr to wait for it.
Alive(w) ==
    \/ pc[w] \notin Idle
    \/ w \in futures \/ w = adding \/ (w = "sign" /\ pc["keys"] = "append")
    \/ \E t \in Waiters : waits[t] = w

isDone(w) == ~Alive(w) \/ w \in finished

-----------------------------------------------------------------------------
(* StlTaskRunner.                                                          *)

\* Futures that are ready are erased when there are too many.
Pruned(fs) ==
    IF Cardinality(fs) > PRUNING_THRESHOLD THEN {w \in fs : pc[w] # "over"} ELSE fs

\* emplace_back() into a list that nothing guards.  When two threads are in it at
\* once, an entry can be lost.
Appended(w, contended) ==
    \/ futures' = Pruned(futures \cup {w}) /\ UNCHANGED raced
    \/ contended /\ raced' = TRUE /\ futures' \in {futures, Pruned(futures \cup {w})}

\* While the loop of wait() stands in the list, the new entry comes behind it;
\* but when pruning erases what the loop has not left behind, the one it stands on
\* included, it may find the end too early.
AppendedInLoop(w) ==
    LET all    == futures \cup {w}
        erased == all \ Pruned(all)
    IN  /\ futures' = Pruned(all)
        /\ \/ unvisited \cap erased = {} /\ unvisited' = unvisited \cup {w} /\ UNCHANGED raced
           \/ unvisited \cap erased # {} /\ unvisited' \in {{}, (unvisited \cup {w}) \ erased} /\ raced' = TRUE

\* The constructor of AsyncTaskImpl, called by the app; an inactive runner drops
\* the task.
Start(w) ==
    /\ app = "out" /\ pc[w] = "new"
    /\ IF active
       THEN /\ Goto(w, "begin") /\ app' = "append" /\ adding' = w
            /\ listener' = listener \cup {w}
       ELSE Goto(w, "dropped") /\ UNCHANGED <<app, adding, listener>>
    /\ UNCHANGED <<kind, cancelled, finished, answers, signature, listVars, active, waiting>>

\* The thread runs; its future is stored.
AppAppend_Slip ==
    /\ app = "append" /\ app' = "out"
    /\ Appended(adding, FALSE)
    /\ UNCHANGED <<kind, pc, listener, cancelled, finished, answers, signature, unvisited, active, adding, waiting>>
AppAppend ==
    /\ app = "append" /\ app' = "out" /\ adding' = None
    /\ Appended(adding, pc["keys"] = "append")
    /\ UNCHANGED <<kind, pc, listener, cancelled, finished, answers, signature, unvisited, active, waiting>>

\* wait(): the loop waits for one future after the other; clear(), whose
\* destructors block as well, and the state come behind it.
wait ==
    /\ app = "out" /\ active /\ app' = "wait" /\ unvisited' = futures
    /\ UNCHANGED <<kind, pc, listener, cancelled, finished, answers, signature, futures, raced, active,
                   adding, waiting>>
WaitNext ==
    /\ app = "wait"
    /\ \E w \in unvisited : pc[w] = "over" /\ unvisited' = unvisited \ {w}
    /\ UNCHANGED <<kind, pc, listener, cancelled, finished, answers, signature, futures, raced, active,
                   app, adding, waiting>>
Waited ==
    /\ app = "wait" /\ unvisited = {} /\ app' = "clear"
    /\ UNCHANGED <<kind, pc, listener, cancelled, finished, answers, signature, listVars, active, adding, waiting>>
Clear ==
    /\ app = "clear" /\ app' = "stop"
    /\ \A w \in futures : pc[w] = "over"
    /\ futures' = {}
    /\ UNCHANGED <<kind, pc, listener, cancelled, finished, answers, signature, unvisited, raced, active,
                   adding, waiting>>
Stop ==
    /\ app = "stop" /\ app' = "out" /\ active' = FALSE
    /\ UNCHANGED <<kind, pc, listener, cancelled, finished, answers, signature, listVars, adding, waiting>>

reset ==
    /\ app = "out" /\ ~active /\ active' = TRUE
    /\ UNCHANGED <<kind, pc, listener, cancelled, finished, answers, signature, listVars, app, adding, waiting>>

-----------------------------------------------------------------------------
(* AsyncTaskImpl and Worker, for any thread of the app.                    *)

\* cancel(), or the destructor of the task.  Only the worker that generates keys
\* keeps its listener.
cancel(w) ==
    /\ pc[w] # "new" /\ Alive(w) /\ w \notin cancelled
    /\ cancelled' = cancelled \cup {w}
    /\ listener' = IF w = "keys" THEN listener ELSE listener \ {w}
    /\ UNCHANGED <<kind, pc, finished, answers, signature, runner, waiting>>

\* waitUntilDone() or waitForMs() when it does not return at once.
Wait(t, w) ==
    /\ waits[t] = None /\ pc[w] # "new" /\ ~isDone(w)
    /\ waits' = [waits EXCEPT ![t] = w]
    /\ UNCHANGED <<kind, pc, listener, cancelled, finished, answers, signature, runner, awake>>

\* A notified thread returns; so may one whose time is over, or that wakes up
\* by itself and finds isFinished_.
Return(t) ==
    /\ t \in awake
    /\ waits' = [waits EXCEPT ![t] = None] /\ awake' = awake \ {t}
    /\ UNCHANGED <<kind, pc, listener, cancelled, finished, answers, signature, runner>>
TimeOut(t) ==
    /\ waits[t] # None /\ t \notin awake
    /\ waits' = [waits EXCEPT ![t] = None]
    /\ UNCHANGED <<kind, pc, listener, cancelled, finished, answers, signature, runner, awake>>

\* Worker::run() behind work(): the flag under its mutex, then notify_one().
SetFinished(w) ==
    /\ pc[w] = "set" /\ Goto(w, "notify")
    /\ finished' = finished \cup {w}
    /\ UNCHANGED <<kind, listener, cancelled, answers, signature, runner, waiting>>

Notify_Slip(w) ==
    /\ pc[w] = "notify" /\ Goto(w, "over")
    /\ UNCHANGED <<kind, listener, cancelled, finished, answers, signature, runner, waiting>>
Notify(w) ==
    LET blocked == {t \in Waiters : waits[t] = w /\ t \notin awake}
    IN  /\ pc[w] = "notify" /\ Goto(w, "over")
        /\ IF blocked = {} THEN UNCHANGED awake
                           ELSE \E t \in blocked : awake' = awake \cup {t}
        /\ UNCHANGED <<kind, listener, cancelled, finished, answers, signature, runner, waits>>

\* An exception of the database, the key generators or the listener leaves a
\* work() that catches none; the lambda of AsyncTaskImpl logs it.
Throws(w) ==
    \/ w \in Plain /\ pc[w] = "request" /\ ~kind[w].catches
    \/ w = "keys" /\ pc[w] \in {"begin", "rest"}
    \/ w = "sign" /\ pc[w] \in {"begin", "report"}
Escape(w) ==
    /\ Throws(w) /\ Goto(w, "over")
    /\ UNCHANGED <<kind, listener, cancelled, finished, answers, signature, runner, waiting>>

-----------------------------------------------------------------------------
(* The workers' work().                                                    *)

Begin(w) ==
    /\ pc[w] = "begin"
    /\ Goto(w, IF kind[w].early /\ w \in cancelled THEN "set" ELSE "request")
    /\ UNCHANGED <<kind, listener, cancelled, finished, answers, signature, runner, waiting>>

\* The request or the query ends, well or badly; the listener is copied under
\* the mutex and called behind it.
Request_Slip(w) ==
    /\ pc[w] = "request"
    /\ \/ Goto(w, IF w \in listener /\ kind[w].answers THEN "call" ELSE "set")
       \/ Goto(w, "set")
       \/ kind[w].retries /\ Goto(w, "sleep")
    /\ UNCHANGED <<kind, listener, cancelled, finished, answers, signature, runner, waiting>>
Request(w) ==
    /\ pc[w] = "request"
    /\ \/ Goto(w, IF w \in listener /\ kind[w].answers THEN "call" ELSE "set")
       \/ kind[w].retries /\ Goto(w, "sleep")
    /\ UNCHANGED <<kind, listener, cancelled, finished, answers, signature, runner, waiting>>

\* cancelCv_.wait_for(WAIT_DURATION) of SessionRegisterPushTokenWorker
Sleep(w) ==
    /\ pc[w] = "sleep"
    /\ Goto(w, IF w \in cancelled THEN "set" ELSE "request")
    /\ UNCHANGED <<kind, listener, cancelled, finished, answers, signature, runner, waiting>>

Call(w) ==
    /\ pc[w] = "call" /\ Goto(w, "set")
    /\ answers' = [answers EXCEPT ![w] = @ + 1]
    /\ UNCHANGED <<kind, listener, cancelled, finished, signature, runner, waiting>>

PlainStep(w) == Begin(w) \/ Request(w) \/ Sleep(w)

-----------------------------------------------------------------------------
(* ClientGenerateKeysWorker::work(): the master key, then the signing key in*)
(* another thread, the other two keys here.  work() returns when it was     *)
(* cancelled; the other thread is not told.                                 *)

KeysBegin ==
    /\ pc["keys"] = "begin"
    /\ Goto("keys", IF "keys" \in cancelled THEN "set" ELSE "spawn")
    /\ UNCHANGED <<kind, listener, cancelled, finished, answers, signature, runner, waiting>>

KeysSpawn ==
    /\ pc["keys"] = "spawn"
    /\ pc' = IF active THEN [pc EXCEPT !["keys"] = "append", !["sign"] = "begin"]
                       ELSE [pc EXCEPT !["keys"] = "rest", !["sign"] = "dropped"]
    /\ UNCHANGED <<kind, listener, cancelled, finished, answers, signature, runner, waiting>>

KeysAppend_Slip ==
    /\ pc["keys"] = "append" /\ Goto("keys", "rest")
    /\ UNCHANGED <<kind, listener, cancelled, finished, answers, signature, runner, waiting>>
KeysAppend ==
    /\ pc["keys"] = "append" /\ Goto("keys", "rest")
    /\ \/ app # "wait" /\ Appended("sign", app \in {"append", "clear"}) /\ UNCHANGED unvisited
       \/ app = "wait" /\ AppendedInLoop("sign")
    /\ UNCHANGED <<kind, listener, cancelled, finished, answers, signature, active, app, adding, waiting>>

KeysRest ==
    /\ pc["keys"] = "rest"
    /\ Goto("keys", IF "keys" \in cancelled THEN "set" ELSE "join")
    /\ UNCHANGED <<kind, listener, cancelled, finished, answers, signature, runner, waiting>>

\* keypairSignatureTask.waitUntilDone()
KeysJoin ==
    /\ pc["keys"] = "join"
    /\ \/ /\ waits["keys"] = None /\ isDone("sign")
          /\ Goto("keys", "check") /\ UNCHANGED waiting
       \/ /\ waits["keys"] = None /\ ~isDone("sign")
          /\ waits' = [waits EXCEPT !["keys"] = "sign"] /\ UNCHANGED <<pc, awake>>
       \/ /\ "keys" \in awake
          /\ waits' = [waits EXCEPT !["keys"] = None] /\ awake' = awake \ {"keys"}
          /\ Goto("keys", "check")
    /\ UNCHANGED <<kind, listener, cancelled, finished, answers, signature, runner>>

\* kulloAssert(keypairSignature_)
KeysCheck ==
    /\ pc["keys"] = "check"
    /\ Goto("keys", IF signature THEN "call" ELSE "over")
    /\ UNCHANGED <<kind, listener, cancelled, finished, answers, signature, runner, waiting>>

\* The signing worker writes to its parent and reports the parent's progress.
SignBegin_Slip ==
    /\ pc["sign"] = "begin" /\ Goto("sign", "set")
    /\ UNCHANGED <<kind, listener, cancelled, finished, answers, signature, runner, waiting>>
SignBegin ==
    /\ pc["sign"] = "begin" /\ Goto("sign", "store")
    /\ UNCHANGED <<kind, listener, cancelled, finished, answers, signature, runner, waiting>>
SignStore ==
    /\ pc["sign"] = "store" /\ Goto("sign", "report")
    /\ signature' = TRUE
    /\ UNCHANGED <<kind, listener, cancelled, finished, answers, runner, waiting>>
SignReport ==
    /\ pc["sign"] = "report" /\ Goto("sign", "set")
    /\ UNCHANGED <<kind, listener, cancelled, finished, answers, signature, runner, waiting>>

KeysStep == KeysBegin \/ KeysSpawn \/ KeysAppend \/ KeysRest \/ KeysJoin \/ KeysCheck
SignStep == SignBegin \/ SignStore \/ SignReport

-----------------------------------------------------------------------------
Thread(w) ==
    \/ w \in Plain /\ PlainStep(w)
    \/ w = "keys" /\ KeysStep
    \/ w = "sign" /\ SignStep
    \/ w \in Started /\ Call(w)
    \/ SetFinished(w) \/ Notify(w)
InRunner == AppAppend \/ WaitNext \/ Waited \/ Clear \/ Stop

Next ==
    \/ \E w \in Started : Start(w) \/ cancel(w)
    \/ \E w \in Workers : Thread(w)
    \/ \E w \in Workers : Escape(w)
    \/ \E t \in Threads, w \in Started : Wait(t, w)
    \/ \E t \in Threads : Return(t) \/ TimeOut(t)
    \/ InRunner \/ wait \/ reset

Spec == Init /\ [][Next]_vars

\* Each thread that can go on does: those of the workers, those that were
\* notified, and the one in the runner.  Nobody owes a start or a cancel, and
\* no thread a time-out.
FairSpec ==
    /\ Spec
    /\ \A w \in Workers : WF_vars(Thread(w))
    /\ \A t \in Threads : WF_vars(Return(t))
    /\ WF_vars(InRunner)

-----------------------------------------------------------------------------
(* Properties.                                                             *)

\* When StlTaskRunner::wait() has returned, no task runs any more, not even one
\* that a task started meanwhile: main() may return.  That is so as long as no two
\* threads have met in the list, which nothing in the runner prevents.
WaitMeansAll == ~active /\ ~raced => \A w \in Workers : pc[w] \in Idle

Escaped(w) == pc[w] = "over" /\ w \notin finished

\* kulloAssert(keypairSignature_): whenever waitUntilDone() lets the worker go
\* on, by its flag, a wake-up or a weak_ptr that expired, the key is there, unless
\* an exception has left the worker that makes it.
SignatureIsThere == pc["keys"] = "check" => signature \/ Escaped("sign")

\* An exception has left the worker, or the one that it waits for.
Stuck(w) == Escaped(w) \/ (w = "keys" /\ Escaped("sign"))

\* A task that was started, not cancelled and left by no exception calls its
\* listener, once.
Answered ==
    \A w \in Started :
        <>[](\/ pc[w] \in {"new", "dropped"} \/ w \in cancelled \/ Stuck(w)
             \/ w \in Plain /\ ~kind[w].answers
             \/ answers[w] = 1)

\* waitUntilDone() returns, unless an exception has left the work() or a retry
\* goes on that nobody cancels.
WaitReturns ==
    \A t \in Threads :
        []<>(\/ waits[t] = None
             \/ Stuck(waits[t])
             \/ waits[t] \in Plain /\ kind[waits[t]].retries /\ waits[t] \notin cancelled)

=============================================================================
