------------------------- MODULE TasksAndKeysProofs -------------------------
(***************************************************************************)
(* Theorems about AsyncTasks, whose workers make the keys of an account,   *)
(* and about KeysSync, which keeps the keys it has.  The first are for any *)
(* workers, threads and threshold; the second for any pairs, messages and  *)
(* bounds, and whatever the app, the servers and other devices do.         *)
(***************************************************************************)
EXTENDS AsyncTasks, KeysSync, WellFoundedInduction, TLAPS

-----------------------------------------------------------------------------
(* The types.                                                              *)

\* A worker that has answered is behind its call.
AnsweredIsBehind ==
    \A w \in Started : answers[w] = 1 => pc[w] \in {"set", "notify", "over"}

Typed == TypeOK /\ AnsweredIsBehind

LEMMA Names ==
    /\ "keys" \in Started /\ "sign" \in Workers /\ "sign" \notin Started
    /\ Started \subseteq Workers /\ "keys" \in Waiters /\ Plain \subseteq Started
    /\ "keys" \notin Plain /\ "sign" \notin Plain /\ "keys" \notin Threads
    /\ Threads \subseteq Waiters /\ None \notin Workers
BY TasksAssumption, Zenon DEF Started, Workers, Waiters

LEMMA TypedInit == Init => Typed
<1> SUFFICES ASSUME Init PROVE Typed
    OBVIOUS
<1>1. TypeOK
    <2>1. "keys" \in Waiters /\ None # "sign" /\ waits["keys"] = None
        BY Names DEF Init
    <2>2. /\ kind \in [Plain -> Kinds]
          /\ pc \in [Workers -> Positions]
          /\ answers \in [Started -> 0 .. 1]
          /\ waits \in [Waiters -> Workers \cup {None}]
        BY DEF Init, Positions, Idle
    <2> QED BY <2>1, <2>2 DEF Init, TypeOK
<1>2. AnsweredIsBehind
    BY Names DEF Init, AnsweredIsBehind
<1> QED BY <1>1, <1>2 DEF Typed

\* What a step changes of pc alone keeps the types.
LEMMA TypedGoto ==
    ASSUME Typed, NEW w \in Workers, NEW l \in Positions, Goto(w, l),
           pc[w] \in {"set", "notify", "over"} => l \in {"set", "notify", "over"},
           pc[w] # "join",
           kind' = kind, listener' \subseteq Started, cancelled' = cancelled,
           finished' \subseteq Workers, answers' = answers, signature' \in BOOLEAN,
           futures' \subseteq Workers, unvisited' \subseteq Workers, raced' \in BOOLEAN,
           active' = active, app' = app, adding' = adding,
           waits' = waits, awake' \subseteq {t \in Waiters : waits[t] # None}
    PROVE  Typed'
<1>1. /\ pc \in [Workers -> Positions] /\ pc' = [pc EXCEPT ![w] = l]
      /\ "keys" \in Workers
    BY Names DEF Typed, TypeOK, Goto
<1>2. pc' \in [Workers -> Positions] /\ (pc["keys"] = "join" => pc'["keys"] = "join")
    BY <1>1
<1>3. TypeOK'
    BY <1>2 DEF Typed, TypeOK
<1>4. AnsweredIsBehind'
    BY <1>1, Names DEF Typed, AnsweredIsBehind
<1> QED BY <1>3, <1>4 DEF Typed

LEMMA PrunedIsPart ==
    ASSUME NEW fs PROVE Pruned(fs) \subseteq fs
BY DEF Pruned

LEMMA TypedNext == Typed /\ [Next]_vars => Typed'
<1> SUFFICES ASSUME Typed, [Next]_vars PROVE Typed'
    OBVIOUS
<1> USE Names
<1>0. CASE UNCHANGED vars
    BY <1>0 DEF vars, runner, listVars, waiting, Typed, TypeOK, AnsweredIsBehind
<1>1. ASSUME NEW w \in Started, Start(w) PROVE Typed'
    BY <1>1 DEF listVars, Start, Goto, Typed, TypeOK, AnsweredIsBehind, Positions, Idle, waiting
<1>2. ASSUME NEW w \in Started, cancel(w) PROVE Typed'
    BY <1>2 DEF cancel, Typed, TypeOK, AnsweredIsBehind, runner, listVars, waiting
<1>3. ASSUME NEW w \in Workers, Thread(w) PROVE Typed'
    <2>1. CASE w \in Plain /\ PlainStep(w)
        BY <2>1, TypedGoto DEF PlainStep, Begin, Request, Sleep, Typed, TypeOK, Positions, Idle, Goto, runner, listVars, waiting
    <2>2. CASE w = "keys" /\ KeysStep
        <3>1. CASE KeysBegin
            BY <3>1, TypedGoto DEF KeysBegin, Typed, TypeOK, Positions, Idle, Goto, runner, listVars, waiting
        <3>2. CASE KeysSpawn
            BY <3>2 DEF KeysSpawn, Typed, TypeOK, AnsweredIsBehind, Positions, Idle, runner, listVars, waiting
        <3>3. CASE KeysAppend
            BY <3>3, PrunedIsPart, TypedGoto DEF KeysAppend, Appended, AppendedInLoop, Typed, TypeOK, Positions, Idle, Goto, waiting
        <3>4. CASE KeysRest
            BY <3>4, TypedGoto DEF KeysRest, Typed, TypeOK, Positions, Idle, Goto, runner, listVars, waiting
        <3>5. CASE KeysJoin
            BY <3>5 DEF KeysJoin, Goto, Typed, TypeOK, AnsweredIsBehind, Positions, Idle, runner, listVars, waiting
        <3>6. CASE KeysCheck
            BY <3>6, TypedGoto DEF KeysCheck, Typed, TypeOK, Positions, Idle, Goto, runner, listVars, waiting
        <3> QED BY <2>2, <3>1, <3>2, <3>3, <3>4, <3>5, <3>6 DEF KeysStep
    <2>3. CASE w = "sign" /\ SignStep
        BY <2>3, TypedGoto DEF SignStep, SignBegin, SignStore, SignReport, Typed, TypeOK, Positions, Idle, Goto, runner, listVars, waiting
    <2>4. CASE w \in Started /\ Call(w)
        BY <2>4 DEF Call, Goto, Typed, TypeOK, AnsweredIsBehind, Positions, Idle, runner, listVars, waiting
    <2>5. CASE SetFinished(w)
        BY <2>5, TypedGoto DEF SetFinished, Typed, TypeOK, Positions, Idle, Goto, runner, listVars, waiting
    <2>6. CASE Notify(w)
        BY <2>6, TypedGoto DEF Notify, Typed, TypeOK, Positions, Idle, Goto, runner, listVars, waiting
    <2> QED BY <1>3, <2>1, <2>2, <2>3, <2>4, <2>5, <2>6 DEF Thread
<1>4. ASSUME NEW w \in Workers, Escape(w) PROVE Typed'
    BY <1>4, TypedGoto DEF Escape, Throws, Typed, TypeOK, Positions, Idle, Goto, runner, listVars, waiting
<1>5. ASSUME NEW t \in Threads, NEW w \in Started, Wait(t, w) PROVE Typed'
    BY <1>5 DEF Wait, Typed, TypeOK, AnsweredIsBehind, runner, listVars
<1>6. ASSUME NEW t \in Threads, Return(t) \/ TimeOut(t) PROVE Typed'
    BY <1>6 DEF Return, TimeOut, Typed, TypeOK, AnsweredIsBehind, runner, listVars
<1>7. CASE AppAppend
    BY <1>7, PrunedIsPart DEF AppAppend, Appended, Typed, TypeOK, AnsweredIsBehind, waiting
<1>8. CASE WaitNext \/ Waited \/ Clear \/ Stop \/ wait \/ reset
    BY <1>8 DEF WaitNext, Waited, Clear, Stop, wait, reset, listVars, Typed, TypeOK, AnsweredIsBehind, waiting
<1> QED BY <1>0, <1>1, <1>2, <1>3, <1>4, <1>5, <1>6, <1>7, <1>8 DEF Next, InRunner

\* No task answers its listener twice, and Worker::wait() wakes up only threads
\* that wait; the rest are the types of the members.
THEOREM TypeCorrect == Spec => []TypeOK
<1>1. Typed => TypeOK
    BY DEF Typed
<1> QED BY <1>1, TypedInit, TypedNext, PTL DEF Spec

-----------------------------------------------------------------------------
(* The list of futures.                                                    *)

\* A worker that runs is in the list, or its future is on the way there.
RunningIsListed ==
    \A w \in Workers :
        pc[w] \notin Idle => w \in futures \/ w = adding \/ (w = "sign" /\ pc["keys"] = "append")

\* Nothing runs from the moment on at which the loop of wait() has come to its end.
Resting ==
    /\ app \in {"clear", "stop"} \/ ~active => \A w \in Workers : pc[w] \in Idle
    /\ ~active => app = "out"

\* What the loop has left behind is over.
Visited == app = "wait" => \A w \in futures \ unvisited : pc[w] = "over"

\* "sign" is started by "keys" only.
Unsigned == pc["keys"] \in {"new", "begin", "spawn"} => pc["sign"] = "new"

Ordered == RunningIsListed /\ Resting /\ Visited /\ Unsigned
Listed  == Typed /\ Ordered

LEMMA ListedInit == Init => Listed
<1> SUFFICES ASSUME Init PROVE Listed
    OBVIOUS
<1>1. Ordered
    BY Names DEF Init, Ordered, RunningIsListed, Resting, Visited, Unsigned, Idle
<1> QED BY <1>1, TypedInit DEF Listed

\* A thread of a worker goes on in its work() and leaves the list alone.
LEMMA ListedGoto ==
    ASSUME Listed, NEW w \in Workers, NEW l, Goto(w, l), pc[w] \notin Idle,
           pc[w] # "append", l \notin {"new", "begin"}, l = "spawn" => pc[w] = "begin",
           UNCHANGED <<futures, unvisited, active, app, adding>>
    PROVE  Ordered'
<1>1. pc \in [Workers -> Positions] /\ pc' = [pc EXCEPT ![w] = l] /\ "keys" \in Workers
    BY Names DEF Listed, Typed, TypeOK, Goto
<1>2. pc["keys"] = "append" => pc'["keys"] = "append"
    BY <1>1
<1>3. RunningIsListed'
    BY <1>1, <1>2 DEF Listed, Ordered, RunningIsListed
<1>4. Resting'
    BY <1>1 DEF Listed, Ordered, Resting
<1>5. Visited'
    BY <1>1 DEF Listed, Ordered, Visited, Idle
<1>6. Unsigned'
    BY <1>1, Names DEF Listed, Ordered, Unsigned, Idle
<1> QED BY <1>3, <1>4, <1>5, <1>6 DEF Ordered

\* What is not ready is not pruned.
LEMMA PrunedIsOver ==
    ASSUME NEW fs, NEW w \in fs, pc[w] # "over" PROVE w \in Pruned(fs)
BY DEF Pruned

LEMMA ListedNext == Listed /\ [Next]_vars /\ ~raced' => Ordered'
<1> SUFFICES ASSUME Listed, [Next]_vars, ~raced' PROVE Ordered'
    OBVIOUS
<1> USE Names
<1> USE DEF Listed, Ordered
<1>0. CASE UNCHANGED vars
    BY <1>0 DEF vars, runner, listVars, RunningIsListed, Resting, Visited, Unsigned
<1>1. ASSUME NEW w \in Started, Start(w) PROVE Ordered'
    <2>1. w \in Workers /\ app = "out" /\ app' # "wait" /\ UNCHANGED <<futures, active>>
        BY <1>1 DEF Start, listVars
    <2>2. RunningIsListed' /\ Resting'
        BY <1>1 DEF Start, Goto, Typed, TypeOK, RunningIsListed, Resting, Idle, listVars
    <2>3. Unsigned'
        BY <1>1 DEF Start, Goto, Typed, TypeOK, Unsigned
    <2> QED BY <2>1, <2>2, <2>3 DEF Visited
<1>2. ASSUME NEW w \in Started, cancel(w) PROVE Ordered'
    BY <1>2 DEF cancel, RunningIsListed, Resting, Visited, Unsigned, runner, listVars
<1>3. ASSUME NEW w \in Workers, Thread(w) PROVE Ordered'
    <2>1. CASE w \in Plain /\ PlainStep(w)
        BY <2>1, ListedGoto DEF PlainStep, Begin, Request, Sleep, Goto, runner, listVars, Idle
    <2>2. CASE w = "keys" /\ KeysStep
        <3>1. CASE KeysBegin \/ KeysRest \/ KeysCheck
            BY <3>1, ListedGoto DEF KeysBegin, KeysRest, KeysCheck, Goto, runner, listVars, Idle
        <3>2. CASE KeysSpawn
            <4>1. RunningIsListed' /\ Resting'
                BY <3>2 DEF KeysSpawn, Typed, TypeOK, RunningIsListed, Resting, Idle, runner, listVars
            <4>2. /\ pc \in [Workers -> Positions] /\ pc["keys"] = "spawn"
                  /\ UNCHANGED <<app, futures, unvisited>>
                  /\ \/ pc' = [pc EXCEPT !["keys"] = "append", !["sign"] = "begin"]
                     \/ pc' = [pc EXCEPT !["keys"] = "rest", !["sign"] = "dropped"]
                BY <3>2 DEF KeysSpawn, Typed, TypeOK, runner, listVars
            <4>3. \A x \in Workers : pc[x] = "over" => pc'[x] = "over"
                BY <4>2 DEF Unsigned
            <4>4. Visited' /\ Unsigned'
                BY <4>2, <4>3 DEF Visited, Unsigned, Typed, TypeOK
            <4> QED BY <4>1, <4>4
        <3>3. CASE KeysAppend
            <4>1. /\ pc' = [pc EXCEPT !["keys"] = "rest"] /\ pc["keys"] = "append"
                  /\ pc \in [Workers -> Positions]
                  /\ UNCHANGED <<active, app, adding>>
                BY <3>3 DEF KeysAppend, Goto, Typed, TypeOK
            <4>2. futures' = Pruned(futures \cup {"sign"})
                BY <3>3 DEF KeysAppend, Appended, AppendedInLoop
            <4>3. RunningIsListed'
                BY <4>1, <4>2, PrunedIsOver DEF RunningIsListed, Idle
            <4>4. Resting'
                BY <4>1 DEF Resting, Idle
            <4>5. Visited'
                <5>1. CASE app # "wait"
                    BY <4>1, <5>1 DEF Visited
                <5>2. CASE app = "wait"
                    <6>1. unvisited' = unvisited \cup {"sign"}
                        BY <3>3, <5>2 DEF KeysAppend, AppendedInLoop
                    <6>2. futures' \subseteq futures \cup {"sign"}
                        BY <4>2, PrunedIsPart
                    <6>3. \A x \in futures' \ unvisited' : pc[x] = "over"
                        BY <5>2, <6>1, <6>2 DEF Visited
                    <6>4. \A x : pc[x] = "over" => pc'[x] = "over"
                        BY <4>1
                    <6> QED BY <6>3, <6>4 DEF Visited
                <5> QED BY <5>1, <5>2
            <4>6. Unsigned'
                BY <4>1 DEF Unsigned
            <4> QED BY <4>3, <4>4, <4>5, <4>6
        <3>4. CASE KeysJoin
            <4>1. CASE UNCHANGED pc
                BY <3>4, <4>1 DEF KeysJoin, runner, listVars, RunningIsListed, Resting, Visited, Unsigned
            <4>2. CASE Goto("keys", "check")
                BY <3>4, <4>2, ListedGoto DEF KeysJoin, runner, listVars, Idle
            <4> QED BY <3>4, <4>1, <4>2 DEF KeysJoin
        <3> QED BY <2>2, <3>1, <3>2, <3>3, <3>4 DEF KeysStep
    <2>3. CASE w = "sign" /\ SignStep
        BY <2>3, ListedGoto DEF SignStep, SignBegin, SignStore, SignReport, Goto, runner, listVars, Idle
    <2>4. CASE Call(w) \/ SetFinished(w) \/ Notify(w)
        BY <2>4, ListedGoto DEF Call, SetFinished, Notify, Goto, runner, listVars, Idle
    <2> QED BY <1>3, <2>1, <2>2, <2>3, <2>4 DEF Thread
<1>4. ASSUME NEW w \in Workers, Escape(w) PROVE Ordered'
    BY <1>4, ListedGoto DEF Escape, Throws, runner, listVars, Idle
<1>5. ASSUME NEW t \in Threads, NEW w \in Started, Wait(t, w) PROVE Ordered'
    BY <1>5 DEF Wait, RunningIsListed, Resting, Visited, Unsigned, runner, listVars
<1>6. ASSUME NEW t \in Threads, Return(t) \/ TimeOut(t) PROVE Ordered'
    BY <1>6 DEF Return, TimeOut, RunningIsListed, Resting, Visited, Unsigned, runner, listVars
<1>7. CASE AppAppend
    <2>1. futures' = Pruned(futures \cup {adding}) /\ UNCHANGED <<pc, active>> /\ app' = "out"
        BY <1>7 DEF AppAppend, Appended
    <2>2. RunningIsListed'
        BY <2>1, PrunedIsOver DEF RunningIsListed, Idle
    <2> QED BY <2>1, <2>2 DEF Resting, Visited, Unsigned
<1>8. CASE Waited
    <2>1. unvisited = {} /\ app = "wait" /\ app' = "clear" /\ UNCHANGED <<pc, futures, active, adding>>
        BY <1>8 DEF Waited, listVars
    <2>2. adding = None /\ \A w \in futures : pc[w] = "over"
        BY <2>1 DEF Typed, TypeOK, Visited
    <2>3. pc["keys"] \in Idle
        BY <2>1, <2>2 DEF RunningIsListed, Idle
    <2>4. \A w \in Workers : pc[w] \in Idle
        BY <2>1, <2>2, <2>3 DEF RunningIsListed, Idle
    <2> QED BY <2>1, <2>4 DEF RunningIsListed, Resting, Visited, Unsigned
<1>9. CASE WaitNext
    BY <1>9 DEF WaitNext, RunningIsListed, Resting, Visited, Unsigned
<1>10. CASE Clear \/ Stop \/ wait \/ reset
    BY <1>10 DEF Clear, Stop, wait, reset, listVars, RunningIsListed, Resting, Visited, Unsigned
<1> QED BY <1>0, <1>1, <1>2, <1>3, <1>4, <1>5, <1>6, <1>7, <1>8, <1>9, <1>10 DEF Next, InRunner

\* That two threads have met in the list is not forgotten.
LEMMA RacedStays == [Next]_vars /\ raced => raced'
<1> SUFFICES ASSUME [Next]_vars, raced, raced' # TRUE, raced' # raced PROVE FALSE
    BY Zenon
<1> USE DEF runner, listVars
<1>1. CASE UNCHANGED vars
    BY <1>1 DEF vars
<1>2. ASSUME NEW w \in Workers, Thread(w) PROVE FALSE
    BY <1>2 DEF Thread, PlainStep, Begin, Request, Sleep, KeysStep, KeysBegin, KeysSpawn, KeysAppend,
                Appended, AppendedInLoop, KeysRest, KeysJoin, KeysCheck, SignStep, SignBegin,
                SignStore, SignReport, Call, SetFinished, Notify
<1>3. CASE InRunner \/ wait \/ reset
    BY <1>3 DEF InRunner, AppAppend, Appended, WaitNext, Waited, Clear, Stop, wait, reset
<1>4. ASSUME NEW w \in Workers, (w \in Started /\ (Start(w) \/ cancel(w))) \/ Escape(w) PROVE FALSE
    BY <1>4 DEF Start, cancel, Escape
<1>5. ASSUME NEW t \in Threads, Return(t) \/ TimeOut(t) \/ \E w \in Started : Wait(t, w) PROVE FALSE
    BY <1>5 DEF Return, TimeOut, Wait
<1> QED BY <1>1, <1>2, <1>3, <1>4, <1>5, Names DEF Next

\* No task runs when wait() has returned, although the loop there looks at one
\* future after the other and a task may start another meanwhile, until two threads
\* have met in the list: both at its end, or pruning with the loop.
THEOREM WaitMeansAllCorrect == Spec => []WaitMeansAll
<1> DEFINE Inv == Typed /\ (raced \/ Ordered)
<1>1. Init => Inv
    BY ListedInit DEF Listed
<1>2. Inv /\ [Next]_vars => Inv'
    BY TypedNext, ListedNext, RacedStays DEF Listed
<1>3. Inv => WaitMeansAll
    BY DEF Ordered, Resting, WaitMeansAll
<1> QED BY <1>1, <1>2, <1>3, PTL DEF Spec

-----------------------------------------------------------------------------
(* The signing key.  "keys" is in the list until it has started the other   *)
(* one, even when two threads append at the same time: it is the first that *)
(* could append beside the app, and does so only then.                      *)

\* The runner is active when "keys" hands over to the signing worker.
KeysIsListed ==
    /\ pc["keys"] \in {"begin", "spawn"} =>
          /\ "keys" \in futures \/ adding = "keys"
          /\ active /\ app \notin {"clear", "stop"}
          /\ app = "wait" => "keys" \in unvisited
    /\ ~active => app = "out"

\* The signing worker is started before it is waited for, and has written the
\* key when anyone can see it finished.
SignedBefore ==
    /\ pc["sign"] \in {"report", "set", "notify"} => signature
    /\ "sign" \in finished => signature
    /\ "keys" \in awake => signature
    /\ pc["keys"] = "check" => signature \/ Escaped("sign")
    /\ pc["keys"] \in {"append", "rest", "join", "check"} => pc["sign"] \notin {"new", "dropped"}

Signed == Typed /\ KeysIsListed /\ SignedBefore

LEMMA SignedInit == Init => Signed
<1> SUFFICES ASSUME Init PROVE Signed
    OBVIOUS
<1>1. KeysIsListed /\ SignedBefore
    BY Names DEF Init, KeysIsListed, SignedBefore
<1> QED BY <1>1, TypedInit DEF Signed

\* A step of another worker, which leaves the list alone.
LEMMA KeysIsListedElsewhere ==
    ASSUME Signed,
           pc'["keys"] \in {"begin", "spawn"} => pc["keys"] \in {"begin", "spawn"},
           UNCHANGED <<futures, unvisited, active, app, adding>>
    PROVE  KeysIsListed'
BY DEF Signed, KeysIsListed

LEMMA KeysIsListedNext == Signed /\ [Next]_vars => KeysIsListed'
<1> SUFFICES ASSUME Signed, [Next]_vars PROVE KeysIsListed'
    OBVIOUS
<1> USE Names
<1>a. pc \in [Workers -> Positions] /\ "keys" \in Workers /\ "keys" # "sign"
    BY DEF Signed, Typed, TypeOK
<1>0. CASE UNCHANGED vars
    BY <1>0, KeysIsListedElsewhere DEF vars, runner, listVars
<1>1. ASSUME NEW w \in Started, Start(w) PROVE KeysIsListed'
    <2>1. CASE ~active
        <3>1. w \in Workers /\ pc' = [pc EXCEPT ![w] = "dropped"]
              /\ UNCHANGED <<futures, unvisited, active, app, adding>>
            BY <1>1, <2>1 DEF Start, Goto, listVars
        <3>2. pc'["keys"] \in {"begin", "spawn"} => pc["keys"] \in {"begin", "spawn"}
            BY <1>a, <3>1
        <3> QED BY <3>1, <3>2, KeysIsListedElsewhere
    <2>2. CASE active
        <3>1. /\ app = "out" /\ app' = "append" /\ adding' = w /\ UNCHANGED <<futures, active>>
              /\ pc' = [pc EXCEPT ![w] = "begin"]
            BY <1>1, <2>2 DEF Start, Goto, listVars
        <3>2. adding = None
            BY <3>1 DEF Signed, Typed, TypeOK
        <3>3. pc'["keys"] \in {"begin", "spawn"} => w = "keys" \/ pc["keys"] \in {"begin", "spawn"}
            BY <1>a, <3>1
        <3>4. pc'["keys"] \in {"begin", "spawn"} => "keys" \in futures \/ adding' = "keys"
            BY <3>1, <3>2, <3>3 DEF Signed, KeysIsListed
        <3> QED BY <2>2, <3>1, <3>4 DEF KeysIsListed
    <2> QED BY <2>1, <2>2
<1>2. ASSUME NEW w \in Started, cancel(w) PROVE KeysIsListed'
    BY <1>2, KeysIsListedElsewhere DEF cancel, runner, listVars
<1>3. ASSUME NEW w \in Workers, Thread(w) PROVE KeysIsListed'
    <2>1. CASE w \in Plain /\ PlainStep(w)
        BY <2>1, <1>a, KeysIsListedElsewhere DEF PlainStep, Begin, Request, Sleep, Goto, runner, listVars
    <2>2. CASE w = "keys" /\ KeysStep
        <3>1. CASE KeysBegin \/ KeysSpawn \/ KeysRest \/ KeysCheck
            BY <3>1, <1>a, KeysIsListedElsewhere
               DEF KeysBegin, KeysSpawn, KeysRest, KeysCheck, Goto, runner, listVars
        <3>2. CASE KeysAppend
            BY <3>2, <1>a DEF KeysAppend, Goto, Signed, KeysIsListed
        <3>3. CASE KeysJoin
            BY <3>3, <1>a, KeysIsListedElsewhere DEF KeysJoin, Goto, runner, listVars
        <3> QED BY <2>2, <3>1, <3>2, <3>3 DEF KeysStep
    <2>3. CASE w = "sign" /\ SignStep
        BY <2>3, <1>a, KeysIsListedElsewhere DEF SignStep, SignBegin, SignStore, SignReport, Goto, runner, listVars
    <2>4. CASE Call(w) \/ SetFinished(w) \/ Notify(w)
        BY <2>4, <1>a, KeysIsListedElsewhere DEF Call, SetFinished, Notify, Goto, runner, listVars
    <2> QED BY <1>3, <2>1, <2>2, <2>3, <2>4 DEF Thread
<1>4. ASSUME NEW w \in Workers, Escape(w) PROVE KeysIsListed'
    BY <1>4, <1>a, KeysIsListedElsewhere DEF Escape, Throws, Goto, runner, listVars
<1>5. ASSUME NEW t \in Threads, NEW w \in Started, Wait(t, w) PROVE KeysIsListed'
    BY <1>5, KeysIsListedElsewhere DEF Wait, runner, listVars
<1>6. ASSUME NEW t \in Threads, Return(t) \/ TimeOut(t) PROVE KeysIsListed'
    BY <1>6, KeysIsListedElsewhere DEF Return, TimeOut, runner, listVars
<1>7. CASE AppAppend
    <2>1. app = "append" /\ app' = "out" /\ UNCHANGED <<pc, active>>
        BY <1>7 DEF AppAppend
    <2>2. ASSUME pc["keys"] \in {"begin", "spawn"} PROVE "keys" \in futures'
        <3>1. futures' = Pruned(futures \cup {adding})
            BY <1>7, <2>2 DEF AppAppend, Appended
        <3>2. "keys" \in futures \cup {adding} /\ pc["keys"] # "over"
            BY <2>2 DEF Signed, KeysIsListed
        <3> QED BY <3>1, <3>2, PrunedIsOver
    <2> QED BY <2>1, <2>2 DEF Signed, KeysIsListed
<1>8. CASE Waited
    <2>1. unvisited = {} /\ app = "wait" /\ UNCHANGED <<pc, futures, active, adding>>
        BY <1>8 DEF Waited, listVars
    <2>2. active
        BY <2>1 DEF Signed, KeysIsListed
    <2>3. pc["keys"] \notin {"begin", "spawn"}
        BY <2>1 DEF Signed, KeysIsListed
    <2> QED BY <2>1, <2>2, <2>3 DEF KeysIsListed
<1>9. CASE WaitNext
    <2>1. PICK w \in unvisited : pc[w] = "over" /\ unvisited' = unvisited \ {w}
        BY <1>9 DEF WaitNext
    <2>2. UNCHANGED <<pc, futures, active, app, adding>>
        BY <1>9 DEF WaitNext
    <2> QED BY <2>1, <2>2 DEF Signed, KeysIsListed
<1>10. CASE Clear \/ Stop \/ reset
    BY <1>10 DEF Clear, Stop, reset, listVars, Signed, KeysIsListed
<1>11. CASE wait
    <2>1. /\ app = "out" /\ active /\ app' = "wait" /\ unvisited' = futures
          /\ UNCHANGED <<pc, futures, active, adding>>
        BY <1>11 DEF wait
    <2>2. adding # "keys"
        BY <2>1 DEF Signed, Typed, TypeOK
    <2> QED BY <2>1, <2>2 DEF Signed, KeysIsListed
<1> QED BY <1>0, <1>1, <1>2, <1>3, <1>4, <1>5, <1>6, <1>7, <1>8, <1>9, <1>10, <1>11 DEF Next, InRunner

\* A step that neither of the two workers nor their flags notice.
LEMMA SignedElsewhere ==
    ASSUME Signed, pc'["keys"] = pc["keys"], pc'["sign"] = pc["sign"],
           finished' = finished, awake' \subseteq awake, signature' = signature
    PROVE  SignedBefore'
BY DEF Signed, SignedBefore, Escaped

LEMMA SignedNext == Signed /\ [Next]_vars => Signed'
<1> SUFFICES ASSUME Signed, [Next]_vars PROVE SignedBefore'
    BY TypedNext, KeysIsListedNext DEF Signed
<1> USE Names
<1>a. pc \in [Workers -> Positions] /\ "keys" \in Workers /\ "keys" # "sign"
    BY DEF Signed, Typed, TypeOK
<1>0. CASE UNCHANGED vars
    BY <1>0, SignedElsewhere DEF vars, runner, listVars, waiting
<1>1. ASSUME NEW w \in Started, Start(w) PROVE SignedBefore'
    BY <1>1, <1>a DEF Start, Goto, Signed, SignedBefore, Escaped, waiting
<1>2. ASSUME NEW w \in Started, cancel(w) PROVE SignedBefore'
    BY <1>2, SignedElsewhere DEF cancel, runner, listVars, waiting
<1>3. ASSUME NEW w \in Workers, Thread(w) PROVE SignedBefore'
    <2>1. CASE w \in Plain /\ PlainStep(w)
        BY <2>1, <1>a, SignedElsewhere DEF PlainStep, Begin, Request, Sleep, Goto, runner, listVars, waiting
    <2>2. CASE w = "keys" /\ KeysStep
        <3>1. CASE KeysBegin \/ KeysRest \/ KeysCheck
            BY <3>1, <1>a DEF KeysBegin, KeysRest, KeysCheck, Goto, Signed, SignedBefore, Escaped, runner, listVars, waiting
        <3>2. CASE KeysSpawn
            <4>1. active
                BY <3>2, <1>a DEF KeysSpawn, Signed, KeysIsListed
            <4> QED BY <3>2, <4>1, <1>a DEF KeysSpawn, Signed, SignedBefore, Escaped, runner, listVars, waiting
        <3>3. CASE KeysAppend
            BY <3>3, <1>a DEF KeysAppend, Goto, Signed, SignedBefore, Escaped, waiting
        <3>4. CASE KeysJoin
            <4>1. isDone("sign") => signature \/ Escaped("sign")
                BY <3>4, <1>a DEF KeysJoin, isDone, Alive, Idle, Signed, SignedBefore, Escaped
            <4>2. "keys" \in awake => signature
                BY DEF Signed, SignedBefore
            <4>3. CASE UNCHANGED <<pc, awake>>
                BY <3>4, <4>3, SignedElsewhere DEF KeysJoin
            <4>4. CASE Goto("keys", "check") /\ (signature \/ Escaped("sign"))
                BY <3>4, <4>4, <1>a DEF KeysJoin, Goto, Signed, SignedBefore, Escaped, waiting
            <4>5. \/ pc' = pc /\ awake' = awake
                  \/ Goto("keys", "check") /\ (isDone("sign") \/ "keys" \in awake)
                BY <3>4 DEF KeysJoin
            <4> QED BY <4>1, <4>2, <4>3, <4>4, <4>5
        <3> QED BY <2>2, <3>1, <3>2, <3>3, <3>4 DEF KeysStep
    <2>3. CASE w = "sign" /\ SignStep
        BY <2>3, <1>a DEF SignStep, SignBegin, SignStore, SignReport, Goto, Signed, SignedBefore, Escaped, runner, listVars, waiting
    <2>4. CASE w \in Started /\ Call(w)
        BY <2>4, <1>a DEF Call, Goto, Signed, SignedBefore, Escaped, runner, listVars, waiting
    <2>5. CASE SetFinished(w)
        BY <2>5, <1>a DEF SetFinished, Goto, Signed, SignedBefore, Escaped, runner, listVars, waiting
    <2>6. CASE Notify(w)
        <3>1. /\ pc[w] = "notify" /\ pc' = [pc EXCEPT ![w] = "over"]
              /\ UNCHANGED <<finished, signature>>
            BY <2>6 DEF Notify, Goto
        <3>2. "keys" \in awake' => "keys" \in awake \/ waits["keys"] = w
            BY <2>6 DEF Notify
        <3>3. waits["keys"] = w => w = "sign"
            BY DEF Signed, Typed, TypeOK
        <3> QED BY <3>1, <3>2, <3>3, <1>a DEF Signed, SignedBefore, Escaped
    <2> QED BY <1>3, <2>1, <2>2, <2>3, <2>4, <2>5, <2>6 DEF Thread
<1>4. ASSUME NEW w \in Workers, Escape(w) PROVE SignedBefore'
    <2>1. /\ pc' = [pc EXCEPT ![w] = "over"] /\ UNCHANGED <<finished, signature, awake>>
          /\ \/ w \in Plain
             \/ w = "keys" /\ pc["keys"] \in {"begin", "rest"}
             \/ w = "sign" /\ pc["sign"] \in {"begin", "report"}
        BY <1>4 DEF Escape, Throws, Goto, waiting
    <2>2. CASE w \in Plain
        BY <2>1, <2>2, <1>a, SignedElsewhere
    <2>3. CASE w \notin Plain
        BY <2>1, <2>3, <1>a DEF Signed, SignedBefore, Escaped
    <2> QED BY <2>2, <2>3
<1>5. ASSUME NEW t \in Threads, NEW w \in Started, Wait(t, w) PROVE SignedBefore'
    BY <1>5, SignedElsewhere DEF Wait, runner, listVars
<1>6. ASSUME NEW t \in Threads, Return(t) \/ TimeOut(t) PROVE SignedBefore'
    BY <1>6, SignedElsewhere DEF Return, TimeOut, runner, listVars
<1>7. CASE InRunner \/ wait \/ reset
    BY <1>7, SignedElsewhere DEF InRunner, AppAppend, WaitNext, Waited, Clear, Stop, wait, reset, listVars, waiting
<1> QED BY <1>0, <1>1, <1>2, <1>3, <1>4, <1>5, <1>6, <1>7 DEF Next

\* kulloAssert(keypairSignature_) holds in every run of the key generation,
\* whether it goes on by the flag, a wake-up or an expired weak_ptr, and also
\* when an append of two threads at the same time loses a future; unless an
\* exception has left the worker that signs.
THEOREM SignatureIsThereCorrect == Spec => []SignatureIsThere
<1>1. Signed => SignatureIsThere
    BY DEF Signed, SignedBefore, SignatureIsThere
<1> QED BY <1>1, SignedInit, SignedNext, PTL DEF Spec

-----------------------------------------------------------------------------
(* KeysSync: the types.                                                    *)

WorldTyped ==
    /\ now \in 1 .. MaxTime
    /\ offered \subseteq Pairs /\ revoked \subseteq offered
    /\ published \subseteq Signers
    /\ inbox \in Seq(Msgs) /\ sealed \in [Msgs -> Encryption \cup {NoKey}]

TablesTyped ==
    /\ privateDataKey \in BOOLEAN
    /\ pairs \subseteq offered \ NoPrivate /\ revocations \subseteq pairs \cap revoked
    /\ publicKeys \subseteq Signers
    /\ stored \subseteq Range(inbox) /\ timestamp \in 0 .. Len(inbox)
    /\ row \in [Rows -> {"draft", "unsent", "delivered", "unknown"}]
    /\ cache \subseteq pairs

\* What the server said of the pairs stays so, and a message that is being handled
\* is one that was downloaded.
SyncTyped ==
    /\ part \in PartsOfSync \cup {"idle"} /\ mode \in {"SendOnly", "Everything"}
    /\ left \subseteq answer /\ answer \subseteq Answers
    /\ \A a \in answer : a.pair \in offered /\ (a.revoked => a.pair \in revoked)
    /\ unsent \subseteq Rows
    /\ signing \in [row : Rows, pair : Signature] \cup {NoKey}
    /\ upTo \in 0 .. Len(inbox)
    /\ part \in {"verify", "fetch", "stamp"} => timestamp < upTo
    /\ shouldCancel \in BOOLEAN /\ faults \in 0 .. MaxFaults

KeysTyped == WorldTyped /\ TablesTyped /\ SyncTyped

LEMMA KeysTypedMeans == KeysTyped => KeysTypeOK
BY DEF KeysTyped, WorldTyped, TablesTyped, SyncTyped, KeysTypeOK

LEMMA KeysTypedInit == KeysInit => KeysTyped
<1> SUFFICES ASSUME KeysInit PROVE KeysTyped
    OBVIOUS
<1>1. WorldTyped
    BY KeysAssumption DEF KeysInit, WorldTyped
<1>2. TablesTyped
    <2>1. row \in [Rows -> {"draft", "unsent", "delivered", "unknown"}]
        BY DEF KeysInit
    <2>2. timestamp \in 0 .. Len(inbox)
        BY DEF KeysInit
    <2>3. privateDataKey \in BOOLEAN
        BY Zenon DEF KeysInit
    <2> QED BY <2>1, <2>2, <2>3 DEF KeysInit, TablesTyped
<1>3. SyncTyped
    <2>1. upTo \in 0 .. Len(inbox) /\ faults \in 0 .. MaxFaults
        BY KeysAssumption DEF KeysInit
    <2>2. shouldCancel \in BOOLEAN
        BY Zenon DEF KeysInit
    <2> QED BY <2>1, <2>2 DEF KeysInit, SyncTyped, PartsOfSync
<1> QED BY <1>1, <1>2, <1>3 DEF KeysTyped

\* The server keeps its pairs, revocations and messages.
Grown ==
    /\ offered \subseteq offered' /\ revoked \subseteq revoked'
    /\ published' \subseteq published
    /\ Range(inbox) \subseteq Range(inbox')
    /\ Len(inbox) \in Nat /\ Len(inbox') \in Nat /\ Len(inbox) =< Len(inbox')
    /\ \A i \in 1 .. Len(inbox) : inbox'[i] = inbox[i] /\ sealed'[inbox[i]] = sealed[inbox[i]]

LEMMA OthersGrow == WorldTyped /\ Others => WorldTyped' /\ Grown /\ UNCHANGED here
<1> SUFFICES ASSUME WorldTyped, Others PROVE WorldTyped' /\ Grown /\ UNCHANGED here
    OBVIOUS
<1>a. inbox \in Seq(Msgs) /\ Len(inbox) \in Nat /\ now \in 1 .. MaxTime /\ MaxTime \in Nat
    BY KeysAssumption DEF WorldTyped
<1>1. CASE Tick
    BY <1>a, <1>1 DEF Tick, WorldTyped, Grown
<1>2. ASSUME NEW k \in Pairs, AddPair(k) PROVE WorldTyped' /\ Grown /\ UNCHANGED here
    BY <1>a, <1>2 DEF AddPair, WorldTyped, Grown
<1>3. ASSUME NEW k \in Pairs, Revoke(k) PROVE WorldTyped' /\ Grown /\ UNCHANGED here
    BY <1>a, <1>3 DEF Revoke, WorldTyped, Grown
<1>4. ASSUME NEW s \in Signers, Close(s) PROVE WorldTyped' /\ Grown /\ UNCHANGED here
    BY <1>a, <1>4 DEF Close, WorldTyped, Grown
<1>5. ASSUME NEW m \in Msgs, NEW k \in Encryption, Receive(m, k)
      PROVE  WorldTyped' /\ Grown /\ UNCHANGED here
    <2>0. /\ m \notin Range(inbox) /\ inbox' = Append(inbox, m) /\ sealed' = [sealed EXCEPT ![m] = k]
          /\ UNCHANGED <<now, offered, revoked, published>> /\ UNCHANGED here
        BY <1>5 DEF Receive
    <2>1. /\ inbox' \in Seq(Msgs) /\ Len(inbox') = Len(inbox) + 1
          /\ DOMAIN inbox = 1 .. Len(inbox) /\ DOMAIN inbox' = 1 .. Len(inbox) + 1
          /\ \A i \in 1 .. Len(inbox) : inbox'[i] = inbox[i]
        BY <1>a, <2>0
    <2>2. \A i \in 1 .. Len(inbox) : inbox[i] \in Range(inbox)
        BY <2>1 DEF Range
    <2>3. \A i \in 1 .. Len(inbox) : sealed'[inbox[i]] = sealed[inbox[i]]
        BY <1>a, <2>0, <2>2 DEF WorldTyped
    <2>4. Range(inbox) \subseteq Range(inbox')
        BY <1>a, <2>1 DEF Range
    <2>5. WorldTyped'
        BY <2>0, <2>1 DEF WorldTyped
    <2> QED BY <1>a, <2>0, <2>1, <2>3, <2>4, <2>5 DEF Grown
<1> QED BY <1>1, <1>2, <1>3, <1>4, <1>5 DEF Others

\* A sync ends: its variables are as at first.
LEMMA SyncEnded ==
    ASSUME KeysTyped, EndSync, faults' \in 0 .. MaxFaults, UNCHANGED world
    PROVE  SyncTyped'
<1>1. shouldCancel' \in BOOLEAN
    BY Zenon DEF EndSync
<1>2. upTo' \in 0 .. Len(inbox') /\ Len(inbox) \in Nat
    BY DEF EndSync, KeysTyped, WorldTyped, world
<1> QED BY <1>1, <1>2 DEF EndSync, SyncTyped

\* The message that is being handled is one the server has.
LEMMA CurrentIsOne ==
    ASSUME KeysTyped, timestamp < upTo
    PROVE  /\ timestamp + 1 \in 1 .. Len(inbox) /\ timestamp + 1 \in 1 .. upTo
           /\ Current \in Msgs /\ Current \in Range(inbox)
<1>1. /\ inbox \in Seq(Msgs) /\ timestamp \in 0 .. Len(inbox) /\ upTo \in 0 .. Len(inbox)
      /\ Len(inbox) \in Nat
    BY DEF KeysTyped, WorldTyped, TablesTyped, SyncTyped
<1>2. timestamp + 1 \in 1 .. Len(inbox) /\ timestamp + 1 \in 1 .. upTo /\ DOMAIN inbox = 1 .. Len(inbox)
    BY <1>1
<1> QED BY <1>1, <1>2 DEF Current, Range

LEMMA LatestKeysMeans ==
    ASSUME NEW type, NEW k \in LatestKeys(type)
    PROVE  k \in pairs /\ k \in type /\ IsValid(k)
BY DEF LatestKeys

LEMMA KeysTypedOthers == KeysTyped /\ Others => KeysTyped'
<1> SUFFICES ASSUME KeysTyped, Others PROVE KeysTyped'
    OBVIOUS
<1>1. WorldTyped' /\ Grown /\ UNCHANGED here
    BY OthersGrow DEF KeysTyped
<1>2. TablesTyped'
    BY <1>1 DEF KeysTyped, TablesTyped, Grown, here, keys
<1>3. SyncTyped'
    BY <1>1 DEF KeysTyped, SyncTyped, Grown, here, run
<1> QED BY <1>1, <1>2, <1>3 DEF KeysTyped

\* The first part of a sync.
LEMMA KeysTypedFetch ==
    ASSUME KeysTyped,
           \/ \E m \in {"SendOnly", "Everything"} : StartSync(m)
           \/ StorePrivateDataKey \/ GetAsymmKeyPairs
           \/ \E a \in left : StorePair(a)
    PROVE  KeysTyped'
<1>a. /\ left \subseteq answer /\ answer \subseteq Answers /\ shouldCancel \in BOOLEAN
      /\ \A a \in answer : a.pair \in offered /\ (a.revoked => a.pair \in revoked)
      /\ offered \subseteq Pairs
    BY DEF KeysTyped, SyncTyped, WorldTyped
<1>b. UNCHANGED world => WorldTyped'
    BY DEF KeysTyped, WorldTyped, world
<1>1. ASSUME NEW m \in {"SendOnly", "Everything"}, StartSync(m) PROVE KeysTyped'
    <2>0. /\ part' = "symm" /\ mode' = m
          /\ UNCHANGED <<answer, left, unsent, signing, upTo, shouldCancel, faults>>
          /\ UNCHANGED <<stored, timestamp, row, cache>> /\ UNCHANGED keys /\ UNCHANGED world
        BY <1>1 DEF StartSync
    <2>1. TablesTyped'
        BY <2>0 DEF KeysTyped, TablesTyped, keys, world
    <2>2. SyncTyped'
        BY <2>0 DEF KeysTyped, SyncTyped, PartsOfSync, world
    <2> QED BY <1>b, <2>0, <2>1, <2>2 DEF KeysTyped
<1>2. CASE StorePrivateDataKey
    <2>0. /\ part' = "pairs" /\ privateDataKey' = TRUE
          /\ UNCHANGED <<mode, answer, left, unsent, signing, upTo, shouldCancel, faults>>
          /\ UNCHANGED <<pairs, revocations, publicKeys, stored, timestamp, row, cache>>
          /\ UNCHANGED world
        BY <1>2 DEF StorePrivateDataKey
    <2>1. privateDataKey' \in BOOLEAN
        BY <2>0, Zenon
    <2>2. TablesTyped'
        BY <2>0, <2>1 DEF KeysTyped, TablesTyped, world
    <2>3. SyncTyped'
        BY <2>0 DEF KeysTyped, SyncTyped, PartsOfSync, world
    <2> QED BY <1>b, <2>0, <2>2, <2>3 DEF KeysTyped
<1>3. CASE GetAsymmKeyPairs
    <2>0. /\ part' = "store" /\ left' = answer'
          /\ answer' = {[pair |-> k, revoked |-> k \in revoked] : k \in offered}
          /\ UNCHANGED <<mode, unsent, signing, upTo, shouldCancel, faults>>
          /\ UNCHANGED <<stored, timestamp, row, cache>> /\ UNCHANGED keys /\ UNCHANGED world
        BY <1>3 DEF GetAsymmKeyPairs
    <2>1. TablesTyped'
        BY <2>0 DEF KeysTyped, TablesTyped, keys, world
    <2>2. ASSUME NEW a \in answer'
          PROVE  a \in Answers /\ a.pair \in offered /\ (a.revoked => a.pair \in revoked)
        <3>1. PICK k \in offered : a = [pair |-> k, revoked |-> k \in revoked]
            BY <2>0
        <3>2. (k \in revoked) \in BOOLEAN /\ k \in Pairs
            BY <1>a
        <3> QED BY <3>1, <3>2 DEF Answers
    <2>3. SyncTyped'
        BY <2>0, <2>2 DEF KeysTyped, SyncTyped, PartsOfSync, world
    <2> QED BY <1>b, <2>0, <2>1, <2>3 DEF KeysTyped
<1>4. ASSUME NEW a \in left, StorePair(a) PROVE KeysTyped'
    <2>0. /\ left' = left \ {a} /\ UNCHANGED StoreFrame
          /\ \/ UNCHANGED <<pairs, revocations>>
             \/ /\ a.pair \notin NoPrivate
                /\ pairs' = pairs \cup {a.pair} /\ revocations' = Revocations(a)
        BY <1>4 DEF StorePair
    <2>f. /\ UNCHANGED <<part, mode, answer, unsent, signing, upTo, shouldCancel, faults>>
          /\ UNCHANGED <<privateDataKey, publicKeys, stored, timestamp, row, cache>> /\ UNCHANGED world
        BY <2>0 DEF StoreFrame
    <2>1. a.pair \in offered /\ (a.revoked => a.pair \in revoked)
        BY <1>a
    <2>2. /\ pairs \subseteq pairs' /\ pairs' \subseteq offered \ NoPrivate
          /\ revocations' \subseteq pairs' \cap revoked
        <3>1. CASE UNCHANGED <<pairs, revocations>>
            BY <3>1 DEF KeysTyped, TablesTyped
        <3>2. CASE /\ a.pair \notin NoPrivate
                   /\ pairs' = pairs \cup {a.pair} /\ revocations' = Revocations(a)
            BY <2>1, <3>2 DEF KeysTyped, TablesTyped, Revocations
        <3> QED BY <2>0, <3>1, <3>2
    <2>3. TablesTyped'
        BY <2>2, <2>f DEF KeysTyped, TablesTyped, world
    <2>4. SyncTyped'
        BY <2>0, <2>f DEF KeysTyped, SyncTyped, world
    <2> QED BY <1>b, <2>3, <2>4, <2>f DEF KeysTyped
<1> QED BY <1>1, <1>2, <1>3, <1>4

\* The parts that send.
LEMMA KeysTypedSend ==
    ASSUME KeysTyped,
           \/ \E new \in SUBSET Rows : Upload(new)
           \/ \E r \in Rows : Sign(r)
           \/ Post \/ AllSent \/ PostFails
    PROVE  KeysTyped'
<1>a. /\ row \in [Rows -> {"draft", "unsent", "delivered", "unknown"}] /\ cache \subseteq pairs
      /\ unsent \subseteq Rows /\ faults \in 0 .. MaxFaults /\ MaxFaults \in Nat
    BY KeysAssumption DEF KeysTyped, TablesTyped, SyncTyped
<1>b. UNCHANGED world => WorldTyped'
    BY DEF KeysTyped, WorldTyped, world
<1>c. ASSUME UNCHANGED world, UNCHANGED keys, UNCHANGED <<stored, timestamp>>,
             row' \in [Rows -> {"draft", "unsent", "delivered", "unknown"}], cache' \subseteq pairs
      PROVE  TablesTyped'
    BY <1>c DEF KeysTyped, TablesTyped, keys, world
<1>d. ASSUME UNCHANGED world, UNCHANGED <<mode, answer, left, upTo, shouldCancel>>,
             part' \in {"sign", "post", "download"}, unsent' \subseteq Rows,
             signing' \in [row : Rows, pair : Signature] \cup {NoKey}, faults' \in 0 .. MaxFaults
      PROVE  SyncTyped'
    BY <1>d DEF KeysTyped, SyncTyped, PartsOfSync, world
<1>e. ASSUME NEW r, NEW state \in {"draft", "unsent", "delivered", "unknown"}, Mark(r, state)
      PROVE  /\ row' \in [Rows -> {"draft", "unsent", "delivered", "unknown"}] /\ unsent' \subseteq Rows
    BY <1>a, <1>e DEF Mark
<1>f. signing \in [row : Rows, pair : Signature] \cup {NoKey}
    BY DEF KeysTyped, SyncTyped
<1>1. ASSUME NEW new \in SUBSET Rows, Upload(new) PROVE KeysTyped'
    <2>0. /\ part' = "sign" /\ row' = [r \in Rows |-> IF r \in new THEN "unsent" ELSE row[r]]
          /\ unsent' = {r \in Rows : row'[r] = "unsent"}
          /\ UNCHANGED <<mode, answer, left, upTo, shouldCancel>> /\ UNCHANGED <<signing, faults>>
          /\ UNCHANGED <<stored, timestamp>> /\ UNCHANGED keys /\ UNCHANGED world
        BY <1>1 DEF Upload
    <2>1. row' \in [Rows -> {"draft", "unsent", "delivered", "unknown"}] /\ unsent' \subseteq Rows
        BY <1>a, <2>0
    <2>2. cache' \subseteq pairs
        <3>1. CASE UNCHANGED cache
            BY <1>a, <3>1
        <3>2. ASSUME NEW enc \in LatestKeys(Encryption), NEW sig \in LatestKeys(Signature),
                     cache' = cache \cup {enc, sig}
              PROVE  cache' \subseteq pairs
            BY <1>a, <3>2, LatestKeysMeans
        <3> QED BY <1>1, <3>1, <3>2 DEF Upload
    <2> QED BY <1>a, <1>b, <1>c, <1>d, <1>f, <2>0, <2>1, <2>2 DEF KeysTyped
<1>2. ASSUME NEW r \in Rows, Sign(r) PROVE KeysTyped'
    <2>0. /\ part = "sign" /\ UNCHANGED <<mode, answer, left, upTo, shouldCancel>> /\ UNCHANGED faults
          /\ UNCHANGED <<stored, timestamp>> /\ UNCHANGED keys /\ UNCHANGED world
        BY <1>2 DEF Sign
    <2>1. CASE Mark(r, "unknown") /\ UNCHANGED <<cache, signing, part>>
        BY <1>a, <1>b, <1>c, <1>d, <1>e, <1>f, <2>0, <2>1 DEF KeysTyped
    <2>2. ASSUME NEW k \in LatestKeys(Signature), signing' = [row |-> r, pair |-> k],
                 cache' = cache \cup {k}, part' = "post", UNCHANGED <<row, unsent>>
          PROVE  KeysTyped'
        <3>1. k \in pairs /\ k \in Signature
            BY <2>2, LatestKeysMeans
        <3>2. signing' \in [row : Rows, pair : Signature] \cup {NoKey}
            BY <2>2, <3>1
        <3> QED BY <1>a, <1>b, <1>c, <1>d, <2>0, <2>2, <3>1, <3>2 DEF KeysTyped
    <2> QED BY <1>2, <2>1, <2>2 DEF Sign
<1>3. CASE Post \/ PostFails
    <2>0. /\ part' = "sign" /\ signing' = NoKey /\ UNCHANGED cache
          /\ UNCHANGED <<mode, answer, left, upTo, shouldCancel>>
          /\ UNCHANGED <<stored, timestamp>> /\ UNCHANGED keys /\ UNCHANGED world
          /\ Mark(signing.row, "delivered") \/ Mark(signing.row, "unknown")
        BY <1>3 DEF Post, PostFails
    <2>1. faults' \in 0 .. MaxFaults
        BY <1>3, <1>a DEF Post, PostFails, Fault
    <2> QED BY <1>a, <1>b, <1>c, <1>d, <1>e, <2>0, <2>1 DEF KeysTyped
<1>4. CASE AllSent
    <2>0. /\ UNCHANGED <<stored, timestamp, row, cache, faults>> /\ UNCHANGED keys /\ UNCHANGED world
          /\ \/ EndSync
             \/ part' = "download" /\ UNCHANGED <<mode, answer, left, unsent, signing, upTo, shouldCancel>>
        BY <1>4 DEF AllSent
    <2>1. TablesTyped'
        BY <1>a, <1>c, <2>0
    <2>2. SyncTyped'
        BY <1>a, <1>d, <1>f, <2>0, SyncEnded
    <2> QED BY <1>b, <2>0, <2>1, <2>2 DEF KeysTyped
<1> QED BY <1>1, <1>2, <1>3, <1>4

\* The messages that are downloaded.
LEMMA KeysTypedInbox ==
    ASSUME KeysTyped, Download \/ Decrypt \/ Decode \/ DownloadPublicKey \/ Stamp
    PROVE  KeysTyped'
<1>a. /\ inbox \in Seq(Msgs) /\ Len(inbox) \in Nat
      /\ cache \subseteq pairs /\ publicKeys \subseteq Signers /\ stored \subseteq Range(inbox)
      /\ published \subseteq Signers /\ timestamp \in 0 .. Len(inbox) /\ upTo \in 0 .. Len(inbox)
      /\ part \in {"verify", "fetch", "stamp"} => timestamp < upTo
    BY DEF KeysTyped, TablesTyped, SyncTyped, WorldTyped
<1>b. UNCHANGED world => WorldTyped'
    BY DEF KeysTyped, WorldTyped, world
<1>c. ASSUME UNCHANGED world, UNCHANGED <<privateDataKey, pairs, revocations, row>>,
             publicKeys' \subseteq Signers, stored' \subseteq Range(inbox),
             timestamp' \in 0 .. Len(inbox), cache' \subseteq pairs
      PROVE  TablesTyped'
    BY <1>c DEF KeysTyped, TablesTyped, world
<1>d. ASSUME UNCHANGED world, UNCHANGED inboxRun, UNCHANGED <<shouldCancel, faults>>,
             upTo' \in 0 .. Len(inbox),
             \/ part' = "decrypt"
             \/ part' \in {"verify", "fetch", "stamp"} /\ timestamp' < upTo'
      PROVE  SyncTyped'
    BY <1>d DEF KeysTyped, SyncTyped, PartsOfSync, inboxRun, world
<1>1. CASE Download
    <2>0. /\ upTo' = Len(inbox) /\ part' = "decrypt" /\ UNCHANGED <<stored, timestamp, row, cache>>
          /\ UNCHANGED world /\ UNCHANGED keys /\ UNCHANGED inboxRun /\ UNCHANGED <<shouldCancel, faults>>
        BY <1>1 DEF Download
    <2> QED BY <1>a, <1>b, <1>c, <1>d, <2>0 DEF KeysTyped, keys
<1>2. CASE Decrypt
    <2>0. /\ timestamp < upTo /\ part' \in {"verify", "stamp"}
          /\ UNCHANGED <<stored, timestamp, row, upTo>>
          /\ UNCHANGED world /\ UNCHANGED keys /\ UNCHANGED inboxRun /\ UNCHANGED <<shouldCancel, faults>>
          /\ \/ UNCHANGED cache
             \/ sealed[Current] \in cache \cup pairs /\ cache' = cache \cup {sealed[Current]}
        BY <1>2 DEF Decrypt, HasKey
    <2>1. cache' \subseteq pairs
        BY <1>a, <2>0
    <2> QED BY <1>a, <1>b, <1>c, <1>d, <2>0, <2>1 DEF KeysTyped, keys
<1>3. CASE Decode
    <2>0. /\ part = "verify" /\ part' \in {"fetch", "stamp"}
          /\ UNCHANGED <<timestamp, row, cache, upTo>>
          /\ UNCHANGED world /\ UNCHANGED keys /\ UNCHANGED inboxRun /\ UNCHANGED <<shouldCancel, faults>>
          /\ stored' \in {stored, stored \cup {Current}}
        BY <1>3 DEF Decode
    <2>1. timestamp < upTo
        BY <1>a, <2>0
    <2>2. stored' \subseteq Range(inbox)
        BY <1>a, <2>0, <2>1, CurrentIsOne
    <2> QED BY <1>a, <1>b, <1>c, <1>d, <2>0, <2>1, <2>2 DEF KeysTyped, keys
<1>4. CASE DownloadPublicKey
    <2>0. /\ part = "fetch" /\ part' \in {"verify", "stamp"}
          /\ UNCHANGED <<privateDataKey, pairs, revocations, stored, timestamp, row, cache, upTo>>
          /\ UNCHANGED world /\ UNCHANGED inboxRun /\ UNCHANGED <<shouldCancel, faults>>
          /\ \/ UNCHANGED publicKeys
             \/ /\ Signer[Current] \in published
                /\ publicKeys' = publicKeys \cup {Signer[Current]}
        BY <1>4 DEF DownloadPublicKey
    <2>1. timestamp < upTo /\ publicKeys' \subseteq Signers
        BY <1>a, <2>0
    <2> QED BY <1>a, <1>b, <1>c, <1>d, <2>0, <2>1 DEF KeysTyped
<1>5. CASE Stamp
    <2>0. /\ part = "stamp" /\ part' = "decrypt" /\ timestamp' = timestamp + 1
          /\ UNCHANGED <<stored, row, cache, upTo>>
          /\ UNCHANGED world /\ UNCHANGED keys /\ UNCHANGED inboxRun /\ UNCHANGED <<shouldCancel, faults>>
        BY <1>5 DEF Stamp
    <2>1. timestamp < upTo
        BY <1>a, <2>0
    <2>2. timestamp' \in 0 .. Len(inbox)
        BY <1>a, <2>0, <2>1
    <2> QED BY <1>a, <1>b, <1>c, <1>d, <2>0, <2>2 DEF KeysTyped, keys
<1> QED BY <1>1, <1>2, <1>3, <1>4, <1>5

\* A sync that ends, and a cancel.
LEMMA KeysTypedEnd ==
    ASSUME KeysTyped,
           \/ Finish \/ ThrowCanceled \/ Fail \/ Restart \/ Cancel \/ CannotOpen
           \/ \E a \in left : UnknownType(a)
    PROVE  KeysTyped'
<1>a. faults \in 0 .. MaxFaults /\ MaxFaults \in Nat
    BY KeysAssumption DEF KeysTyped, SyncTyped
<1>1. /\ UNCHANGED world /\ UNCHANGED keys /\ UNCHANGED <<stored, timestamp, row>>
      /\ cache' \subseteq pairs
    <2>1. cache \subseteq pairs
        BY DEF KeysTyped, TablesTyped
    <2>2. CASE CannotOpen
        BY <2>1, <2>2 DEF CannotOpen, Unopened, HasKey
    <2>3. CASE ~CannotOpen
        BY <2>1, <2>3 DEF Finish, ThrowCanceled, Fail, Restart, Cancel, UnknownType
    <2> QED BY <2>2, <2>3
<1>2. WorldTyped' /\ TablesTyped'
    BY <1>1 DEF KeysTyped, WorldTyped, TablesTyped, world, keys
<1>3. faults' \in 0 .. MaxFaults
    BY <1>a DEF Finish, ThrowCanceled, Fail, Restart, Cancel, Fault, CannotOpen, UnknownType
<1>4. SyncTyped'
    <2>1. CASE Cancel
        <3>1. /\ shouldCancel' = TRUE /\ UNCHANGED inboxRun /\ UNCHANGED <<part, upTo, timestamp>>
            BY <2>1 DEF Cancel
        <3>2. shouldCancel' \in BOOLEAN
            BY <3>1, Zenon
        <3> QED BY <1>1, <1>3, <3>1, <3>2 DEF KeysTyped, SyncTyped, inboxRun, world
    <2>2. CASE ~Cancel
        <3>1. EndSync
            BY <2>2 DEF Finish, ThrowCanceled, Fail, Restart, CannotOpen, UnknownType
        <3> QED BY <1>1, <1>3, <3>1, SyncEnded
    <2> QED BY <2>1, <2>2
<1> QED BY <1>2, <1>4 DEF KeysTyped

LEMMA KeysTypedNext == KeysTyped /\ [KeysNext]_keysVars => KeysTyped'
<1>1. KeysTyped /\ UNCHANGED keysVars => KeysTyped'
    <2> SUFFICES ASSUME KeysTyped, UNCHANGED keysVars PROVE KeysTyped'
        OBVIOUS
    <2>1. WorldTyped' /\ TablesTyped'
        BY DEF KeysTyped, WorldTyped, TablesTyped, keysVars, world, keys
    <2>2. SyncTyped'
        BY DEF KeysTyped, SyncTyped, keysVars, world, run
    <2> QED BY <2>1, <2>2 DEF KeysTyped
<1> QED BY <1>1, KeysTypedOthers, KeysTypedFetch, KeysTypedSend, KeysTypedInbox, KeysTypedEnd
        DEF KeysNext, Worker

\* Whatever is registered, revoked, received, fails or restarts in between: the
\* pairs that StorePair leaves in keys_asymm are pairs of the server that have a
\* private key, a revocation is of such a pair and true, and what is stored or
\* cached comes from there.
THEOREM KeysTypeCorrect == KeysSpec => []KeysTypeOK
<1> QED BY KeysTypedInit, KeysTypedNext, KeysTypedMeans, PTL DEF KeysSpec

-----------------------------------------------------------------------------
(* KeysSync: what is skipped and what is signed.                           *)

\* Each pair the server answered with is stored, or is about to be, or cannot be.
PairsArrive ==
    \A a \in answer : a.pair \in pairs \cup NoPrivate \/ (part = "store" /\ a \in left)

\* The message that is passed over next is one nobody here can open or verify.
PassedOver ==
    part = "stamp" /\ Current \notin stored =>
        \/ sealed[Current] \notin Usable \/ Signer[Current] \notin published
        \/ Form[Current] \in {"malformed", "forged"}

Arrived == KeysTyped /\ PairsArrive /\ PassedOver

LEMMA ArrivedInit == KeysInit => Arrived
<1> SUFFICES ASSUME KeysInit PROVE Arrived
    OBVIOUS
<1>1. PairsArrive /\ PassedOver
    BY DEF KeysInit, PairsArrive, PassedOver
<1> QED BY <1>1, KeysTypedInit DEF Arrived

\* Once they are stored, this sync has the pairs it can use.
LEMMA UsableIsStored == PairsArrive /\ (part = "store" => left = {}) => Usable \subseteq pairs
BY DEF PairsArrive, Usable

LEMMA ArrivedNext == Arrived /\ [KeysNext]_keysVars => Arrived'
<1> SUFFICES ASSUME Arrived, [KeysNext]_keysVars PROVE Arrived'
    OBVIOUS
<1>0. KeysTyped' /\ left \subseteq answer /\ (part \in {"verify", "fetch", "stamp"} => timestamp < upTo)
    BY KeysTypedNext DEF Arrived, KeysTyped, SyncTyped
<1>a. ASSUME UNCHANGED <<answer, pairs>>, part = "store" => left = {} PROVE PairsArrive'
    BY <1>a DEF Arrived, PairsArrive
<1>b. part' # "stamp" => PassedOver'
    BY DEF PassedOver
<1>c. EndSync => PairsArrive' /\ PassedOver'
    BY DEF EndSync, PairsArrive, PassedOver
\* nothing of this sync changes
<1>1. CASE Others \/ UNCHANGED keysVars
    <2>0. Grown /\ UNCHANGED here
        <3>1. CASE Others
            BY <3>1, OthersGrow DEF Arrived, KeysTyped
        <3>2. CASE UNCHANGED keysVars
            <4>1. Len(inbox) \in Nat /\ UNCHANGED world /\ UNCHANGED here
                BY <3>2 DEF keysVars, here, Arrived, KeysTyped, WorldTyped
            <4> QED BY <4>1 DEF Grown, world
        <3> QED BY <1>1, <3>1, <3>2
    <2>1. UNCHANGED <<answer, left, pairs, part, stored, timestamp>>
        BY <2>0 DEF here, keys, run
    <2>2. PairsArrive'
        BY <2>1 DEF Arrived, PairsArrive
    <2>3. PassedOver'
        <3> SUFFICES ASSUME part = "stamp"
                     PROVE  Current' \notin stored' =>
                              \/ sealed'[Current'] \notin Usable' \/ Signer[Current'] \notin published'
                              \/ Form[Current'] \in {"malformed", "forged"}
            BY <2>1 DEF PassedOver
        <3>1. timestamp + 1 \in 1 .. Len(inbox)
            BY <1>0, CurrentIsOne DEF Arrived
        <3>2. Current' = Current /\ sealed'[Current] = sealed[Current]
            BY <2>0, <2>1, <3>1 DEF Current, Grown
        <3>3. Usable' = Usable /\ published' \subseteq published
            BY <2>0, <2>1 DEF Usable, Grown
        <3> QED BY <2>1, <3>2, <3>3 DEF Arrived, PassedOver
    <2> QED BY <1>0, <2>2, <2>3 DEF Arrived
<1>2. ASSUME NEW m \in {"SendOnly", "Everything"}, StartSync(m) PROVE Arrived'
    <2>1. part = "idle" /\ part' = "symm" /\ UNCHANGED <<answer, pairs>>
        BY <1>2 DEF StartSync, keys
    <2> QED BY <1>0, <1>a, <1>b, <2>1 DEF Arrived
<1>3. CASE StorePrivateDataKey
    <2>1. part = "symm" /\ part' = "pairs" /\ UNCHANGED <<answer, pairs>>
        BY <1>3 DEF StorePrivateDataKey
    <2> QED BY <1>0, <1>a, <1>b, <2>1 DEF Arrived
<1>4. CASE GetAsymmKeyPairs
    <2>1. part' = "store" /\ left' = answer'
        BY <1>4 DEF GetAsymmKeyPairs
    <2>2. PairsArrive'
        BY <2>1 DEF PairsArrive
    <2> QED BY <1>0, <1>b, <2>1, <2>2 DEF Arrived
<1>5. ASSUME NEW a \in left, StorePair(a) PROVE Arrived'
    <2>1. /\ part = "store" /\ part' = part /\ answer' = answer /\ left' = left \ {a}
          /\ \/ a.pair \in NoPrivate /\ pairs' = pairs
             \/ pairs' = pairs \cup {a.pair}
        BY <1>5 DEF StorePair, StoreFrame
    <2>2. PairsArrive'
        BY <2>1 DEF Arrived, PairsArrive
    <2> QED BY <1>0, <1>b, <2>1, <2>2 DEF Arrived
<1>6. ASSUME NEW new \in SUBSET Rows, Upload(new) PROVE Arrived'
    <2>1. part = "store" /\ left = {} /\ part' = "sign" /\ UNCHANGED <<answer, pairs>>
        BY <1>6 DEF Upload, keys
    <2> QED BY <1>0, <1>a, <1>b, <2>1 DEF Arrived
<1>7. CASE (\E r \in Rows : Sign(r)) \/ Post \/ PostFails
    <2>1. part \in {"sign", "post"} /\ part' \in {"sign", "post"} /\ UNCHANGED <<answer, pairs>>
        BY <1>7 DEF Sign, Post, PostFails, keys
    <2> QED BY <1>0, <1>a, <1>b, <2>1 DEF Arrived
<1>8. CASE AllSent
    <2>1. CASE EndSync
        BY <1>0, <1>c, <2>1 DEF Arrived
    <2>2. CASE ~EndSync
        <3>1. part = "sign" /\ part' = "download" /\ UNCHANGED <<answer, pairs>>
            BY <1>8, <2>2 DEF AllSent, keys
        <3> QED BY <1>0, <1>a, <1>b, <3>1 DEF Arrived
    <2> QED BY <2>1, <2>2
<1>9. CASE Download
    <2>1. part = "download" /\ part' = "decrypt" /\ UNCHANGED <<answer, pairs>>
        BY <1>9 DEF Download, keys, inboxRun
    <2> QED BY <1>0, <1>a, <1>b, <2>1 DEF Arrived
<1>10. CASE Decrypt
    <2>1. /\ part = "decrypt" /\ UNCHANGED <<answer, pairs, timestamp, inbox, sealed>>
          /\ part' = "stamp" => sealed[Current] \notin cache \cup pairs
        BY <1>10 DEF Decrypt, HasKey, keys, inboxRun, world
    <2>2. PairsArrive'
        BY <1>a, <2>1
    <2>3. Usable' \subseteq pairs
        <3>1. Usable' = Usable
            BY <2>1 DEF Usable
        <3> QED BY <2>1, <3>1, UsableIsStored DEF Arrived
    <2>4. PassedOver'
        <3>1. Current' = Current /\ sealed' = sealed
            BY <2>1 DEF Current
        <3> QED BY <2>1, <2>3, <3>1 DEF PassedOver
    <2> QED BY <1>0, <2>2, <2>4 DEF Arrived
<1>11. CASE Decode
    <2>1. /\ part = "verify" /\ UNCHANGED <<answer, pairs, timestamp, inbox>>
          /\ part' = "stamp" => stored' = stored \cup {Current} \/ Form[Current] \in {"malformed", "forged"}
        BY <1>11 DEF Decode, keys, inboxRun, world
    <2>2. PairsArrive'
        BY <1>a, <2>1
    <2>3. PassedOver'
        <3>1. Current' = Current
            BY <2>1 DEF Current
        <3> QED BY <2>1, <3>1 DEF PassedOver
    <2> QED BY <1>0, <2>2, <2>3 DEF Arrived
<1>12. CASE DownloadPublicKey
    <2>1. /\ part = "fetch" /\ UNCHANGED <<answer, pairs, timestamp, inbox, published>>
          /\ part' = "stamp" => Signer[Current] \notin published
        BY <1>12 DEF DownloadPublicKey, inboxRun, world
    <2>2. PairsArrive'
        BY <1>a, <2>1
    <2>3. PassedOver'
        <3>1. Current' = Current
            BY <2>1 DEF Current
        <3> QED BY <2>1, <3>1 DEF PassedOver
    <2> QED BY <1>0, <2>2, <2>3 DEF Arrived
<1>13. CASE Stamp
    <2>1. part = "stamp" /\ part' = "decrypt" /\ UNCHANGED <<answer, pairs>>
        BY <1>13 DEF Stamp, keys, inboxRun
    <2> QED BY <1>0, <1>a, <1>b, <2>1 DEF Arrived
<1>14. CASE Finish \/ ThrowCanceled \/ Fail \/ Restart \/ CannotOpen \/ \E a \in left : UnknownType(a)
    <2>1. EndSync
        BY <1>14 DEF Finish, ThrowCanceled, Fail, Restart, CannotOpen, UnknownType
    <2> QED BY <1>0, <1>c, <2>1 DEF Arrived
<1>15. CASE Cancel
    <2>1. UNCHANGED <<answer, left, pairs, part, stored, timestamp, inbox, sealed, published>>
        BY <1>15 DEF Cancel, keys, inboxRun, world
    <2>2. PairsArrive'
        BY <2>1 DEF Arrived, PairsArrive
    <2>3. PassedOver'
        <3>1. Current' = Current /\ Usable' = Usable
            BY <2>1 DEF Current, Usable
        <3> QED BY <2>1, <3>1 DEF Arrived, PassedOver
    <2> QED BY <1>0, <2>2, <2>3 DEF Arrived
<1> QED BY <1>1, <1>2, <1>3, <1>4, <1>5, <1>6, <1>7, <1>8, <1>9, <1>10, <1>11, <1>12, <1>13, <1>14,
           <1>15 DEF KeysNext, Worker

\* MessagesSyncer's timestamp goes past a message that is not stored only if the
\* message is sealed with a pair this sync was not told of, or that the server
\* has no private key of, if its sender's key can no longer be fetched, or if it is
\* malformed or does not verify.
THEOREM SkipsForAReasonCorrect == KeysSpec => SkipsForAReason
<1>1. Arrived => [\A m \in Msgs :
                    part = "stamp" /\ timestamp' # timestamp /\ m = Current /\ m \notin stored =>
                        \/ sealed[m] \notin Usable \/ Signer[m] \notin published
                        \/ Form[m] \in {"malformed", "forged"}]_keysVars
    BY DEF Arrived, PassedOver
<1> QED BY <1>1, ArrivedInit, ArrivedNext, PTL DEF KeysSpec, SkipsForAReason

LEMMA SmallestOne ==
    ASSUME NEW numbers \in SUBSET Nat, numbers # {}
    PROVE  \E n \in numbers : \A other \in numbers : n <= other
<1> DEFINE less == OpToRel(<, Nat)
<1>1. IsWellFoundedOn(less, Nat)
    BY NatLessThanWellFounded, Zenon
<1>2. \A a \in Nat, b \in Nat : a < b => <<a, b>> \in less
    BY DEF OpToRel
<1> HIDE DEF less
<1>3. PICK n \in numbers : \A other \in numbers : ~(<<other, n>> \in less)
    BY <1>1, WFMin
<1>4. ASSUME NEW other \in numbers PROVE n <= other
    <2>1. ~(other < n) /\ other \in Nat /\ n \in Nat
        BY <1>2, <1>3
    <2> QED BY <2>1
<1> QED BY <1>4

\* As dates are bounded, one of the valid pairs, if there are any, is the newest.
LEMMA OneIsNewest ==
    ASSUME KeysTyped, NEW type \in SUBSET Pairs, LatestKeys(type) = {}
    PROVE  \A k \in pairs \cap type : ~IsValid(k)
<1> DEFINE valid == {k \in pairs \cap type : IsValid(k)}
           ages == {MaxTime - validFrom[k] : k \in valid}
<1>1. \A k \in valid : validFrom[k] \in 0 .. MaxTime
    BY KeysAssumption
<1>2. MaxTime \in Nat
    BY KeysAssumption
<1>3. ages \subseteq Nat
    <2>1. ASSUME NEW k \in valid PROVE MaxTime - validFrom[k] \in Nat
        BY <1>1, <1>2
    <2> QED BY <2>1
<1>4. LatestKeys(type) = {k \in valid : \A other \in valid : validFrom[other] <= validFrom[k]}
    BY DEF LatestKeys
<1>5. CASE valid = {}
    BY <1>5
<1>6. CASE valid # {}
    <2>1. PICK age \in ages : \A other \in ages : age <= other
        <3>1. ages # {}
            BY <1>6
        <3> HIDE DEF ages
        <3> QED BY <1>3, <3>1, SmallestOne
    <2>2. PICK k \in valid : age = MaxTime - validFrom[k]
        BY <2>1
    <2>3. ASSUME NEW other \in valid PROVE validFrom[other] <= validFrom[k]
        <3>1. MaxTime - validFrom[k] <= MaxTime - validFrom[other]
            BY <2>1, <2>2
        <3>2. validFrom[k] \in 0 .. MaxTime /\ validFrom[other] \in 0 .. MaxTime
            BY <1>1
        <3> QED BY <1>2, <3>1, <3>2
    <2> HIDE DEF valid
    <2> QED BY <1>4, <2>3
<1> QED BY <1>5, <1>6

LEMMA SigningStep ==
    ASSUME Arrived, [KeysNext]_keysVars, part = "sign"
    PROVE  /\ part' = "post" =>
                /\ IsValid(signing'.pair)
                /\ \A k \in Usable \cap Signature :
                      IsValid(k) => validFrom[k] <= validFrom[signing'.pair]
           /\ (\E r \in Rows : row[r] # "unknown" /\ row'[r] = "unknown") =>
                \A k \in Usable \cap Signature : ~IsValid(k)
<1>1. Usable \subseteq pairs
    BY UsableIsStored DEF Arrived
<1>2. \A k \in Usable \cap Signature : k \in pairs \cap Signature
    BY <1>1
<1>3. ASSUME NEW r \in Rows, Sign(r), LatestKeys(Signature) # {}, part' = "post"
      PROVE  /\ IsValid(signing'.pair) /\ row' = row
             /\ \A k \in Usable \cap Signature :
                   IsValid(k) => validFrom[k] <= validFrom[signing'.pair]
    <2>1. PICK k \in LatestKeys(Signature) : signing' = [row |-> r, pair |-> k] /\ row' = row
        BY <1>3 DEF Sign
    <2> QED BY <1>2, <2>1 DEF LatestKeys
<1>4. ASSUME NEW r \in Rows, Sign(r)
      PROVE  \/ LatestKeys(Signature) = {} /\ part' = part
             \/ LatestKeys(Signature) # {} /\ part' = "post"
    BY <1>4 DEF Sign
<1>5. CASE \E r \in Rows : Sign(r)
    <2>1. CASE LatestKeys(Signature) # {}
        BY <1>3, <1>4, <1>5, <2>1
    <2>2. CASE LatestKeys(Signature) = {}
        <3>1. Signature \in SUBSET Pairs
            BY DEF Pairs
        <3>2. \A k \in pairs \cap Signature : ~IsValid(k)
            BY <2>2, <3>1, OneIsNewest DEF Arrived
        <3>3. \A k \in Usable \cap Signature : ~IsValid(k)
            BY <1>2, <3>2
        <3> QED BY <1>4, <1>5, <2>2, <3>3
    <2> QED BY <2>1, <2>2
<1>6. CASE ~\E r \in Rows : Sign(r)
    <2>1. row' = row /\ part' # "post"
        <3>1. CASE Others
            BY <3>1, OthersGrow DEF Arrived, KeysTyped, here, run
        <3>2. CASE ~Others
            BY <1>6, <3>2 DEF KeysNext, Worker, StartSync, StorePrivateDataKey, GetAsymmKeyPairs, StorePair, UnknownType,
                    Upload, Post, AllSent, Download, Decrypt, CannotOpen, Decode, DownloadPublicKey, Stamp, Finish,
                    ThrowCanceled, Fail, PostFails, Cancel, Restart, EndSync, keysVars, run
        <3> QED BY <3>1, <3>2
    <2> QED BY <2>1
<1> QED BY <1>5, <1>6

\* MessagesSender signs with the newest of the valid pairs that the server had when
\* this sync asked, or a newer one, and marks a row as failed for want of a pair
\* only if none of these is valid: KeysSyncer, which came before, stored them all.
THEOREM SignsWithNewestCorrect == KeysSpec => SignsWithNewest
<1>1. Arrived /\ [KeysNext]_keysVars =>
        [part = "sign" =>
            /\ part' = "post" =>
                /\ IsValid(signing'.pair)
                /\ \A k \in Usable \cap Signature :
                    IsValid(k) => validFrom[k] <= validFrom[signing'.pair]
            /\ (\E r \in Rows : row[r] # "unknown" /\ row'[r] = "unknown") =>
                \A k \in Usable \cap Signature : ~IsValid(k)]_keysVars
    BY SigningStep, Zenon
<1> QED BY <1>1, ArrivedInit, ArrivedNext, PTL DEF KeysSpec, SignsWithNewest

=============================================================================
