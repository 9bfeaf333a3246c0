----------------------------- MODULE SyncService ----------------------------
(***************************************************************************)
(* The service that the queue of SyncerImpl gives (api_impl/syncerimpl.cpp)*)
(* seen as sets of work: one sync at a time, no request is forgotten by the*)
(* merging, and nothing else is done than what was requested.  This is the *)
(* code's service and not all of what api/Syncer.h says: lines 21-25 there *)
(* say that a SendOnly sync that runs is cancelled by a larger request, and*)
(* that SendOnly is dropped while a larger sync runs.  requestSync() looks *)
(* at what is enqueued only: the one goes on to its end, the other is owed *)
(* and done afterwards.                                                    *)
(***************************************************************************)
CONSTANT Work       \* what can be asked for

VARIABLES
    owed,           \* asked for and not begun
    active          \* what the running sync does; {} when there is none

Init == owed = {} /\ active = {}

Begin(wanted) ==
    \E c \in (SUBSET wanted) \ {{}} :
        /\ active' = c
        /\ owed' = wanted \ c

\* A sync starts at once, unless one is running.
Request(asked) ==
    IF active = {} THEN Begin(owed \cup asked)
                   ELSE owed' = owed \cup asked /\ UNCHANGED active

\* The next sync is begun when one has ended, but not after an error.
Finish ==
    /\ active # {}
    /\ IF owed = {} THEN active' = {} /\ UNCHANGED owed ELSE Begin(owed)

Error ==
    /\ active # {}
    /\ active' = {}
    /\ UNCHANGED owed

Cancel == owed' = {} /\ active' = {}

Next ==
    \/ \E asked \in (SUBSET Work) \ {{}} : Request(asked)
    \/ Finish \/ Error \/ Cancel

Spec == Init /\ [][Next]_<<owed, active>>

=============================================================================
