----------------------------- MODULE Supervisor -----------------------------
(***************************************************************************)
(* The life of the resiliency orchestrator (infrastructure/orchestrator.py)*)
(* and of the monitors it starts and stops: which components it could      *)
(* make, which of their events it listens to, and the loops that run in    *)
(* threads of their own.  A stop waits for a loop only so long.            *)
(***************************************************************************)
EXTENDS Integers, Sequences

CONSTANTS
    Monitors,        \* the monitors in the order they are stopped, the orchestrator's own loop first
    Makeable,        \* other components it makes
    MaxLoops         \* BOUND: loops of one monitor

VARIABLES
    svReady,         \* _initialized
    svMade,          \* components that could be made
    svHeard,         \* components whose events are listened to, each as often as it was registered
    svAt,            \* the caller of start or stop: "idle", or what it does at which monitor
    svFlag,          \* of each monitor: _running
    svLoops,         \* of each monitor: its live loops
    svLast,          \* of each monitor: whether the loop started last, the one joined, is alive
    svOverrun        \* monitors whose stop did not wait for the loop to end

supervisorVars == <<svReady, svMade, svHeard, svAt, svFlag, svLoops, svLast, svOverrun>>

Places == 1 .. Len(Monitors)
MonitorSet == {Monitors[i] : i \in Places}
Orchestrator == Monitors[1]
NoCall == [call |-> "idle", at |-> 0]

\* The components whose events it listens to, when there is an alert system to tell.
Speaking == {"failover", "broker", "internet", "health", "power"}

ASSUME SupervisorAssumption ==
    /\ Monitors \in Seq(STRING) /\ Len(Monitors) >= 1
    /\ \A i, j \in 1 .. Len(Monitors) : Monitors[i] = Monitors[j] => i = j
    /\ MaxLoops \in Nat

SupervisorInit ==
    /\ svReady = FALSE /\ svMade = {} /\ svHeard = [m \in Speaking |-> 0]
    /\ svAt = NoCall
    /\ svFlag = [m \in MonitorSet |-> FALSE]
    /\ svLoops = [m \in MonitorSet |-> 0]
    /\ svLast = [m \in MonitorSet |-> FALSE]
    /\ svOverrun = {}

-----------------------------------------------------------------------------
(* initialize: a component that cannot be made is logged and left out; the *)
(* events are registered once, of the components that are there.           *)

Initialize(made) ==
    /\ svAt = NoCall
    /\ IF svReady THEN UNCHANGED <<svReady, svMade, svHeard>>
       ELSE /\ svReady' = TRUE
            /\ svMade' = made
            /\ svHeard' = [m \in Speaking |->
                             IF m \in made /\ "alerts" \in made THEN svHeard[m] + 1 ELSE svHeard[m]]
    /\ UNCHANGED <<svAt, svFlag, svLoops, svLast, svOverrun>>

-----------------------------------------------------------------------------
(* start and stop, monitor by monitor; start comes to its own loop last.   *)

Exists(m) == m = Orchestrator \/ m \in svMade

\* start goes 2, 3, ..., 1 and stop 1, 2, ...
FirstStart == IF Len(Monitors) = 1 THEN 1 ELSE 2
AfterStart(i) == IF i = 1 THEN NoCall
                 ELSE [call |-> "start", at |-> IF i = Len(Monitors) THEN 1 ELSE i + 1]
AfterStop(i) == IF i = Len(Monitors) THEN NoCall ELSE [call |-> "stop", at |-> i + 1]

StartCalled ==
    /\ svAt = NoCall /\ ~svFlag[Orchestrator]
    /\ svAt' = [call |-> "start", at |-> FirstStart]
    /\ UNCHANGED <<svReady, svMade, svHeard, svFlag, svLoops, svLast, svOverrun>>

\* start_monitoring: nothing if it runs, otherwise the flag and a new thread.
MonitorStart(i) ==
    LET m == Monitors[i] IN
    /\ svAt = [call |-> "start", at |-> i]
    /\ svAt' = AfterStart(i)
    /\ IF Exists(m) /\ ~svFlag[m]
       THEN /\ svLoops[m] < MaxLoops
            /\ svFlag' = [svFlag EXCEPT ![m] = TRUE]
            /\ svLoops' = [svLoops EXCEPT ![m] = @ + 1]
            /\ svLast' = [svLast EXCEPT ![m] = TRUE]
       ELSE UNCHANGED <<svFlag, svLoops, svLast>>
    /\ UNCHANGED <<svReady, svMade, svHeard, svOverrun>>

StopCalled ==
    /\ svAt = NoCall
    /\ svAt' = [call |-> "stop", at |-> 1]
    /\ UNCHANGED <<svReady, svMade, svHeard, svFlag, svLoops, svLast, svOverrun>>

\* stop_monitoring takes the flag back ...
MonitorStop(i) ==
    LET m == Monitors[i] IN
    /\ svAt = [call |-> "stop", at |-> i]
    /\ IF Exists(m)
       THEN svAt' = [call |-> "join", at |-> i] /\ svFlag' = [svFlag EXCEPT ![m] = FALSE]
       ELSE svAt' = AfterStop(i) /\ UNCHANGED svFlag
    /\ UNCHANGED <<svReady, svMade, svHeard, svLoops, svLast, svOverrun>>

\* ... and waits for the thread started last, 5 or 10 seconds at most: the orchestrator's
\* loop sleeps 30.
MonitorJoin(i) ==
    LET m == Monitors[i] IN
    /\ svAt = [call |-> "join", at |-> i]
    /\ svAt' = AfterStop(i)
    /\ svOverrun' = IF svLast[m] THEN svOverrun \cup {m} ELSE svOverrun
    /\ UNCHANGED <<svReady, svMade, svHeard, svFlag, svLoops, svLast>>

\* A loop that wakes and finds the flag down ends; one that wakes after another start
\* goes on.
LoopEnds(m, isLast) ==
    /\ ~svFlag[m]
    /\ IF isLast THEN svLast[m] ELSE svLoops[m] > (IF svLast[m] THEN 1 ELSE 0)
    /\ svLoops' = [svLoops EXCEPT ![m] = @ - 1]
    /\ svLast' = [svLast EXCEPT ![m] = @ /\ ~isLast]
    /\ UNCHANGED <<svReady, svMade, svHeard, svAt, svFlag, svOverrun>>

SupervisorNext ==
    \/ \E made \in SUBSET (Makeable \cup (MonitorSet \ {Orchestrator})) : Initialize(made)
    \/ StartCalled \/ StopCalled
    \/ \E i \in Places : MonitorStart(i) \/ MonitorStop(i) \/ MonitorJoin(i)
    \/ \E m \in MonitorSet, isLast \in BOOLEAN : LoopEnds(m, isLast)

SupervisorSpec == SupervisorInit /\ [][SupervisorNext]_supervisorVars

-----------------------------------------------------------------------------
(* Correctness.                                                            *)

\* A monitor never has two loops, and none after it was stopped, unless a stop gave up
\* waiting for one (orchestrator.py:257-289): a loop left behind goes on beside the next.
OneLoop == \A m \in MonitorSet \ svOverrun :
    /\ svLoops[m] <= 1
    /\ svAt = NoCall /\ ~svFlag[m] => svLoops[m] = 0

\* No event is listened to twice, and none without somebody to tell it to
\* (orchestrator.py:119-140).
HeardOnce == \A m \in Speaking :
    svHeard[m] = IF m \in svMade /\ "alerts" \in svMade THEN 1 ELSE 0

SupervisorTypeOK ==
    /\ svReady \in BOOLEAN /\ svMade \subseteq Makeable \cup MonitorSet
    /\ svHeard \in [Speaking -> Nat]
    /\ svAt \in [call : {"idle", "start", "stop", "join"}, at : 0 .. Len(Monitors)]
    /\ svFlag \in [MonitorSet -> BOOLEAN] /\ svLoops \in [MonitorSet -> 0 .. MaxLoops]
    /\ svLast \in [MonitorSet -> BOOLEAN] /\ svOverrun \subseteq MonitorSet
    /\ OneLoop /\ HeardOnce
=============================================================================
