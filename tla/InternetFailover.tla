-------------------------- MODULE InternetFailover --------------------------
(***************************************************************************)
(* infrastructure/internet_failover.py: several internet connections, one  *)
(* of them active.  The monitor thread tests every connection in turn, the *)
(* socket outside the lock, and moves to another only when all tests of    *)
(* the round failed.  Nothing in the repository calls set_active_isp or    *)
(* trigger_failover from elsewhere, so the active connection is set once.  *)
(***************************************************************************)
EXTENDS Integers, FiniteSets

CONSTANTS
    Isps,
    NoIsp,
    IspPriority,       \* priority each connection registers with
    FailureThreshold   \* failed tests in a row after which a connection is given up (3)

ASSUME IspAssumption ==
    /\ NoIsp \notin Isps
    /\ IspPriority \in [Isps -> Int]
    /\ FailureThreshold \in Nat \ {0}

VARIABLES
    ispStatus,    \* ISPStatus, "absent" before register_isp
    ispFails,     \* consecutive_failures, counted to FailureThreshold
    activeIsp,    \* active_isp_id
    link,         \* how the connection behaves: "up", "slow" or "down"
    ispTodo,      \* connections this round has not tested yet
    ispTesting,   \* connection under test, between the two locked parts
    ispReplaced,  \* the record under test was registered anew meanwhile
    ispAnyOk,     \* whether a test of this round succeeded
    ispRound      \* whether a round is under way

ispVars == <<ispStatus, ispFails, activeIsp, link, ispTodo, ispTesting, ispReplaced,
             ispAnyOk, ispRound>>

IspStatuses == {"absent", "unknown", "connected", "degraded", "disconnected"}

IspInit ==
    /\ ispStatus = [i \in Isps |-> "absent"]
    /\ ispFails = [i \in Isps |-> 0]
    /\ activeIsp = NoIsp
    /\ link = [i \in Isps |-> "up"]
    /\ ispTodo = {} /\ ispTesting = NoIsp /\ ispReplaced = FALSE
    /\ ispAnyOk = FALSE /\ ispRound = FALSE

KnownIsps == {i \in Isps : ispStatus[i] # "absent"}

\* The record is replaced; a test under way writes its result to the old one.
RegisterIsp(i) ==
    /\ ispStatus' = [ispStatus EXCEPT ![i] = "unknown"]
    /\ ispFails' = [ispFails EXCEPT ![i] = 0]
    /\ ispReplaced' = (ispReplaced \/ ispTesting = i)
    /\ UNCHANGED <<activeIsp, link, ispTodo, ispTesting, ispAnyOk, ispRound>>

SetActiveIsp(i) ==
    /\ activeIsp = NoIsp
    /\ i \in KnownIsps
    /\ activeIsp' = i
    /\ ispStatus' = [ispStatus EXCEPT ![i] = "connected"]
    /\ UNCHANGED <<ispFails, link, ispTodo, ispTesting, ispReplaced, ispAnyOk, ispRound>>

LinkTurns(i) ==
    /\ \E b \in {"up", "slow", "down"} \ {link[i]} : link' = [link EXCEPT ![i] = b]
    /\ UNCHANGED <<ispStatus, ispFails, activeIsp, ispTodo, ispTesting, ispReplaced, ispAnyOk, ispRound>>

-----------------------------------------------------------------------------
(* The monitor's round: test_all_connections, then the decision *)

BeginRound ==
    /\ ~ispRound
    /\ ispRound' = TRUE
    /\ ispTodo' = KnownIsps
    /\ ispAnyOk' = FALSE
    /\ UNCHANGED <<ispStatus, ispFails, activeIsp, link, ispTesting, ispReplaced>>

BeginTest(i) ==
    /\ ispTesting = NoIsp /\ i \in ispTodo
    /\ ispTesting' = i
    /\ ispReplaced' = FALSE
    /\ ispTodo' = ispTodo \ {i}
    /\ UNCHANGED <<ispStatus, ispFails, activeIsp, link, ispAnyOk, ispRound>>

\* Variant: a failed test counts as the first one each time.
AfterTestRestart(i) ==
    CASE link[i] = "up"   -> <<"connected", 0>>
      [] link[i] = "slow" -> <<"degraded", 0>>
      [] OTHER            -> <<IF FailureThreshold = 1 THEN "disconnected" ELSE "degraded", 1>>

\* Status and failures in a row after a test of connection i.
AfterTest(i) ==
    LET failures == IF ispFails[i] < FailureThreshold THEN ispFails[i] + 1 ELSE FailureThreshold IN
    CASE link[i] = "up"   -> <<"connected", 0>>
      [] link[i] = "slow" -> <<"degraded", 0>>
      [] OTHER -> <<IF failures >= FailureThreshold THEN "disconnected" ELSE "degraded", failures>>

EndTest ==
    /\ ispTesting # NoIsp
    /\ IF ispReplaced THEN UNCHANGED <<ispStatus, ispFails>>
       ELSE /\ ispStatus' = [ispStatus EXCEPT ![ispTesting] = AfterTest(ispTesting)[1]]
            /\ ispFails' = [ispFails EXCEPT ![ispTesting] = AfterTest(ispTesting)[2]]
    /\ ispAnyOk' = (ispAnyOk \/ link[ispTesting] # "down")
    /\ ispTesting' = NoIsp
    /\ UNCHANGED <<activeIsp, link, ispTodo, ispReplaced, ispRound>>

\* Variant: connections that were given up are chosen as well.
BackupIspsAny(s) ==
    LET C == {i \in KnownIsps \ {s} : IspPriority[i] > -1}
    IN  {i \in C : \A j \in C : IspPriority[j] <= IspPriority[i]}

BackupIsps(s) ==
    LET C == {i \in KnownIsps \ {s} : ispStatus[i] # "disconnected" /\ IspPriority[i] > -1}
    IN  {i \in C : \A j \in C : IspPriority[j] <= IspPriority[i]}

\* trigger_failover, one locked section.
MoveIsp ==
    \E i \in BackupIsps(activeIsp) :
      /\ ispStatus' = [ispStatus EXCEPT ![activeIsp] = "disconnected", ![i] = "connected"]
      /\ activeIsp' = i

\* The round is healthy if any connection is, the active one or not.
EndRound ==
    /\ ispRound /\ ispTodo = {} /\ ispTesting = NoIsp
    /\ IF ~ispAnyOk /\ activeIsp # NoIsp /\ BackupIsps(activeIsp) # {} THEN MoveIsp
       ELSE UNCHANGED <<ispStatus, activeIsp>>
    /\ ispRound' = FALSE
    /\ UNCHANGED <<ispFails, link, ispTodo, ispTesting, ispReplaced, ispAnyOk>>

MonitorIsps == BeginRound \/ (\E i \in Isps : BeginTest(i)) \/ EndTest \/ EndRound

IspNext ==
    \/ \E i \in Isps : RegisterIsp(i) \/ SetActiveIsp(i) \/ LinkTurns(i)
    \/ MonitorIsps

\* The monitor thread loops.
IspFairness == WF_ispVars(MonitorIsps)

IspSpec == IspInit /\ [][IspNext]_ispVars /\ IspFairness

-----------------------------------------------------------------------------

\* Types, and the rule between the two records of failure: a connection that failed
\* FailureThreshold tests in a row is marked disconnected (internet_failover.py:175).
IspTypeOK ==
    /\ ispStatus \in [Isps -> IspStatuses]
    /\ ispFails \in [Isps -> 0..FailureThreshold]
    /\ activeIsp \in KnownIsps \union {NoIsp}
    /\ link \in [Isps -> {"up", "slow", "down"}]
    /\ ispTodo \subseteq KnownIsps
    /\ ispTesting \in KnownIsps \union {NoIsp}
    /\ ispReplaced \in BOOLEAN /\ ispAnyOk \in BOOLEAN /\ ispRound \in BOOLEAN

\* Once the active connection is set, the monitor never moves to a connection that
\* failed its last FailureThreshold tests in a row (internet_failover.py:282-296).
GivenUpStaysOut ==
    [][activeIsp # NoIsp /\ activeIsp' # activeIsp => ispFails[activeIsp'] < FailureThreshold]_ispVars

\* While every connection is down, the monitor stops moving between them: each failed
\* test brings a connection nearer to being given up (internet_failover.py:169-178).
FlappingEnds ==
    <>[](\A i \in Isps : link[i] = "down") /\ <>[][\A i \in Isps : ~RegisterIsp(i)]_ispVars
      => <>[][activeIsp' = activeIsp]_ispVars
=============================================================================
