----------------------------- MODULE MultiNode -----------------------------
(***************************************************************************)
(* infrastructure/multi_node.py: MultiNodeOrchestrator, which elects a     *)
(* leader among registered nodes.  Every method runs under one             *)
(* threading.Lock, which is not reentrant; check_failovers calls           *)
(* elect_leader, which takes the lock again, while it holds it.            *)
(***************************************************************************)
EXTENDS Naturals, FiniteSets

CONSTANTS
    Nodes,    \* node ids register_node may hand out
    None,     \* no leader
    Steady    \* nodes whose heartbeats never stop

VARIABLES
    status,   \* NodeStatus, "absent" before register_node
    late,     \* not is_alive: failover_timeout has passed since the last heartbeat
    leader,   \* leader_id
    load,     \* nodes whose load_score is the lowest, set from outside
    locked    \* whether a caller that holds the lock waits for it

vars == <<status, late, leader, load, locked>>

Init ==
    /\ status = [n \in Nodes |-> "absent"]
    /\ late = [n \in Nodes |-> FALSE]
    /\ leader = None
    /\ load = Nodes
    /\ locked = FALSE

Registered == {n \in Nodes : status[n] # "absent"}

Register(n) ==
    /\ ~locked
    /\ n \notin Registered
    /\ status' = [status EXCEPT ![n] = "standby"]
    /\ late' = [late EXCEPT ![n] = FALSE]
    /\ UNCHANGED <<leader, load, locked>>

Heartbeat(n) ==
    /\ ~locked
    /\ n \in Registered
    /\ late' = [late EXCEPT ![n] = FALSE]
    /\ status' = [status EXCEPT ![n] = "active"]
    /\ UNCHANGED <<leader, load, locked>>

FallSilent(n) ==
    /\ n \in Registered \ Steady
    /\ late' = [late EXCEPT ![n] = TRUE]
    /\ UNCHANGED <<status, leader, load, locked>>

SetLoad(S) ==
    /\ load' = S
    /\ UNCHANGED <<status, late, leader, locked>>

Eligible == {n \in Registered : ~late[n]} \ {leader}

LeastLoaded(S) == IF S \intersect load # {} THEN S \intersect load ELSE S

ElectLeader ==
    /\ ~locked
    /\ Eligible # {}
    /\ leader' \in LeastLoaded(Eligible)
    /\ status' = [n \in Nodes |-> IF n = leader' THEN "active"
                                  ELSE IF status[n] = "active" THEN "standby" ELSE status[n]]
    /\ UNCHANGED <<late, load, locked>>

\* A leader that is silent is dropped, and elect_leader waits for the lock its own
\* caller holds.
CheckFailovers ==
    /\ ~locked
    /\ status' = [n \in Nodes |-> IF n \in Registered /\ late[n] THEN "failed" ELSE status[n]]
    /\ IF leader # None /\ late[leader]
       THEN leader' = None /\ locked' = TRUE
       ELSE UNCHANGED <<leader, locked>>
    /\ UNCHANGED <<late, load>>

Next ==
    \/ \E n \in Nodes : Register(n) \/ Heartbeat(n) \/ FallSilent(n)
    \/ \E S \in SUBSET Nodes : SetLoad(S)
    \/ ElectLeader
    \/ CheckFailovers

Spec == Init /\ [][Next]_vars

\* Whoever watches the cluster goes on calling check_failovers.
FairSpec == Spec /\ WF_vars(CheckFailovers)

-----------------------------------------------------------------------------

\* A leader that fell silent, while some other node is steady, is replaced
\* (multi_node.py:2, 106: "Leader %s failed, triggering re-election").
LeaderReplaced ==
    \A n \in Nodes \ Steady :
      leader = n /\ late[n] /\ Registered \intersect Steady # {}
        ~> leader \notin {n, None} \/ (leader = n /\ ~late[n])
=============================================================================
