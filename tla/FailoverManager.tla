-------------------------- MODULE FailoverManager --------------------------
(***************************************************************************)
(* infrastructure/failover_manager.py: node failover by heartbeats.        *)
(*                                                                         *)
(* Three kinds of threads call trigger_failover: the monitor, with the     *)
(* node it found failed; the resiliency orchestrator, with no argument;    *)
(* and the REST view, with any source and target.  trigger_failover holds  *)
(* the lock while it claims the failover and again while it switches; it   *)
(* chooses the backup between the two, without the lock.                   *)
(***************************************************************************)
EXTENDS Integers, FiniteSets

CONSTANTS
    Nodes,      \* node ids
    None,       \* no node
    Priority,   \* priority each node registers with
    Known,      \* nodes registered before the threads start
    Threads,    \* threads that trigger failovers: a subset of ThreadIds
    Operated    \* whether nodes are re-registered, recovered and set active by hand

ThreadIds == {"monitor", "orchestrator", "api"}

ASSUME FailoverAssumption ==
    /\ None \notin Nodes
    /\ Priority \in [Nodes -> Int]
    /\ Known \subseteq Nodes
    /\ Threads \subseteq ThreadIds
    /\ Operated \in BOOLEAN

VARIABLES
    status,   \* nodes[n]['status'], "absent" before register_node
    active,   \* active_node_id
    state,    \* FailoverState
    up,       \* whether the node's heartbeats arrive
    late,     \* whether the last one is more than the threshold ago
    todo,     \* nodes the monitor found failed and has not looked at
    pc, src, tgt   \* each thread's place in trigger_failover and its arguments

nodeVars   == <<status, active, state>>
threadVars == <<todo, pc, src, tgt>>
vars       == <<nodeVars, up, late, threadVars>>

Statuses == {"absent", "standby", "active", "failed", "recovering"}

Init ==
    /\ status = [n \in Nodes |-> IF n \in Known THEN "standby" ELSE "absent"]
    /\ active = None
    /\ state = "normal"
    /\ up = [n \in Nodes |-> n \in Known]
    /\ late = [n \in Nodes |-> FALSE]
    /\ todo = {}
    /\ pc = [t \in ThreadIds |-> "idle"]
    /\ src = [t \in ThreadIds |-> None]
    /\ tgt = [t \in ThreadIds |-> None]

Registered(n) == status[n] # "absent"

-----------------------------------------------------------------------------
(* Nodes and operators *)

\* Threads walking self.nodes to choose a backup.
Walking == {t \in ThreadIds : pc[t] = "select" /\ tgt[t] = None}

\* A node that is new changes the size of the dictionary: a walk over it that is
\* under way may raise, which leaves trigger_failover, and in the monitor the round.
Register(n) ==
    /\ Operated
    /\ status' = [status EXCEPT ![n] = "standby"]
    /\ up' = [up EXCEPT ![n] = TRUE]
    /\ late' = [late EXCEPT ![n] = FALSE]
    /\ \E broken \in SUBSET (IF Registered(n) THEN {} ELSE Walking) :
         /\ pc' = [t \in ThreadIds |-> IF t \in broken THEN "idle" ELSE pc[t]]
         /\ src' = [t \in ThreadIds |-> IF t \in broken THEN None ELSE src[t]]
         /\ todo' = IF "monitor" \in broken THEN {} ELSE todo
    /\ UNCHANGED <<active, state, tgt>>

SetActive(n) ==
    /\ Operated \/ active = None
    /\ Registered(n)
    /\ status' = [m \in Nodes |-> IF m = n THEN "active"
                                  ELSE IF m = active THEN "standby" ELSE status[m]]
    /\ active' = n
    /\ UNCHANGED <<state, up, late, threadVars>>

Heartbeat(n) ==
    /\ up[n]
    /\ Registered(n)
    /\ late' = [late EXCEPT ![n] = FALSE]
    /\ status' = [status EXCEPT ![n] = IF @ = "failed" THEN "standby" ELSE @]
    /\ UNCHANGED <<active, state, up, threadVars>>

GoDown(n) ==
    /\ Registered(n) /\ up[n]
    /\ up' = [up EXCEPT ![n] = FALSE]
    /\ UNCHANGED <<nodeVars, late, threadVars>>

ComeBack(n) ==
    /\ Registered(n) /\ ~up[n]
    /\ up' = [up EXCEPT ![n] = TRUE]
    /\ UNCHANGED <<nodeVars, late, threadVars>>

\* missed_heartbeats_threshold intervals go by without a heartbeat.
Miss(n) ==
    /\ Registered(n) /\ ~up[n]
    /\ late' = [late EXCEPT ![n] = TRUE]
    /\ UNCHANGED <<nodeVars, up, threadVars>>

\* The status is all that changes: the last heartbeat stays as long ago as it was.
TriggerRecovery(n) ==
    /\ Operated
    /\ status[n] = "failed"
    /\ status' = [status EXCEPT ![n] = "recovering"]
    /\ UNCHANGED <<active, state, up, late, threadVars>>

-----------------------------------------------------------------------------
(* The monitor: check_failures, then one look at each node it returned *)

\* Variant: every node that is marked active is passed over.
NewlyFailedSkipActive ==
    {n \in Nodes : late[n] /\ status[n] \notin {"absent", "failed", "active"}}

NewlyFailed ==
    {n \in Nodes : /\ late[n]
                   /\ status[n] \notin {"absent", "failed"}
                   /\ ~(status[n] = "active" /\ n # active)}

CheckFailures ==
    /\ "monitor" \in Threads
    /\ pc["monitor"] = "idle" /\ todo = {}
    /\ status' = [n \in Nodes |-> IF n \in NewlyFailed THEN "failed" ELSE status[n]]
    /\ todo' = NewlyFailed
    /\ UNCHANGED <<active, state, up, late, pc, src, tgt>>

Call(t, s, g) ==
    /\ t \in Threads
    /\ pc[t] = "idle"
    /\ pc' = [pc EXCEPT ![t] = "start"]
    /\ src' = [src EXCEPT ![t] = s]
    /\ tgt' = [tgt EXCEPT ![t] = g]
    /\ UNCHANGED <<nodeVars, up, late>>

\* Variant: every failed node is failed over, the active one or not.
LookAtAny(n) ==
    /\ pc["monitor"] = "idle" /\ n \in todo
    /\ todo' = todo \ {n}
    /\ Call("monitor", n, None)

\* active_node_id is read without the lock.
LookAt(n) ==
    /\ pc["monitor"] = "idle" /\ n \in todo
    /\ todo' = todo \ {n}
    /\ IF n = active THEN Call("monitor", n, None)
       ELSE UNCHANGED <<nodeVars, up, late, pc, src, tgt>>

\* ResiliencyOrchestrator._coordinate_failover: health is critical or unhealthy.
OrchestratorCall == Call("orchestrator", None, None) /\ UNCHANGED todo

ApiCall(s, g) == Call("api", s, g) /\ UNCHANGED todo

-----------------------------------------------------------------------------
(* trigger_failover *)

Return(t) ==
    /\ pc' = [pc EXCEPT ![t] = "idle"]
    /\ src' = [src EXCEPT ![t] = None]
    /\ tgt' = [tgt EXCEPT ![t] = None]

\* Variant: the state is not looked at.
MayStartAlways(s) == s # None /\ Registered(s)

MayStart(s) ==
    /\ state # "in_progress"
    /\ s # None
    /\ Registered(s)

Start(t) ==
    /\ pc[t] = "start"
    /\ LET source == IF src[t] # None THEN src[t] ELSE active IN
         IF MayStart(source)
         THEN /\ state' = "in_progress"
              /\ src' = [src EXCEPT ![t] = source]
              /\ pc' = [pc EXCEPT ![t] = "select"]
              /\ UNCHANGED tgt
         ELSE Return(t) /\ UNCHANGED state
    /\ UNCHANGED <<status, active, up, late, todo>>

Candidates(s) == {n \in Nodes : n # s /\ status[n] \notin {"absent", "failed"} /\ Priority[n] > -1}

Best(S) == {n \in S : \A m \in S : Priority[m] <= Priority[n]}

Choice(t) == IF tgt[t] # None THEN {tgt[t]} ELSE Best(Candidates(src[t]))

Chosen(t) ==
    /\ \E n \in Choice(t) : tgt' = [tgt EXCEPT ![t] = n]
    /\ pc' = [pc EXCEPT ![t] = "switch"]
    /\ UNCHANGED <<state, src>>

\* Variant: finding no backup leaves the state as it is.
SelectForgets(t) ==
    /\ pc[t] = "select"
    /\ IF Choice(t) = {} THEN Return(t) /\ UNCHANGED state ELSE Chosen(t)
    /\ UNCHANGED <<status, active, up, late, todo>>

Select(t) ==
    /\ pc[t] = "select"
    /\ IF Choice(t) = {} THEN Return(t) /\ state' = "normal" ELSE Chosen(t)
    /\ UNCHANGED <<status, active, up, late, todo>>

\* Variant: active_node_id is set before the target's record is looked up.
SwitchActiveFirst(t) ==
    /\ pc[t] = "switch"
    /\ status' = IF Registered(tgt[t]) THEN [status EXCEPT ![tgt[t]] = "active"] ELSE status
    /\ active' = tgt[t]
    /\ state' = "normal"
    /\ Return(t)
    /\ UNCHANGED <<up, late, todo>>

\* A target that is not registered raises after the source is marked failed.
Switch(t) ==
    /\ pc[t] = "switch"
    /\ LET marked == [status EXCEPT ![src[t]] = "failed"] IN
         IF Registered(tgt[t])
         THEN /\ status' = [marked EXCEPT ![tgt[t]] = "active"]
              /\ active' = tgt[t]
              /\ state' = "normal"
         ELSE status' = marked /\ UNCHANGED <<active, state>>
    /\ Return(t)
    /\ UNCHANGED <<up, late, todo>>

-----------------------------------------------------------------------------

NodeStep(n) ==
    Register(n) \/ SetActive(n) \/ Heartbeat(n) \/ GoDown(n) \/ ComeBack(n)
    \/ Miss(n) \/ TriggerRecovery(n)

TriggerStep(t) == Start(t) \/ Select(t) \/ Switch(t)

MonitorStep == CheckFailures \/ (\E n \in Nodes : LookAt(n)) \/ TriggerStep("monitor")

Next ==
    \/ \E n \in Nodes : NodeStep(n)
    \/ CheckFailures
    \/ \E n \in Nodes : LookAt(n)
    \/ OrchestratorCall
    \/ \E s, g \in Nodes \union {None} : ApiCall(s, g)
    \/ \E t \in Threads : TriggerStep(t)

Spec == Init /\ [][Next]_vars

\* The monitor loops, a call that began goes on, time passes for a silent node and
\* a node whose heartbeats arrive sends them.
FairSpec ==
    /\ Spec
    /\ WF_vars(MonitorStep)
    /\ \A t \in Threads : WF_vars(TriggerStep(t))
    /\ \A n \in Nodes : WF_vars(Miss(n)) /\ WF_vars(Heartbeat(n))

-----------------------------------------------------------------------------

TypeOK ==
    /\ status \in [Nodes -> Statuses]
    /\ active = None \/ (active \in Nodes /\ Registered(active))
    /\ state \in {"normal", "in_progress"}
    /\ up \in [Nodes -> BOOLEAN]
    /\ late \in [Nodes -> BOOLEAN]
    /\ todo \subseteq Nodes
    /\ pc \in [ThreadIds -> {"idle", "start", "select", "switch"}]
    /\ src \in [ThreadIds -> Nodes \union {None}]
    /\ tgt \in [ThreadIds -> Nodes \union {None}]

\* A thread between the two locked sections of trigger_failover.
InFailover(t) == pc[t] \in {"select", "switch"}

\* Two threads never carry out a failover at the same time, though the lock is not
\* held across one (failover_manager.py:140-151).
OneFailoverAtATime ==
    \A t, u \in Threads : InFailover(t) /\ InFailover(u) => t = u

\* At most one node has the status active (failover_manager.py:74-77, 161-164).
OneActive ==
    \A m, n \in Nodes : status[m] = "active" /\ status[n] = "active" => m = n

\* A failover that began ends (failover_manager.py:151, 155, 165).
FailoverEnds == state = "in_progress" ~> state = "normal"

\* While some backup stays up, no node stays active with its heartbeats gone
\* (failover_manager.py:25-28, 267-278).
FailoverHappens ==
    (\E b \in Known : Priority[b] > -1 /\ []up[b])
      => \A n \in Nodes : ~<>[](active = n /\ ~up[n])
=============================================================================
