----------------------- MODULE FailoverManagerProofs -----------------------
(* Theorems about FailoverManager, for any nodes and any threads. *)
EXTENDS FailoverManager, TLAPS

LEMMA ThreadType == \A t \in Threads : t \in ThreadIds
BY FailoverAssumption

\* A thread that is about to switch has a target.
HasTarget == \A t \in ThreadIds : pc[t] = "switch" => tgt[t] \in Nodes

LEMMA TargetsInductive ==
  ASSUME TypeOK, HasTarget, [Next]_vars
  PROVE  HasTarget'
<1> USE DEF TypeOK, HasTarget
<1>0. "monitor" \in ThreadIds /\ "orchestrator" \in ThreadIds /\ "api" \in ThreadIds
  BY DEF ThreadIds
<1>1. ASSUME UNCHANGED <<pc, tgt>> PROVE HasTarget'
  BY <1>1
<1>2. ASSUME NEW n \in Nodes, Register(n) PROVE HasTarget'
  BY <1>2 DEF Register
<1>3. ASSUME NEW n \in Nodes, LookAt(n) PROVE HasTarget'
  BY <1>3, <1>0 DEF LookAt, Call
<1>4. ASSUME OrchestratorCall PROVE HasTarget'
  BY <1>4, <1>0 DEF OrchestratorCall, Call
<1>5. ASSUME NEW s, NEW g, ApiCall(s, g) PROVE HasTarget'
  BY <1>5, <1>0 DEF ApiCall, Call
<1>6. ASSUME NEW t \in Threads, Start(t) PROVE HasTarget'
  BY <1>6, ThreadType DEF Start, Return
<1>7. ASSUME NEW t \in Threads, Select(t) PROVE HasTarget'
  <2>1. t \in ThreadIds
    BY ThreadType
  <2>2. CASE Choice(t) = {}
    BY <1>7, <2>1, <2>2 DEF Select, Return
  <2>3. CASE Choice(t) # {}
    <3>1. PICK n \in Choice(t) : tgt' = [tgt EXCEPT ![t] = n]
      BY <1>7, <2>3 DEF Select, Chosen
    <3>2. n \in Nodes
      BY <2>1 DEF Choice, Best, Candidates
    <3> QED
      BY <1>7, <2>1, <2>3, <3>1, <3>2 DEF Select, Chosen
  <2> QED
    BY <2>2, <2>3
<1>8. ASSUME NEW t \in Threads, Switch(t) PROVE HasTarget'
  BY <1>8, ThreadType DEF Switch, Return
<1> QED
  BY <1>1, <1>2, <1>3, <1>4, <1>5, <1>6, <1>7, <1>8
  DEF Next, NodeStep, TriggerStep, SetActive, Heartbeat, GoDown, ComeBack, Miss,
      TriggerRecovery, CheckFailures, vars, nodeVars, threadVars

\* The variables keep their types, and active_node_id always names a registered node.
THEOREM FailoverTypes == Spec => []TypeOK
<1>1. Init => TypeOK /\ HasTarget
  BY DEF Init, TypeOK, Statuses, HasTarget
<1>2. TypeOK /\ HasTarget /\ [Next]_vars => TypeOK'
  <2> SUFFICES ASSUME TypeOK, HasTarget, [Next]_vars PROVE TypeOK'
    OBVIOUS
  <2> USE DEF TypeOK, Statuses, Registered
  <2>0. "monitor" \in ThreadIds /\ "orchestrator" \in ThreadIds /\ "api" \in ThreadIds
    BY DEF ThreadIds
  <2>1. ASSUME UNCHANGED vars PROVE TypeOK'
    BY <2>1 DEF vars, nodeVars, threadVars
  <2>2. ASSUME NEW n \in Nodes, Register(n) PROVE TypeOK'
    BY <2>2 DEF Register
  <2>3. ASSUME NEW n \in Nodes, SetActive(n) PROVE TypeOK'
    BY <2>3 DEF SetActive, threadVars
  <2>4. ASSUME NEW n \in Nodes, Heartbeat(n) PROVE TypeOK'
    BY <2>4 DEF Heartbeat, threadVars
  <2>5. ASSUME NEW n \in Nodes, GoDown(n) \/ ComeBack(n) \/ Miss(n) PROVE TypeOK'
    BY <2>5 DEF GoDown, ComeBack, Miss, nodeVars, threadVars
  <2>6. ASSUME NEW n \in Nodes, TriggerRecovery(n) PROVE TypeOK'
    BY <2>6 DEF TriggerRecovery, threadVars
  <2>7. ASSUME CheckFailures PROVE TypeOK'
    BY <2>7 DEF CheckFailures, NewlyFailed
  <2>8. ASSUME NEW n \in Nodes, LookAt(n) PROVE TypeOK'
    BY <2>8, <2>0 DEF LookAt, Call, nodeVars
  <2>9. ASSUME OrchestratorCall PROVE TypeOK'
    BY <2>9, <2>0 DEF OrchestratorCall, Call, nodeVars
  <2>10. ASSUME NEW s \in Nodes \union {None}, NEW g \in Nodes \union {None}, ApiCall(s, g)
         PROVE  TypeOK'
    BY <2>10, <2>0 DEF ApiCall, Call, nodeVars
  <2>11. ASSUME NEW t \in Threads, Start(t) PROVE TypeOK'
    <3> DEFINE source == IF src[t] # None THEN src[t] ELSE active
    <3>1. t \in ThreadIds /\ source \in Nodes \union {None}
      BY ThreadType
    <3>2. CASE MayStart(source)
      BY <2>11, <3>1, <3>2 DEF Start
    <3>3. CASE ~MayStart(source)
      BY <2>11, <3>1, <3>3 DEF Start, Return
    <3> QED
      BY <3>2, <3>3
  <2>12. ASSUME NEW t \in Threads, Select(t) PROVE TypeOK'
    <3>1. t \in ThreadIds /\ Choice(t) \subseteq Nodes
      BY ThreadType DEF Choice, Best, Candidates
    <3>2. CASE Choice(t) = {}
      BY <2>12, <3>1, <3>2 DEF Select, Return
    <3>3. CASE Choice(t) # {}
      BY <2>12, <3>1, <3>3 DEF Select, Chosen
    <3> QED
      BY <3>2, <3>3
  <2>13. ASSUME NEW t \in Threads, Switch(t) PROVE TypeOK'
    <3> DEFINE marked == [status EXCEPT ![src[t]] = "failed"]
    <3>1. t \in ThreadIds /\ marked \in [Nodes -> Statuses]
          /\ \A n \in Nodes : status[n] # "absent" => marked[n] # "absent"
      BY ThreadType
    <3>2. UNCHANGED <<up, late, todo>> /\ pc' \in [ThreadIds -> {"idle", "start", "select", "switch"}]
          /\ src' \in [ThreadIds -> Nodes \union {None}] /\ tgt' \in [ThreadIds -> Nodes \union {None}]
      BY <2>13, <3>1 DEF Switch, Return
    <3>3. CASE Registered(tgt[t])
      <4>1. tgt[t] \in Nodes
        BY <2>13, <3>1 DEF Switch, HasTarget
      <4> QED
        BY <2>13, <3>1, <3>2, <3>3, <4>1 DEF Switch
    <3>4. CASE ~Registered(tgt[t])
      BY <2>13, <3>1, <3>2, <3>4 DEF Switch
    <3> QED
      BY <3>3, <3>4
  <2> QED
    BY <2>1, <2>2, <2>3, <2>4, <2>5, <2>6, <2>7, <2>8, <2>9, <2>10, <2>11, <2>12, <2>13
    DEF Next, NodeStep, TriggerStep
<1>3. TypeOK /\ HasTarget /\ [Next]_vars => HasTarget'
  BY TargetsInductive
<1> QED
  BY <1>1, <1>2, <1>3, PTL DEF Spec

-----------------------------------------------------------------------------

\* Whoever is between the two locked sections left the state at in_progress, and
\* nobody else can have passed the first one since.
Claimed ==
    /\ \A t \in ThreadIds : InFailover(t) => state = "in_progress"
    /\ \A t, u \in ThreadIds : InFailover(t) /\ InFailover(u) => t = u

LEMMA ClaimInductive ==
  ASSUME TypeOK, Claimed, [Next]_vars
  PROVE  Claimed'
<1> USE DEF TypeOK, Claimed, InFailover
<1>0. "monitor" \in ThreadIds /\ "orchestrator" \in ThreadIds /\ "api" \in ThreadIds
  BY DEF ThreadIds
<1>1. ASSUME UNCHANGED <<pc, state>> PROVE Claimed'
  BY <1>1
<1>2. ASSUME NEW n \in Nodes, Register(n) PROVE Claimed'
  BY <1>2 DEF Register
<1>3. ASSUME NEW n \in Nodes, LookAt(n) PROVE Claimed'
  BY <1>3, <1>0 DEF LookAt, Call, nodeVars
<1>4. ASSUME OrchestratorCall PROVE Claimed'
  BY <1>4, <1>0 DEF OrchestratorCall, Call, nodeVars
<1>5. ASSUME NEW s, NEW g, ApiCall(s, g) PROVE Claimed'
  BY <1>5, <1>0 DEF ApiCall, Call, nodeVars
<1>6. ASSUME NEW t \in Threads, Start(t) PROVE Claimed'
  BY <1>6, ThreadType DEF Start, Return, MayStart
<1>7. ASSUME NEW t \in Threads, Select(t) PROVE Claimed'
  BY <1>7, ThreadType DEF Select, Return, Chosen
<1>8. ASSUME NEW t \in Threads, Switch(t) PROVE Claimed'
  BY <1>8, ThreadType DEF Switch, Return
<1> QED
  BY <1>1, <1>2, <1>3, <1>4, <1>5, <1>6, <1>7, <1>8
  DEF Next, NodeStep, TriggerStep, SetActive, Heartbeat, GoDown, ComeBack, Miss,
      TriggerRecovery, CheckFailures, vars, nodeVars, threadVars

\* No two threads are ever inside a failover, though each lets go of the lock midway.
THEOREM FailoversExclude == Spec => []OneFailoverAtATime
<1>1. Init => Claimed
  BY DEF Init, Claimed, InFailover
<1>2. TypeOK /\ Claimed /\ [Next]_vars => Claimed'
  BY ClaimInductive
<1>3. Claimed => OneFailoverAtATime
  BY FailoverAssumption DEF Claimed, OneFailoverAtATime
<1> QED
  BY <1>1, <1>2, <1>3, FailoverTypes, PTL DEF Spec

-----------------------------------------------------------------------------

\* Only the node active_node_id names is marked active, and a failover of the monitor is
\* of that node, as nobody else can make another one active meanwhile.
MonitorOnly == Threads = {"monitor"} /\ ~Operated

ActiveInv ==
    /\ \A n \in Nodes : status[n] = "active" => n = active
    /\ \A t \in ThreadIds \ {"monitor"} : pc[t] = "idle"
    /\ pc["monitor"] # "idle" => src["monitor"] = active /\ active # None

LEMMA ActiveInductive ==
  ASSUME MonitorOnly, TypeOK, HasTarget, ActiveInv, [Next]_vars
  PROVE  ActiveInv'
<1> USE DEF TypeOK, ActiveInv, MonitorOnly
<1>0. "monitor" \in ThreadIds /\ "orchestrator" \in ThreadIds /\ "api" \in ThreadIds
  BY DEF ThreadIds
<1>1. ASSUME UNCHANGED <<status, active, pc, src>> PROVE ActiveInv'
  BY <1>1
<1>2. ASSUME NEW n \in Nodes, SetActive(n) PROVE ActiveInv'
  BY <1>2, <1>0, FailoverAssumption DEF SetActive, threadVars
<1>3. ASSUME NEW n \in Nodes, Heartbeat(n) PROVE ActiveInv'
  BY <1>3 DEF Heartbeat, threadVars
<1>4. ASSUME CheckFailures PROVE ActiveInv'
  BY <1>4 DEF CheckFailures
<1>5. ASSUME NEW n \in Nodes, LookAt(n) PROVE ActiveInv'
  BY <1>5, <1>0, FailoverAssumption DEF LookAt, Call, nodeVars
<1>6. ASSUME Start("monitor") PROVE ActiveInv'
  BY <1>6, <1>0 DEF Start, Return
<1>7. ASSUME Select("monitor") PROVE ActiveInv'
  BY <1>7, <1>0 DEF Select, Return, Chosen
<1>8. ASSUME Switch("monitor") PROVE ActiveInv'
  <2>1. src["monitor"] = active /\ active \in Nodes /\ tgt["monitor"] \in Nodes
    BY <1>8, <1>0 DEF Switch, HasTarget
  <2>2. pc' = [pc EXCEPT !["monitor"] = "idle"]
    BY <1>8 DEF Switch, Return
  <2>3. CASE Registered(tgt["monitor"])
    BY <1>8, <1>0, <2>1, <2>2, <2>3 DEF Switch
  <2>4. CASE ~Registered(tgt["monitor"])
    BY <1>8, <1>0, <2>1, <2>2, <2>4 DEF Switch
  <2> QED  BY <2>3, <2>4
<1>9. ~OrchestratorCall /\ \A s, g \in Nodes \union {None} : ~ApiCall(s, g)
  BY DEF OrchestratorCall, ApiCall, Call
<1> QED
  BY <1>1, <1>2, <1>3, <1>4, <1>5, <1>6, <1>7, <1>8, <1>9
  DEF Next, NodeStep, TriggerStep, Register, GoDown, ComeBack, Miss, TriggerRecovery,
      vars, nodeVars, threadVars

\* When only the monitor fails nodes over and nobody operates them by hand, two nodes are
\* never active, however many there are and whatever their heartbeats do.
THEOREM MonitorKeepsOneActive == ASSUME MonitorOnly PROVE Spec => []OneActive
<1>1. Init => TypeOK /\ HasTarget /\ ActiveInv
  <2>1. Init => ActiveInv
    BY DEF Init, ActiveInv, ThreadIds
  <2>2. Init => TypeOK /\ HasTarget
    BY DEF Init, TypeOK, Statuses, HasTarget
  <2> QED  BY <2>1, <2>2
<1>2. TypeOK /\ HasTarget /\ ActiveInv /\ [Next]_vars => ActiveInv'
  BY ActiveInductive
<1>3. TypeOK /\ HasTarget /\ [Next]_vars => HasTarget'
  BY TargetsInductive
<1>4. ActiveInv => OneActive
  BY DEF ActiveInv, OneActive
<1> QED
  BY <1>1, <1>2, <1>3, <1>4, FailoverTypes, PTL DEF Spec
=============================================================================
