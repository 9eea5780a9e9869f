---------------------------- MODULE ServiceProofs ----------------------------
(***************************************************************************)
(* Proofs about the services around trading, for every number of threads,  *)
(* nodes, keys and rows: the connections of MT5Pool, the restarts of       *)
(* SelfHealing, the alerts of HealthAlerts, the shutdown command of        *)
(* PowerProtection, the connection in use of InternetFailover, the loops   *)
(* of Supervisor, the stores of FeatureCache, the buffer of StateSync,     *)
(* the locks and records of SyncRecords, the users' rows of Accounts,      *)
(* what PPO and DQN learn from in RlTraining, the models of                *)
(* OnlineLearning, the trades and levels of BrokerBridge, the types of     *)
(* the infrastructure services together, and those of MarketStream,        *)
(* Messages, BackupCycle and NewsCalendar.                                 *)
(***************************************************************************)
EXTENDS MCInfra, Supervisor, FeatureCache, SyncRecords, Accounts, RlTraining,
        OnlineLearning, BrokerBridge, MarketStream, Messages, BackupCycle, NewsCalendar, SumLemmas,
        FiniteSetTheorems, SequenceTheorems, TLAPS

-----------------------------------------------------------------------------
(* The connection pool (mt5_pool.py).                                      *)

LEMMA PoolStarts == Init => TypeOK
<1> SUFFICES ASSUME Init PROVE TypeOK
  OBVIOUS
<1>1. running \in BOOLEAN
  BY DEF Init
<1>2. /\ pool \subseteq 1..(next - 1) /\ next \in 1..(MaxIds + 1)
      /\ errors \in [Ids -> Nat] /\ todo \subseteq Ids
  BY PoolAssumption DEF Init
<1>3. state \in [Ids -> States] /\ held \in [Clients -> Ids \union {NoConn}]
      /\ cur \in Ids \union {NoConn} /\ pc \in {"round", "mark", "sleep"}
  BY DEF Init, States
<1> QED
  BY <1>1, <1>2, <1>3 DEF TypeOK

LEMMA PoolKeepsTypes == TypeOK /\ [Next]_vars => TypeOK'
<1> SUFFICES ASSUME TypeOK, [Next]_vars PROVE TypeOK'
  OBVIOUS
<1> USE PoolAssumption DEF TypeOK, Ids, States, NoConn, reconnectVars
<1>1. ASSUME UNCHANGED vars PROVE TypeOK'
  BY <1>1 DEF vars
<1>2. ASSUME NEW c \in Clients, AcquireIdle(c) PROVE TypeOK'
  BY <1>2 DEF AcquireIdle, Available, Take
<1>3. ASSUME NEW c \in Clients, AcquireNew(c) PROVE TypeOK'
  BY <1>3 DEF AcquireNew, Take
<1>4. ASSUME NEW c \in Clients, MarkError(c) PROVE TypeOK'
  BY <1>4 DEF MarkError
<1>5. ASSUME NEW c \in Clients, Release(c) PROVE TypeOK'
  BY <1>5 DEF Release
<1>6. ASSUME HealthCheck PROVE TypeOK'
  BY <1>6 DEF HealthCheck
<1>7. ASSUME ListFailed PROVE TypeOK'
  <2>1. ASSUME NEW i \in pool PROVE i \in Ids
    <3>1. i \in 1..(next - 1)
      OBVIOUS
    <3> QED
      BY <3>1
  <2> QED
    BY <1>7, <2>1 DEF ListFailed
<1>8. ASSUME LookUp PROVE TypeOK'
  BY <1>8 DEF LookUp
<1>9. ASSUME MarkReconnecting PROVE TypeOK'
  BY <1>9 DEF MarkReconnecting
<1>10. ASSUME FinishReconnect PROVE TypeOK'
  <2>1. errors' \in [Ids -> Nat]
    <3>1. ASSUME NEW i \in Ids PROVE (IF errors[i] > 0 THEN errors[i] - 1 ELSE 0) \in Nat
      OBVIOUS
    <3> QED
      BY <1>10, <3>1 DEF FinishReconnect
  <2>2. state' \in [Ids -> States]
    BY <1>10 DEF FinishReconnect
  <2> QED
    BY <1>10, <2>1, <2>2 DEF FinishReconnect
<1>11. ASSUME StartAutoReconnect PROVE TypeOK'
  BY <1>11 DEF StartAutoReconnect
<1> QED
  BY <1>1, <1>2, <1>3, <1>4, <1>5, <1>6, <1>7, <1>8, <1>9, <1>10, <1>11 DEF Next, Reconnect

\* The variables keep their types; ids in the pool were issued by the counter.
THEOREM PoolTypes == Spec => []TypeOK
  BY PoolStarts, PoolKeepsTypes, PTL DEF Spec

-----------------------------------------------------------------------------

\* Only AcquireNew enlarges the pool, and only when there is room.
LEMMA OnlyNewGrows ==
  ASSUME [Next]_vars
  PROVE  \/ pool' \subseteq pool
         \/ Room /\ next \in Ids /\ pool' = pool \union {next}
<1>1. ASSUME NEW c \in Clients, AcquireNew(c)
      PROVE  Room /\ next \in Ids /\ pool' = pool \union {next}
  BY <1>1 DEF AcquireNew
<1>2. ASSUME NEW c \in Clients, AcquireIdle(c) \/ MarkError(c) \/ Release(c)
      PROVE  pool' \subseteq pool
  BY <1>2 DEF AcquireIdle, MarkError, Release
<1>3. ASSUME HealthCheck \/ StartAutoReconnect \/ Reconnect PROVE pool' \subseteq pool
  BY <1>3 DEF HealthCheck, StartAutoReconnect, Reconnect, ListFailed, LookUp, MarkReconnecting, FinishReconnect
<1>4. ASSUME UNCHANGED vars PROVE pool' \subseteq pool
  BY <1>4 DEF vars
<1> QED
  BY <1>1, <1>2, <1>3, <1>4 DEF Next

\* The pool never keeps more than max_connections, whatever errors, expiries and
\* reconnections come in between.
THEOREM PoolStaysBounded == Spec => []PoolBounded
<1>1. Init => PoolBounded
  BY FS_EmptySet, PoolAssumption DEF Init, PoolBounded
<1>2. TypeOK /\ PoolBounded /\ [Next]_vars => PoolBounded'
  <2> SUFFICES ASSUME TypeOK, PoolBounded, [Next]_vars PROVE PoolBounded'
    OBVIOUS
  <2>1. pool \subseteq 1..(next - 1) /\ next - 1 \in Int
    BY PoolAssumption DEF TypeOK
  <2>2. IsFiniteSet(pool)
    <3>1. IsFiniteSet(1..(next - 1))
      BY <2>1, FS_Interval
    <3> QED
      BY <2>1, <3>1, FS_Subset
  <2>3. CASE pool' \subseteq pool
    <3>1. Cardinality(pool') <= Cardinality(pool) /\ IsFiniteSet(pool')
      BY <2>2, <2>3, FS_Subset
    <3> QED
      BY <3>1, <2>2, FS_CardinalityType, PoolAssumption DEF PoolBounded
  <2>4. CASE Room /\ pool' = pool \union {next}
    <3>1. Cardinality(pool') <= Cardinality(pool) + 1
      BY <2>2, <2>4, FS_AddElement, FS_CardinalityType
    <3>2. Cardinality(pool') \in Nat
      BY <2>2, <2>4, FS_AddElement, FS_CardinalityType
    <3> QED
      BY <3>1, <3>2, <2>2, <2>4, FS_CardinalityType, PoolAssumption DEF PoolBounded, Room
  <2> QED
    BY <2>3, <2>4, OnlyNewGrows
<1> QED
  BY <1>1, <1>2, PoolTypes, PTL DEF Spec

-----------------------------------------------------------------------------

\* Without the reconnect thread a pooled connection that is idle is nobody's.
IdleIsFree ==
    \A c \in Clients, i \in pool : state[i] = "idle" => held[c] # i

\* A held id was issued before.
HeldIssued == \A c \in Clients : held[c] < next

Resting == todo = {} /\ pc = "round"

SoleHolder == ~running => Resting /\ HeldIssued /\ IdleIsFree /\ HeldByOne

LEMMA SoleHolderInductive ==
  ASSUME TypeOK, SoleHolder, [Next]_vars
  PROVE  SoleHolder'
<1> SUFFICES ASSUME ~running, ~running' PROVE SoleHolder'
  <2>1. ASSUME running PROVE running'
    BY <2>1 DEF Next, vars, reconnectVars, AcquireIdle, AcquireNew, MarkError, Release, HealthCheck,
       StartAutoReconnect, Reconnect, ListFailed, LookUp, MarkReconnecting, FinishReconnect
  <2> QED
    BY <2>1 DEF SoleHolder
<1> USE PoolAssumption DEF TypeOK, SoleHolder, Resting, HeldIssued, IdleIsFree, HeldByOne, NoConn, Ids, reconnectVars
<1>1. ASSUME NEW c \in Clients, AcquireIdle(c) PROVE SoleHolder'
  <2>1. PICK i \in pool : state[i] = "idle" /\ Take(c, i)
    BY <1>1 DEF AcquireIdle, Available
  <2>2. UNCHANGED <<pool, next, todo, pc>>
    BY <1>1 DEF AcquireIdle
  <2>3. \A d \in Clients : held[d] # i
    BY <2>1
  <2> QED
    BY <2>1, <2>2, <2>3 DEF Take
<1>2. ASSUME NEW c \in Clients, AcquireNew(c) PROVE SoleHolder'
  <2>1. \A d \in Clients : held[d] # next
    OBVIOUS
  <2> QED
    BY <1>2, <2>1 DEF AcquireNew, Take
<1>3. ASSUME NEW c \in Clients, MarkError(c) PROVE SoleHolder'
  BY <1>3 DEF MarkError
<1>4. ASSUME NEW c \in Clients, Release(c) PROVE SoleHolder'
  BY <1>4 DEF Release
<1>5. ASSUME HealthCheck PROVE SoleHolder'
  BY <1>5 DEF HealthCheck
<1>6. ASSUME Reconnect PROVE SoleHolder'
  BY <1>6 DEF Reconnect, ListFailed, LookUp, MarkReconnecting, FinishReconnect
<1>7. ASSUME UNCHANGED vars PROVE SoleHolder'
  BY <1>7 DEF vars
<1>8. ASSUME StartAutoReconnect PROVE SoleHolder'
  BY <1>8 DEF StartAutoReconnect
<1> QED
  BY <1>1, <1>2, <1>3, <1>4, <1>5, <1>6, <1>7, <1>8 DEF Next

\* As long as start_auto_reconnect is not called, no two clients hold one connection.
THEOREM HeldOnce == Spec => []ExclusiveUntilReconnect
<1>1. Init => SoleHolder
  BY DEF Init, SoleHolder, Resting, HeldIssued, IdleIsFree, HeldByOne, NoConn
<1>2. TypeOK /\ SoleHolder /\ [Next]_vars => SoleHolder'
  BY SoleHolderInductive
<1>3. SoleHolder => ExclusiveUntilReconnect
  BY DEF SoleHolder, ExclusiveUntilReconnect
<1> QED
  BY <1>1, <1>2, <1>3, PoolTypes, PTL DEF Spec

-----------------------------------------------------------------------------
(* Restarts of a service (self_healing.py:163-190).                        *)

RestartInv ==
    /\ restarting \subseteq Healers /\ restarts \in Nat
    /\ RestartsBounded

\* A restart that begins has found the count below its limit, and no more threads than
\* there are can be restarting with it.
LEMMA BeginRestartKeeps ==
    ASSUME RestartInv, NEW t \in Healers, BeginRestart(t)
    PROVE  RestartInv'
<1> USE HealAssumption DEF RestartInv, RestartsBounded
<1>1. restarting' \subseteq Healers /\ restarts' = restarts /\ restarts + 1 <= MaxRestarts
  BY DEF BeginRestart, MayRestart
<1>2. IsFiniteSet(Healers) /\ Cardinality(Healers) \in Nat
  BY FS_CardinalityType
<1>3. Cardinality(restarting') <= Cardinality(Healers) /\ Cardinality(restarting') \in Nat
  BY <1>1, <1>2, FS_Subset, FS_CardinalityType
<1> QED  BY <1>1, <1>2, <1>3

\* A restart that ends moves one from those under way to those counted, or to none.
LEMMA EndRestartKeeps ==
    ASSUME RestartInv, NEW t \in Healers, EndRestart(t)
    PROVE  RestartInv'
<1> USE HealAssumption DEF RestartInv, RestartsBounded
<1>1. restarting' = restarting \ {t} /\ t \in restarting /\ restarts' \in {restarts, restarts + 1}
  BY DEF EndRestart
<1>2. IsFiniteSet(restarting) /\ Cardinality(Healers) \in Nat
  BY FS_Subset, FS_CardinalityType
<1>3. Cardinality(restarting') = Cardinality(restarting) - 1 /\ Cardinality(restarting) \in Nat
  BY <1>1, <1>2, FS_RemoveElement, FS_CardinalityType
<1> QED  BY <1>1, <1>2, <1>3

LEMMA RestartsStart == HealInit => RestartInv
<1> SUFFICES ASSUME HealInit PROVE RestartInv  OBVIOUS
<1>1. Cardinality(restarting) = 0 /\ Cardinality(Healers) \in Nat
  BY HealAssumption, FS_EmptySet, FS_CardinalityType DEF HealInit
<1> QED  BY <1>1, HealAssumption DEF HealInit, RestartInv, RestartsBounded

LEMMA RestartsKeep == RestartInv /\ [HealNext]_healVars => RestartInv'
<1> SUFFICES ASSUME RestartInv, [HealNext]_healVars PROVE RestartInv'  OBVIOUS
<1>1. CASE \E t \in Healers : BeginRestart(t)
  BY <1>1, BeginRestartKeeps
<1>2. CASE \E t \in Healers : EndRestart(t)
  BY <1>2, EndRestartKeeps
<1>3. CASE UNCHANGED restartVars
  BY <1>3 DEF restartVars, RestartInv, RestartsBounded
<1>4. (\E t \in Healers : BeginRestart(t) \/ EndRestart(t)) \/ UNCHANGED restartVars
  BY DEF HealNext, healVars, Use, RecordResult, BeginReconnect, TryReconnect,
         AttemptRecovery, HealCoolDown, ServiceTurns
<1> QED  BY <1>1, <1>2, <1>3, <1>4

\* However many threads restart it, a service is restarted at most max_restarts times and
\* once more for each further thread.
THEOREM RestartsStayBounded == HealSpec => []RestartsBounded
<1>1. RestartInv => RestartsBounded
  BY DEF RestartInv
<1> QED  BY <1>1, RestartsStart, RestartsKeep, PTL DEF HealSpec

-----------------------------------------------------------------------------
(* Alerts (health_monitor.py:186-202, alert_system.py:187-194).            *)

\* A subject that is limited has been told, as far as a channel delivers.
ToldInv == deliver # {} => limited \subseteq told

\* The alerts of both subjects are of a level that is sent.
LEMMA BothSubjectsAreSent == \A l \in HealthLevels : \A s \in SubjectOf(l) : ShouldSend(AlertLevel(s))
<1>1. ShouldSend("CRITICAL")
  <2>1. 4 \in DOMAIN AlertLevels /\ AlertLevels[4] = "CRITICAL" /\ 4 >= MinLevel
    BY DEF AlertLevels, MinLevel
  <2> QED  BY <2>1 DEF ShouldSend
<1>2. ShouldSend("WARNING")
  <2>1. 2 \in DOMAIN AlertLevels /\ AlertLevels[2] = "WARNING" /\ 2 >= MinLevel
    BY DEF AlertLevels, MinLevel
  <2> QED  BY <2>1 DEF ShouldSend
<1> QED  BY <1>1, <1>2 DEF AlertLevel, SubjectOf, Grave, HealthLevels

\* A level has one subject at most.
LEMMA OneSubject == \A l \in HealthLevels : \A s \in SubjectOf(l) : SubjectOf(l) = {s}
<1> SUFFICES ASSUME NEW l \in HealthLevels, NEW s \in SubjectOf(l) PROVE SubjectOf(l) = {s}
  OBVIOUS
<1>1. CASE l \in Grave
  <2>1. SubjectOf(l) = {"System Health Critical"}
    BY <1>1 DEF SubjectOf, Grave
  <2> QED  BY <2>1
<1>2. CASE l = "degraded"
  <2>1. SubjectOf(l) = {"Health Degradation"}
    BY <1>2 DEF SubjectOf, Grave
  <2> QED  BY <2>1
<1>3. CASE l = "healthy"
  BY <1>3 DEF SubjectOf, Grave
<1> QED  BY <1>1, <1>2, <1>3 DEF HealthLevels, Grave

\* The level is one of the four.
LEMMA LevelIsOne == LevelOf \in HealthLevels
BY DEF LevelOf, HealthLevels

\* Trouble the monitor has settled on was told of, however often the level turned within
\* the minute an alert is limited for.
THEOREM TroubleStaysTold == HealthSpec => []TroubleIsTold
<1> DEFINE Inv == level \in HealthLevels /\ ToldInv /\ TroubleIsTold
<1>1. HealthInit => Inv
  BY DEF HealthInit, ToldInv, TroubleIsTold, HealthLevels, SubjectOf, Grave
<1>2. Inv /\ [HealthNext]_healthVars => Inv'
  <2> SUFFICES ASSUME Inv, [HealthNext]_healthVars PROVE Inv'  OBVIOUS
  <2>1. CASE BeginChecks
    BY <2>1 DEF BeginChecks, ToldInv, TroubleIsTold
  <2>2. CASE \E c \in Checks : RunCheck(c) \/ Trouble(c)
    BY <2>2 DEF RunCheck, Trouble, ToldInv, TroubleIsTold
  <2>3. CASE UpdateLevel
    <3>1. level' \in HealthLevels /\ level' = LevelOf
      BY <2>3, LevelIsOne DEF UpdateLevel
    <3>2. ToldInv'
      BY <2>3 DEF UpdateLevel, StillTold, ToldInv
    <3>3. TroubleIsTold'
      BY <2>3, <3>1 DEF UpdateLevel, StillTold, TroubleIsTold
    <3> QED  BY <3>1, <3>2, <3>3
  <2>4. CASE HandleLevelChange
    <3>1. CASE SubjectOf(level) = {}
      BY <2>4, <3>1 DEF HandleLevelChange, ToldInv, TroubleIsTold
    <3>2. ASSUME NEW s \in SubjectOf(level), SendAlert(s) PROVE Inv'
      <4>1. ShouldSend(AlertLevel(s)) /\ SubjectOf(level) = {s}
        <5>1. ShouldSend(AlertLevel(s))
          BY <3>2, BothSubjectsAreSent
        <5>2. SubjectOf(level) = {s}
          BY <3>2, OneSubject
        <5> QED  BY <5>1, <5>2
      <4>2. UNCHANGED <<level, deliver>>
        BY <2>4 DEF HandleLevelChange
      <4> QED  BY <3>2, <4>1, <4>2 DEF SendAlert, ToldInv, TroubleIsTold
    <3> QED  BY <2>4, <3>1, <3>2 DEF HandleLevelChange
  <2>5. ASSUME NEW s \in Subjects, SlotEnds(s) PROVE Inv'
    BY <2>5 DEF SlotEnds, ToldInv, TroubleIsTold
  <2>6. CASE UNCHANGED healthVars
    BY <2>6 DEF healthVars, ToldInv, TroubleIsTold
  <2> QED  BY <2>1, <2>2, <2>3, <2>4, <2>5, <2>6 DEF HealthNext, MonitorHealth
<1> QED  BY <1>1, <1>2, PTL DEF HealthSpec

-----------------------------------------------------------------------------
(* The shutdown command (power_protection.py:259-297).                     *)

\* Until a shutdown was asked for, there is no thread for it.
ShutdownInv == ~shuttingDown => shutdownPc = "none"

\* The shutdown command runs at most once in the life of the process.
THEOREM CommandRunsOnce == PowerSpec => CommandOnce
<1>1. PowerInit => ShutdownInv
  BY DEF PowerInit, ShutdownInv
<1>2. ShutdownInv /\ [PowerNext]_powerVars
        => ShutdownInv' /\ (shutdownPc' = "delay" => shutdownPc \in {"none", "delay"})
  <2> SUFFICES ASSUME ShutdownInv, [PowerNext]_powerVars
               PROVE  ShutdownInv' /\ (shutdownPc' = "delay" => shutdownPc \in {"none", "delay"})
    OBVIOUS
  <2>1. CASE MonitorSave
    BY <2>1 DEF MonitorSave, InitiateShutdown, shutdownVars, ShutdownInv
  <2>2. CASE ShutdownWorker
    BY <2>2 DEF ShutdownWorker, ShutdownInv
  <2>3. CASE Restart
    BY <2>3 DEF Restart, ShutdownInv
  <2>4. CASE UNCHANGED shutdownVars
    BY <2>4 DEF shutdownVars, ShutdownInv
  <2> QED
    BY <2>1, <2>2, <2>3, <2>4
    DEF PowerNext, SaveTradingState, RedisTurns, PowerTurns, MonitorPower, CheckPowerStatus,
        HandlePowerStatus, Crash, powerVars
<1> QED  BY <1>1, <1>2, PTL DEF PowerSpec, CommandOnce

-----------------------------------------------------------------------------
(* The internet connection in use (internet_failover.py:169-296).          *)

IspTypes ==
    /\ ispStatus \in [Isps -> IspStatuses] /\ ispFails \in [Isps -> Nat]
    /\ ispTesting \in Isps \cup {NoIsp}

\* A connection that is not in use and failed too often is marked disconnected.
GivenUpInv == \A i \in Isps \ {activeIsp} : ispFails[i] >= FailureThreshold => ispStatus[i] = "disconnected"

LEMMA AfterTestMarks ==
    ASSUME IspTypes, NEW i \in Isps
    PROVE  /\ AfterTest(i)[1] \in IspStatuses /\ AfterTest(i)[2] \in Nat
           /\ AfterTest(i)[2] >= FailureThreshold => AfterTest(i)[1] = "disconnected"
<1> USE IspAssumption DEF IspTypes, IspStatuses
<1> DEFINE failures == IF ispFails[i] < FailureThreshold THEN ispFails[i] + 1 ELSE FailureThreshold
<1>1. failures \in Nat
  OBVIOUS
<1>2. CASE link[i] = "up"
  <2>1. AfterTest(i) = <<"connected", 0>>
    BY <1>2 DEF AfterTest
  <2> QED  BY <2>1
<1>3. CASE link[i] = "slow"
  <2>1. AfterTest(i) = <<"degraded", 0>>
    BY <1>3 DEF AfterTest
  <2> QED  BY <2>1
<1>4. CASE link[i] \notin {"up", "slow"}
  <2>1. AfterTest(i) = <<IF failures >= FailureThreshold THEN "disconnected" ELSE "degraded", failures>>
    BY <1>4 DEF AfterTest
  <2> QED  BY <1>1, <2>1
<1> QED  BY <1>2, <1>3, <1>4

\* The monitor never moves to a connection it has given up, however many there are.
THEOREM GivenUpIsLeftOut == IspSpec => GivenUpStaysOut
<1> DEFINE Inv == IspTypes /\ GivenUpInv
<1> USE IspAssumption
<1>1. IspInit => Inv
  BY DEF IspInit, IspTypes, GivenUpInv, IspStatuses
<1>2. Inv /\ [IspNext]_ispVars
        => Inv' /\ (activeIsp # NoIsp /\ activeIsp' # activeIsp => ispFails[activeIsp'] < FailureThreshold)
  <2> SUFFICES ASSUME Inv, [IspNext]_ispVars
               PROVE  Inv' /\ (activeIsp # NoIsp /\ activeIsp' # activeIsp => ispFails[activeIsp'] < FailureThreshold)
    OBVIOUS
  <2>1. ASSUME NEW i \in Isps, RegisterIsp(i) PROVE Inv' /\ activeIsp' = activeIsp
    BY <2>1 DEF RegisterIsp, IspTypes, GivenUpInv, IspStatuses
  <2>2. ASSUME NEW i \in Isps, SetActiveIsp(i) PROVE Inv' /\ activeIsp = NoIsp
    BY <2>2 DEF SetActiveIsp, IspTypes, GivenUpInv, IspStatuses
  <2>3. ASSUME EndTest PROVE Inv' /\ activeIsp' = activeIsp
    <3>1. CASE ispReplaced
      BY <2>3, <3>1 DEF EndTest, IspTypes, GivenUpInv
    <3>2. CASE ~ispReplaced
      <4>1. ispTesting \in Isps
        BY <2>3 DEF EndTest, IspTypes
      <4>2. /\ ispStatus' = [ispStatus EXCEPT ![ispTesting] = AfterTest(ispTesting)[1]]
            /\ ispFails' = [ispFails EXCEPT ![ispTesting] = AfterTest(ispTesting)[2]]
            /\ ispTesting' = NoIsp /\ activeIsp' = activeIsp
        BY <2>3, <3>2 DEF EndTest
      <4> QED  BY <4>1, <4>2, AfterTestMarks DEF IspTypes, GivenUpInv
    <3> QED  BY <3>1, <3>2
  <2>4. ASSUME EndRound, MoveIsp
        PROVE  Inv' /\ (activeIsp # NoIsp => ispFails[activeIsp'] < FailureThreshold)
    <3>1. PICK i \in BackupIsps(activeIsp) :
            ispStatus' = [ispStatus EXCEPT ![activeIsp] = "disconnected", ![i] = "connected"] /\ activeIsp' = i
      BY <2>4 DEF MoveIsp
    <3>2. i \in Isps /\ i # activeIsp /\ ispStatus[i] # "disconnected"
      BY DEF BackupIsps, KnownIsps
    <3>3. ispFails[i] < FailureThreshold
      BY <3>2 DEF IspTypes, GivenUpInv
    <3>4. IspTypes'
      BY <2>4, <3>1, <3>2 DEF EndRound, IspTypes, IspStatuses
    <3>5. GivenUpInv'
      BY <2>4, <3>1, <3>2 DEF EndRound, IspTypes, GivenUpInv
    <3> QED  BY <3>1, <3>3, <3>4, <3>5
  <2>5. CASE UNCHANGED <<ispStatus, ispFails, activeIsp>> /\ ispTesting' \in Isps \cup {NoIsp}
    BY <2>5 DEF IspTypes, GivenUpInv
  <2>6. ASSUME NEW i \in Isps, BeginTest(i) \/ LinkTurns(i) PROVE <2>5!1
    BY <2>6 DEF BeginTest, LinkTurns, IspTypes
  <2> QED
    BY <2>1, <2>2, <2>3, <2>4, <2>5, <2>6 DEF IspNext, MonitorIsps, BeginRound, EndRound, ispVars, IspTypes
<1> QED  BY <1>1, <1>2, PTL DEF IspSpec, GivenUpStaysOut

-----------------------------------------------------------------------------
(* Loops of the monitors (orchestrator.py:229-288).                        *)

SupervisorTypes ==
    /\ svReady \in BOOLEAN /\ svMade \subseteq Makeable \cup MonitorSet
    /\ svAt \in [call : {"idle", "start", "stop", "join"}, at : 0 .. Len(Monitors)]
    /\ svFlag \in [MonitorSet -> BOOLEAN] /\ svLast \in [MonitorSet -> BOOLEAN]
    /\ svLoops \in [MonitorSet -> 0 .. MaxLoops] /\ svOverrun \subseteq MonitorSet
    /\ \A m \in MonitorSet : svLast[m] => svLoops[m] >= 1

Joined(m) == svAt.call = "join" /\ m = Monitors[svAt.at]

\* The loop started last is the only one, and runs under its flag or is being waited for.
LoopInv == \A m \in MonitorSet \ svOverrun :
    /\ svLoops[m] = IF svLast[m] THEN 1 ELSE 0
    /\ svLast[m] => svFlag[m] \/ Joined(m)

EventsInv ==
    /\ ~svReady => svMade = {}
    /\ svHeard = [m \in Speaking |-> IF m \in svMade /\ "alerts" \in svMade THEN 1 ELSE 0]

\* The caller's place stays a place.
LEMMA CallerPlaces ==
    ASSUME NEW i \in Places
    PROVE  /\ AfterStart(i) \in [call : {"idle", "start"}, at : 0 .. Len(Monitors)]
           /\ AfterStop(i) \in [call : {"idle", "stop"}, at : 0 .. Len(Monitors)]
           /\ Monitors[i] \in MonitorSet
BY SupervisorAssumption DEF Places, MonitorSet, AfterStart, AfterStop, NoCall

LEMMA CallerStarts == FirstStart \in 0 .. Len(Monitors) /\ 1 \in 0 .. Len(Monitors) /\ 0 \in 0 .. Len(Monitors)
BY SupervisorAssumption DEF FirstStart

\* start_monitoring makes a loop only where the flag, and so the last loop, is down.
LEMMA StartKeepsLoops ==
    ASSUME SupervisorTypes, LoopInv, NEW i \in Places, MonitorStart(i)
    PROVE  SupervisorTypes' /\ LoopInv'
<1> DEFINE m == Monitors[i]
<1>1. m \in MonitorSet /\ svAt'.call # "join" /\ svAt' \in [call : {"idle", "start"}, at : 0 .. Len(Monitors)]
  BY CallerPlaces DEF MonitorStart
<1>2. svAt.call = "start"
  BY DEF MonitorStart
<1>3. CASE UNCHANGED <<svFlag, svLoops, svLast>>
  BY <1>1, <1>2, <1>3 DEF MonitorStart, SupervisorTypes, LoopInv, Joined
<1>4. CASE /\ ~svFlag[m] /\ svLoops[m] < MaxLoops /\ svFlag' = [svFlag EXCEPT ![m] = TRUE]
           /\ svLoops' = [svLoops EXCEPT ![m] = @ + 1] /\ svLast' = [svLast EXCEPT ![m] = TRUE]
  <2>1. SupervisorTypes'
    <3>1. svLoops[m] < MaxLoops /\ MaxLoops \in Nat
      BY <1>4, SupervisorAssumption
    <3> QED  BY <1>1, <1>4, <3>1 DEF SupervisorTypes, MonitorStart
  <2>2. LoopInv'
    BY <1>1, <1>2, <1>4 DEF SupervisorTypes, LoopInv, Joined, MonitorStart
  <2> QED  BY <2>1, <2>2
<1> QED  BY <1>3, <1>4 DEF MonitorStart

\* stop_monitoring: the flag goes down while the loop is waited for, and a loop that is
\* not waited for to its end is remembered.
LEMMA StopKeepsLoops ==
    ASSUME SupervisorTypes, LoopInv, NEW i \in Places, MonitorStop(i) \/ MonitorJoin(i)
    PROVE  SupervisorTypes' /\ LoopInv'
<1>1. Monitors[i] \in MonitorSet /\ AfterStop(i) \in [call : {"idle", "stop"}, at : 0 .. Len(Monitors)]
  BY CallerPlaces
<1>2. i \in Nat /\ i \in 0 .. Len(Monitors)
  BY DEF Places
<1>3. CASE MonitorStop(i)
  <2>1. svAt.call = "stop" /\ UNCHANGED <<svReady, svMade, svLoops, svLast, svOverrun>>
    BY <1>3 DEF MonitorStop
  <2>2. CASE svAt' = AfterStop(i) /\ UNCHANGED svFlag
    BY <1>1, <2>1, <2>2 DEF SupervisorTypes, LoopInv, Joined
  <2>3. CASE svAt' = [call |-> "join", at |-> i] /\ svFlag' = [svFlag EXCEPT ![Monitors[i]] = FALSE]
    <3>1. SupervisorTypes'
      BY <1>1, <1>2, <2>1, <2>3 DEF SupervisorTypes
    <3>2. ASSUME NEW m \in MonitorSet \ svOverrun, svLast[m] PROVE svFlag'[m] \/ Joined(m)'
      BY <1>1, <2>1, <2>3, <3>2 DEF SupervisorTypes, LoopInv, Joined
    <3> QED  BY <2>1, <3>1, <3>2 DEF LoopInv
  <2> QED  BY <1>3, <2>2, <2>3 DEF MonitorStop
<1>4. CASE MonitorJoin(i)
  BY <1>1, <1>2, <1>4 DEF MonitorJoin, SupervisorTypes, LoopInv, Joined
<1> QED  BY <1>3, <1>4

\* No monitor has two loops, or one after it was stopped, unless a stop gave up waiting;
\* and every event is listened to once.
THEOREM LoopsAndEvents == SupervisorSpec => []SupervisorTypeOK
<1> DEFINE Inv == SupervisorTypes /\ LoopInv /\ EventsInv
<1>1. SupervisorInit => Inv
  <2>1. 0 \in 0 .. MaxLoops /\ 0 \in 0 .. Len(Monitors)
    BY SupervisorAssumption
  <2> SUFFICES ASSUME SupervisorInit PROVE Inv  OBVIOUS
  <2>2. SupervisorTypes
    BY <2>1 DEF SupervisorInit, SupervisorTypes, NoCall
  <2>3. LoopInv /\ EventsInv
    BY DEF SupervisorInit, LoopInv, EventsInv
  <2> QED  BY <2>2, <2>3
<1>2. Inv /\ [SupervisorNext]_supervisorVars => Inv'
  <2> SUFFICES ASSUME Inv, [SupervisorNext]_supervisorVars PROVE Inv'  OBVIOUS
  <2>1. ASSUME NEW made \in SUBSET (Makeable \cup (MonitorSet \ {Orchestrator})), Initialize(made) PROVE Inv'
    <3>1. made \subseteq Makeable \cup MonitorSet /\ UNCHANGED <<svAt, svFlag, svLoops, svLast, svOverrun>>
      BY <2>1 DEF Initialize
    <3>2. SupervisorTypes' /\ LoopInv'
      BY <2>1, <3>1 DEF Initialize, SupervisorTypes, LoopInv, Joined
    <3>3. EventsInv'
      BY <2>1 DEF Initialize, EventsInv
    <3> QED  BY <3>2, <3>3
  <2>2. CASE StartCalled \/ StopCalled
    BY <2>2, CallerStarts DEF StartCalled, StopCalled, NoCall, SupervisorTypes, LoopInv, EventsInv, Joined
  <2>3. ASSUME NEW i \in Places, MonitorStart(i) PROVE Inv'
    BY <2>3, StartKeepsLoops DEF MonitorStart, EventsInv
  <2>4. ASSUME NEW i \in Places, MonitorStop(i) \/ MonitorJoin(i) PROVE Inv'
    BY <2>4, StopKeepsLoops DEF MonitorStop, MonitorJoin, EventsInv
  <2>5. ASSUME NEW m \in MonitorSet, NEW isLast \in BOOLEAN, LoopEnds(m, isLast) PROVE Inv'
    <3>1. svLoops[m] - 1 \in 0 .. MaxLoops /\ (svLast[m] /\ ~isLast => svLoops[m] - 1 >= 1)
      BY <2>5, SupervisorAssumption DEF LoopEnds, SupervisorTypes
    <3> QED  BY <2>5, <3>1 DEF LoopEnds, SupervisorTypes, LoopInv, EventsInv, Joined
  <2>6. CASE UNCHANGED supervisorVars
    BY <2>6 DEF supervisorVars, SupervisorTypes, LoopInv, EventsInv, Joined
  <2> QED  BY <2>1, <2>2, <2>3, <2>4, <2>5, <2>6 DEF SupervisorNext
<1>3. Inv => SupervisorTypeOK
  BY DEF LoopInv, EventsInv, SupervisorTypes, OneLoop, HeardOnce, Joined, NoCall, SupervisorTypeOK
<1> QED  BY <1>1, <1>2, <1>3, PTL DEF SupervisorSpec

-----------------------------------------------------------------------------
(* The two stores of features (feature_store.py:36-300).                   *)

FeatureTypes ==
    /\ fcUp \in BOOLEAN /\ fcNow \in 0 .. FeatureClock
    /\ fcVerdict \in [FeatureUsers -> {"untested", "redis", "memory"}]
    /\ fcRedis \in [Stamps -> (0 .. FeatureClock) \cup {Missing}]
    /\ fcMemory \in [FeatureUsers -> [Stamps -> (0 .. FeatureClock) \cup {Missing}]]
    /\ fcAsk \in [FeatureUsers -> [query : {"none", "latest", "range", "clear"}, keys : SUBSET Stamps, since : Nat]]
    /\ fcAnswer \in [FeatureUsers -> [query : {"none", "latest", "range"}, stamps : SUBSET Stamps, since : Nat]]

\* Nothing newer than a stamp was in Redis when it was asked for, so what is newer now was
\* stored since.
NewerIsLater(p, s) == \A k \in Stored(fcRedis) : s < k => fcAnswer[p].since <= fcRedis[k]

LatestOf(p) ==
    /\ fcAnswer[p].since <= fcNow
    /\ fcAsk[p].query \in {"latest", "range"} => fcAnswer[p].query = fcAsk[p].query
    /\ fcAsk[p].query = "latest" => \A s \in fcAsk[p].keys : NewerIsLater(p, s)
    /\ fcVerdict[p] = "redis" /\ fcAnswer[p].query = "latest" =>
         \A s \in fcAnswer[p].stamps : NewerIsLater(p, s)

LatestInv == \A p \in FeatureUsers : LatestOf(p)

FeatureInv == FeatureTypes /\ OneStore /\ FreshInRedis /\ LatestInv

\* _redis_ok gives a verdict, and never another one.
LEMMA JudgedTypes ==
    ASSUME FeatureTypes, NEW p \in FeatureUsers, Judges(p)
    PROVE  /\ fcVerdict' \in [FeatureUsers -> {"untested", "redis", "memory"}]
           /\ fcVerdict'[p] = RedisVerdict(p) /\ RedisVerdict(p) \in {"redis", "memory"}
           /\ fcVerdict[p] # "untested" => fcVerdict'[p] = fcVerdict[p]
           /\ \A q \in FeatureUsers \ {p} : fcVerdict'[q] = fcVerdict[q]
BY DEF FeatureTypes, Judges, RedisVerdict

LEMMA StoreKeepsFeatures ==
    ASSUME FeatureInv, NEW p \in FeatureUsers, NEW s \in Stamps, NEW works, StoreFeatures(p, s, works)
    PROVE  FeatureInv'
<1> USE FeatureAssumption DEF FeatureInv
<1>1. FeatureTypes'
  <2>1. fcVerdict' \in [FeatureUsers -> {"untested", "redis", "memory"}]
    BY JudgedTypes DEF StoreFeatures
  <2>2. fcRedis' \in [Stamps -> (0 .. FeatureClock) \cup {Missing}]
    BY DEF FeatureTypes, StoreFeatures
  <2>3. fcMemory' \in [FeatureUsers -> [Stamps -> (0 .. FeatureClock) \cup {Missing}]]
    <3>1. fcMemory[p] \in [Stamps -> (0 .. FeatureClock) \cup {Missing}] /\ fcNow \in 0 .. FeatureClock
      BY DEF FeatureTypes
    <3>2. [fcMemory[p] EXCEPT ![s] = fcNow] \in [Stamps -> (0 .. FeatureClock) \cup {Missing}]
      BY <3>1
    <3> QED  BY <3>2 DEF FeatureTypes, StoreFeatures
  <2>4. fcAnswer' \in [FeatureUsers -> [query : {"none", "latest", "range"}, stamps : SUBSET Stamps, since : Nat]]
    BY DEF FeatureTypes, StoreFeatures, NothingRead
  <2>5. UNCHANGED <<fcUp, fcNow, fcAsk>>
    BY DEF StoreFeatures
  <2> QED  BY <2>1, <2>2, <2>3, <2>4, <2>5 DEF FeatureTypes
<1>2. OneStore'
  BY DEF FeatureTypes, StoreFeatures, Judges, RedisVerdict, OneStore, NoVectors, NoAsk
<1>3. FreshInRedis'
  BY DEF FeatureTypes, StoreFeatures, FreshInRedis, Stored
<1>4. LatestInv'
  <2> SUFFICES ASSUME NEW q \in FeatureUsers PROVE LatestOf(q)'
    BY DEF LatestInv
  <2>1. fcAsk' = fcAsk /\ fcNow' = fcNow /\ fcAsk[p].query = "none"
    BY DEF StoreFeatures, NoAsk
  <2>2. \A k \in Stored(fcRedis') : fcRedis'[k] = fcNow \/ (k \in Stored(fcRedis) /\ fcRedis'[k] = fcRedis[k])
    BY DEF StoreFeatures, FeatureTypes, Stored
  <2>3. CASE q = p
    BY <2>1, <2>2, <2>3 DEF StoreFeatures, FeatureTypes, NothingRead, LatestOf
  <2>4. CASE q # p
    <3>1. fcAnswer'[q] = fcAnswer[q] /\ fcVerdict'[q] = fcVerdict[q]
      BY <2>4 DEF StoreFeatures, Judges, FeatureTypes
    <3>2. \A k \in Stamps : NewerIsLater(q, k) => NewerIsLater(q, k)'
      BY <2>2, <3>1 DEF NewerIsLater, FeatureTypes, LatestInv, LatestOf
    <3> QED  BY <2>1, <3>1, <3>2 DEF LatestInv, LatestOf, FeatureTypes
  <2> QED  BY <2>3, <2>4
<1> QED  BY <1>1, <1>2, <1>3, <1>4

\* A query that goes to Redis finds, as its latest, a key nothing in Redis is newer than.
LEMMA AskKeepsFeatures ==
    ASSUME FeatureInv, NEW p \in FeatureUsers, NEW query \in {"latest", "range", "clear"}, NEW works,
           AskKeys(p, query, works)
    PROVE  FeatureInv'
<1> USE FeatureAssumption DEF FeatureInv
<1> DEFINE keys == Wanted(query, Stored(fcRedis))
<1>1. keys \subseteq Stamps /\ Wanted(query, Stored(fcMemory[p])) \subseteq Stamps
  BY DEF Wanted, Newest, Stored
<1>2. fcRedis' = fcRedis /\ fcNow' = fcNow /\ fcUp' = fcUp /\ fcNow \in Nat /\ fcAsk[p] = NoAsk
  BY DEF AskKeys, FeatureTypes
<1>3. /\ fcVerdict' \in [FeatureUsers -> {"untested", "redis", "memory"}]
      /\ fcVerdict'[p] = RedisVerdict(p) /\ RedisVerdict(p) \in {"redis", "memory"}
      /\ fcVerdict[p] # "untested" => fcVerdict'[p] = fcVerdict[p]
      /\ \A q \in FeatureUsers \ {p} : fcVerdict'[q] = fcVerdict[q]
  BY JudgedTypes DEF AskKeys
<1>4. fcAsk' = fcAsk \/ (/\ RedisVerdict(p) = "redis"
                         /\ fcAsk' = [fcAsk EXCEPT ![p] = [query |-> query, since |-> fcNow, keys |-> keys]])
  BY DEF AskKeys
<1>5. PICK given \in SUBSET Stamps :
         /\ fcAnswer' = [fcAnswer EXCEPT ![p] = IF query = "clear" THEN NothingRead
                                                ELSE Reply(query, given, fcNow)]
         /\ RedisVerdict(p) = "redis" => given = {}
  BY <1>1, <1>3 DEF AskKeys
<1>6. FeatureTypes'
  <2>1. fcMemory' \in [FeatureUsers -> [Stamps -> (0 .. FeatureClock) \cup {Missing}]]
    <3>1. NoVectors \in [Stamps -> (0 .. FeatureClock) \cup {Missing}]
      BY DEF NoVectors
    <3>2. fcMemory' = fcMemory \/ fcMemory' = [fcMemory EXCEPT ![p] = NoVectors]
      BY DEF AskKeys
    <3> QED  BY <3>1, <3>2 DEF FeatureTypes
  <2>2. fcAsk' \in [FeatureUsers -> [query : {"none", "latest", "range", "clear"}, keys : SUBSET Stamps, since : Nat]]
    BY <1>1, <1>2, <1>4 DEF FeatureTypes
  <2>3. fcAnswer' \in [FeatureUsers -> [query : {"none", "latest", "range"}, stamps : SUBSET Stamps, since : Nat]]
    BY <1>2, <1>5 DEF FeatureTypes, Reply, NothingRead
  <2> QED  BY <1>2, <1>3, <2>1, <2>2, <2>3 DEF FeatureTypes
<1>7. OneStore'
  BY <1>3, <1>4 DEF FeatureTypes, AskKeys, OneStore, NoVectors
<1>8. FreshInRedis'
  BY <1>2 DEF FreshInRedis, Stored
<1>9. LatestInv'
  <2> SUFFICES ASSUME NEW q \in FeatureUsers PROVE LatestOf(q)'
    BY DEF LatestInv
  <2>1. LatestOf(q)
    BY DEF LatestInv
  <2>2. CASE q # p
    <3>1. fcAsk'[q] = fcAsk[q] /\ fcAnswer'[q] = fcAnswer[q] /\ fcVerdict'[q] = fcVerdict[q]
      BY <1>3, <1>4, <1>5, <2>2 DEF FeatureTypes
    <3> QED  BY <1>2, <2>1, <3>1 DEF LatestOf, NewerIsLater, Stored
  <2>3. CASE q = p /\ query = "clear"
    BY <1>2, <1>4, <1>5, <2>3 DEF LatestOf, FeatureTypes, NothingRead, NoAsk
  <2>4. CASE q = p /\ query # "clear"
    <3>1. fcAnswer'[p].query = query /\ fcAnswer'[p].since = fcNow
      BY <1>5, <2>4 DEF Reply, FeatureTypes
    <3>2. RedisVerdict(p) = "redis" => fcAnswer'[p].stamps = {}
      BY <1>5, <2>4 DEF Reply, FeatureTypes
    <3> HIDE DEF keys
    <3>3. fcAsk'[p] = NoAsk \/ (fcAsk'[p].query = query /\ fcAsk'[p].keys = keys)
      BY <1>2, <1>4 DEF FeatureTypes
    <3>4. ASSUME query = "latest", NEW s \in keys PROVE NewerIsLater(p, s)'
      <4>1. s \in Nat /\ \A k \in Stored(fcRedis) : k <= s /\ k \in Nat
        BY <1>1, <3>4 DEF keys, Wanted, Newest, Stored
      <4> QED  BY <1>2, <4>1 DEF NewerIsLater, Stored
    <3>5. query = "latest" => \A s \in keys : NewerIsLater(p, s)'
      BY <3>4
    <3> QED  BY <1>2, <1>3, <2>4, <3>1, <3>2, <3>3, <3>5 DEF LatestOf, NoAsk
  <2> QED  BY <2>2, <2>3, <2>4
<1> QED  BY <1>6, <1>7, <1>8, <1>9

\* Reading a vector, and an error on the way, leave the stores alone.
LEMMA ReadKeepsFeatures ==
    ASSUME FeatureInv, NEW p \in FeatureUsers,
           QueryFails(p) \/ \E s \in Stamps : ReadVector(p, s)
    PROVE  FeatureInv'
<1> USE FeatureAssumption DEF FeatureInv
<1>1. UNCHANGED <<fcUp, fcNow, fcVerdict, fcRedis, fcMemory>>
  BY DEF QueryFails, ReadVector
<1>2. PICK given \in SUBSET Stamps : fcAnswer' = [fcAnswer EXCEPT ![p].stamps = given]
                                     /\ given \subseteq fcAnswer[p].stamps \cup fcAsk[p].keys
                                     /\ (given # {} => fcAsk[p].query \in {"latest", "range"})
  <2>1. CASE QueryFails(p)
    BY <2>1 DEF QueryFails
  <2>2. ASSUME NEW s \in Stamps, ReadVector(p, s)
        PROVE  \E given \in SUBSET Stamps : /\ fcAnswer' = [fcAnswer EXCEPT ![p].stamps = given]
                                            /\ given \subseteq fcAnswer[p].stamps \cup fcAsk[p].keys
                                            /\ (given # {} => fcAsk[p].query \in {"latest", "range"})
    <3> DEFINE more == IF fcRedis[s] = Missing THEN fcAnswer[p].stamps ELSE fcAnswer[p].stamps \cup {s}
    <3>1. fcAnswer' = [fcAnswer EXCEPT ![p].stamps = more] /\ s \in fcAsk[p].keys
          /\ fcAsk[p].query \in {"latest", "range"}
      BY <2>2 DEF ReadVector
    <3>2. more \subseteq fcAnswer[p].stamps \cup {s} /\ more \in SUBSET Stamps
      BY DEF FeatureTypes
    <3> HIDE DEF more
    <3> QED  BY <3>1, <3>2
  <2> QED  BY <2>1, <2>2
<1>3. /\ \A q \in FeatureUsers \ {p} : fcAsk'[q] = fcAsk[q]
      /\ fcAsk'[p] = NoAsk \/ (/\ fcAsk'[p].query = fcAsk[p].query /\ fcAsk'[p].since = fcAsk[p].since
                               /\ fcAsk'[p].keys \subseteq fcAsk[p].keys)
      /\ fcAsk' \in [FeatureUsers -> [query : {"none", "latest", "range", "clear"}, keys : SUBSET Stamps, since : Nat]]
  <2>1. NoAsk \in [query : {"none", "latest", "range", "clear"}, keys : SUBSET Stamps, since : Nat]
    BY DEF NoAsk
  <2>2. CASE QueryFails(p)
    BY <2>1, <2>2 DEF QueryFails, FeatureTypes
  <2>3. ASSUME NEW s \in Stamps, ReadVector(p, s)
        PROVE  \/ fcAsk' = [fcAsk EXCEPT ![p] = NoAsk]
               \/ fcAsk' = [fcAsk EXCEPT ![p] = [fcAsk[p] EXCEPT !.keys = fcAsk[p].keys \ {s}]]
    <3> DEFINE less == [fcAsk[p] EXCEPT !.keys = fcAsk[p].keys \ {s}]
    <3>1. fcAsk' = [fcAsk EXCEPT ![p] = IF fcAsk[p].keys = {s} THEN NoAsk ELSE less]
      BY <2>3, Zenon DEF ReadVector
    <3> HIDE DEF less
    <3>2. fcAsk' = [fcAsk EXCEPT ![p] = NoAsk] \/ fcAsk' = [fcAsk EXCEPT ![p] = less]
      BY <3>1
    <3> QED  BY <3>2 DEF less
  <2>4. CASE fcAsk' = [fcAsk EXCEPT ![p] = NoAsk]
    BY <2>1, <2>4 DEF FeatureTypes
  <2>5. ASSUME NEW s \in Stamps,
               fcAsk' = [fcAsk EXCEPT ![p] = [fcAsk[p] EXCEPT !.keys = fcAsk[p].keys \ {s}]]
        PROVE  /\ \A q \in FeatureUsers \ {p} : fcAsk'[q] = fcAsk[q]
               /\ fcAsk'[p].query = fcAsk[p].query /\ fcAsk'[p].since = fcAsk[p].since
               /\ fcAsk'[p].keys \subseteq fcAsk[p].keys
               /\ fcAsk' \in [FeatureUsers -> [query : {"none", "latest", "range", "clear"}, keys : SUBSET Stamps, since : Nat]]
    BY <2>5, SMTT(30) DEF FeatureTypes
  <2> QED  BY <2>2, <2>3, <2>4, <2>5
<1>4. FeatureTypes'
  <2>1. fcAsk' \in [FeatureUsers -> [query : {"none", "latest", "range", "clear"}, keys : SUBSET Stamps, since : Nat]]
    BY <1>3
  <2>2. fcAnswer' \in [FeatureUsers -> [query : {"none", "latest", "range"}, stamps : SUBSET Stamps, since : Nat]]
    BY <1>2 DEF FeatureTypes
  <2> QED  BY <1>1, <2>1, <2>2 DEF FeatureTypes
<1>5. OneStore'
  <2>1. fcAsk[p] # NoAsk
    BY DEF QueryFails, ReadVector, NoAsk
  <2>2. fcVerdict[p] = "redis"
    BY <2>1 DEF OneStore
  <2> QED  BY <1>1, <1>3, <2>2 DEF OneStore
<1>6. FreshInRedis'
  BY <1>1 DEF FreshInRedis, Stored
<1>7. LatestInv'
  <2> SUFFICES ASSUME NEW q \in FeatureUsers PROVE LatestOf(q)'
    BY DEF LatestInv
  <2>1. LatestOf(q) /\ fcAnswer'[q].query = fcAnswer[q].query /\ fcAnswer'[q].since = fcAnswer[q].since
    BY <1>2 DEF LatestInv, FeatureTypes
  <2>2. \A k \in Stamps : NewerIsLater(q, k) => NewerIsLater(q, k)'
    BY <1>1, <2>1 DEF NewerIsLater, Stored
  <2>3. CASE q # p
    <3>1. fcAsk'[q] = fcAsk[q] /\ fcAnswer'[q] = fcAnswer[q]
      BY <1>2, <1>3, <2>3 DEF FeatureTypes
    <3> QED  BY <1>1, <2>1, <2>2, <3>1 DEF LatestOf, FeatureTypes
  <2>4. CASE q = p
    <3>1. fcAnswer'[p].stamps = given
      BY <1>2 DEF FeatureTypes
    <3>2. fcAsk[p].keys \subseteq Stamps /\ fcAnswer[p].stamps \subseteq Stamps
      BY DEF FeatureTypes
    <3>3. fcVerdict[p] = "redis" /\ fcAnswer[p].query = "latest" => \A s \in given : NewerIsLater(p, s)
      BY <1>2, <2>1, <2>4, <3>2 DEF LatestOf
    <3>4. fcAsk'[p].query \in {"latest", "range"} => fcAnswer'[p].query = fcAsk'[p].query
      BY <1>3, <2>1, <2>4 DEF LatestOf, NoAsk
    <3>5. fcAsk'[p].query = "latest" => \A s \in fcAsk'[p].keys : NewerIsLater(p, s)'
      BY <1>3, <2>1, <2>2, <2>4, <3>2 DEF LatestOf, NoAsk
    <3>6. fcVerdict'[p] = "redis" /\ fcAnswer'[p].query = "latest" =>
            \A s \in fcAnswer'[p].stamps : NewerIsLater(p, s)'
      BY <1>1, <2>1, <2>2, <2>4, <3>1, <3>3
    <3>7. fcAnswer'[p].since <= fcNow'
      BY <1>1, <2>1, <2>4 DEF LatestOf
    <3> QED  BY <2>4, <3>4, <3>5, <3>6, <3>7 DEF LatestOf
  <2> QED  BY <2>3, <2>4
<1> QED  BY <1>4, <1>5, <1>6, <1>7

\* Deleting keys, a look-up, and a turn of Redis.
LEMMA OtherStepsKeepFeatures ==
    ASSUME FeatureInv,
           FeatureRedisTurns \/ \E p \in FeatureUsers : LookUpOne(p) \/ DeleteKeys(p)
    PROVE  FeatureInv'
<1> USE FeatureAssumption DEF FeatureInv
<1>1. CASE FeatureRedisTurns
  BY <1>1 DEF FeatureRedisTurns, FeatureTypes, OneStore, FreshInRedis, Stored, LatestInv, LatestOf, NewerIsLater
<1>2. ASSUME NEW p \in FeatureUsers, LookUpOne(p) PROVE FeatureInv'
  <2>1. fcVerdict' \in [FeatureUsers -> {"untested", "redis", "memory"}]
        /\ fcVerdict'[p] \in {"redis", "memory"}
        /\ (fcVerdict[p] # "untested" => fcVerdict'[p] = fcVerdict[p])
        /\ \A q \in FeatureUsers \ {p} : fcVerdict'[q] = fcVerdict[q]
    BY <1>2, JudgedTypes DEF LookUpOne
  <2>2. FeatureTypes'
    BY <1>2, <2>1 DEF LookUpOne, FeatureTypes, NothingRead
  <2>3. OneStore' /\ FreshInRedis'
    BY <1>2, <2>1 DEF LookUpOne, FeatureTypes, OneStore, FreshInRedis, Stored
  <2>4. LatestInv'
    <3> SUFFICES ASSUME NEW q \in FeatureUsers PROVE LatestOf(q)'
      BY DEF LatestInv
    <3>1. CASE q = p
      BY <1>2, <3>1 DEF LookUpOne, FeatureTypes, NothingRead, NoAsk, LatestOf
    <3>2. CASE q # p
      BY <1>2, <2>1, <3>2 DEF LookUpOne, FeatureTypes, LatestInv, LatestOf, NewerIsLater, Stored
    <3> QED  BY <3>1, <3>2
  <2> QED  BY <2>2, <2>3, <2>4
<1>3. ASSUME NEW p \in FeatureUsers, DeleteKeys(p) PROVE FeatureInv'
  <2>1. FeatureTypes'
    BY <1>3 DEF DeleteKeys, FeatureTypes, NoAsk
  <2>2. Stored(fcRedis') \subseteq Stored(fcRedis) /\ \A k \in Stored(fcRedis') : fcRedis'[k] = fcRedis[k]
    BY <1>3 DEF DeleteKeys, FeatureTypes, Stored
  <2>3. OneStore' /\ FreshInRedis'
    BY <1>3, <2>2 DEF DeleteKeys, FeatureTypes, OneStore, FreshInRedis
  <2>4. LatestInv'
    BY <1>3, <2>2, ZenonT(30) DEF DeleteKeys, FeatureTypes, LatestInv, LatestOf, NewerIsLater, NoAsk
  <2> QED  BY <2>1, <2>3, <2>4
<1> QED  BY <1>1, <1>2, <1>3

\* Time takes from Redis what has outlived its time.
LEMMA TickKeepsFeatures ==
    ASSUME FeatureInv, FeatureTick
    PROVE  FeatureInv'
<1> USE FeatureAssumption DEF FeatureInv
<1>1. FeatureTypes'
  BY DEF FeatureTick, FeatureTypes
<1>2. Stored(fcRedis') \subseteq Stored(fcRedis)
      /\ \A k \in Stored(fcRedis') : fcRedis'[k] = fcRedis[k] /\ fcNow' - fcRedis[k] < FeatureTtl
  BY DEF FeatureTick, FeatureTypes, Stored
<1>3. OneStore' /\ FreshInRedis'
  BY <1>2 DEF FeatureTick, OneStore, FreshInRedis
<1>4. LatestInv'
  <2> SUFFICES ASSUME NEW q \in FeatureUsers PROVE LatestOf(q)'
    BY DEF LatestInv
  <2>1. LatestOf(q) /\ fcAnswer[q].since \in Nat /\ fcNow \in Nat
    BY DEF LatestInv, FeatureTypes
  <2> QED  BY <1>2, <2>1 DEF FeatureTick, LatestOf, NewerIsLater
<1> QED  BY <1>1, <1>3, <1>4

\* A process keeps to one store, Redis keeps nothing beyond its time, and the latest
\* vector read from Redis is the newest but for what came after the question.
THEOREM FeaturesAreKept == FeatureSpec => []FeatureTypeOK
<1>1. FeatureInit => FeatureInv
  BY FeatureAssumption DEF FeatureInit, FeatureInv, FeatureTypes, OneStore, FreshInRedis, LatestInv, LatestOf,
     NoVectors, NoAsk, NothingRead, Stored
<1>2. FeatureInv /\ [FeatureNext]_featureVars => FeatureInv'
  <2> SUFFICES ASSUME FeatureInv, [FeatureNext]_featureVars PROVE FeatureInv'  OBVIOUS
  <2>1. ASSUME NEW p \in FeatureUsers, NEW works \in BOOLEAN, NEW s \in Stamps, StoreFeatures(p, s, works)
        PROVE  FeatureInv'
    BY <2>1, StoreKeepsFeatures
  <2>2. ASSUME NEW p \in FeatureUsers, NEW works \in BOOLEAN, NEW query \in {"latest", "range", "clear"},
               AskKeys(p, query, works)
        PROVE  FeatureInv'
    BY <2>2, AskKeepsFeatures
  <2>3. ASSUME NEW p \in FeatureUsers, QueryFails(p) \/ \E s \in Stamps : ReadVector(p, s)
        PROVE  FeatureInv'
    BY <2>3, ReadKeepsFeatures
  <2>4. CASE FeatureRedisTurns \/ \E p \in FeatureUsers : LookUpOne(p) \/ DeleteKeys(p)
    BY <2>4, OtherStepsKeepFeatures
  <2>5. CASE FeatureTick
    BY <2>5, TickKeepsFeatures
  <2>6. CASE UNCHANGED featureVars
    BY <2>6 DEF featureVars, FeatureInv, FeatureTypes, OneStore, FreshInRedis, Stored, LatestInv, LatestOf, NewerIsLater
  <2> QED  BY <2>1, <2>2, <2>3, <2>4, <2>5, <2>6 DEF FeatureNext
<1>3. FeatureInv => FeatureTypeOK
  <2> SUFFICES ASSUME FeatureInv PROVE LatestIsNewest
    BY DEF FeatureInv, FeatureTypes, FeatureTypeOK
  <2> QED  BY DEF FeatureInv, LatestInv, LatestOf, NewerIsLater, LatestIsNewest
<1> QED  BY <1>1, <1>2, <1>3, PTL DEF FeatureSpec

-----------------------------------------------------------------------------
(* Locks of a node (state_sync.py:249-273).                                *)

LockInv ==
    /\ rsLeft \in Nat /\ (rsLeft > 0 <=> rsLock # NoHolder)
    /\ rsLock \in NodeNames \cup {NoHolder} /\ rsHolding \subseteq NodeNames /\ rsSpoilt \in BOOLEAN
    /\ ~rsSpoilt => rsHolding \subseteq {rsLock}

LEMMA LocksStart == SyncRecordsInit => LockInv
<1> SUFFICES ASSUME SyncRecordsInit PROVE LockInv
  OBVIOUS
<1>1. rsLeft = 0 /\ rsLock = NoHolder /\ rsHolding = {} /\ rsSpoilt = FALSE
  BY DEF SyncRecordsInit
<1>2. rsLeft \in Nat /\ ~(rsLeft > 0)
  BY <1>1
<1>3. rsHolding \subseteq {rsLock} /\ rsHolding \subseteq NodeNames /\ rsSpoilt \in BOOLEAN
  BY <1>1
<1> QED  BY <1>1, <1>2, <1>3 DEF LockInv

LEMMA LocksKeep ==
    ASSUME LockInv, [RecordsNext \/ LocksNext]_syncRecordVars
    PROVE  LockInv'
<1> USE SyncRecordsAssumption
<1>1. ASSUME NEW n \in NodeNames, AcquireLock(n) PROVE LockInv'
  <2>1. /\ ~rsSpoilt' => ~rsSpoilt /\ Client(n)
        /\ rsSpoilt' \in BOOLEAN
    BY <1>1 DEF AcquireLock
  <2>2. rsHolding' = rsHolding \cup {n}
    BY <1>1 DEF AcquireLock
  <2>3. CASE UNCHANGED <<rsLock, rsLeft>> /\ ~Client(n)
    BY <2>1, <2>2, <2>3 DEF LockInv
  <2>4. CASE rsLock = NoHolder /\ rsLock' = n /\ rsLeft' = LockTtl
    BY <2>1, <2>2, <2>4 DEF LockInv
  <2> QED  BY <1>1, <2>3, <2>4 DEF AcquireLock
<1>2. ASSUME NEW n \in NodeNames, ReleaseLock(n) PROVE LockInv'
  BY <1>2 DEF ReleaseLock, LockInv
<1>3. CASE LockSecond
  <2>1. /\ ~rsSpoilt' => ~rsSpoilt /\ ~(rsLeft = 1 /\ rsLock \in rsHolding)
        /\ rsSpoilt' \in BOOLEAN
    BY <1>3 DEF LockSecond
  <2>2. /\ rsLeft' = rsLeft - 1 /\ rsLeft > 0 /\ rsHolding' = rsHolding
        /\ rsLock' = IF rsLeft = 1 THEN NoHolder ELSE rsLock
    BY <1>3 DEF LockSecond
  <2> QED  BY <2>1, <2>2 DEF LockInv
<1>4. CASE RecordsNext \/ SyncRedisTurns \/ UNCHANGED syncRecordVars
  <2>1. UNCHANGED lockVars
    BY <1>4 DEF RecordsNext, SyncNew, DrainOne, ScanKey, CopyKey, SyncRedisTurns, syncRecordVars
  <2> QED  BY <2>1 DEF lockVars, LockInv
<1> QED  BY <1>1, <1>2, <1>3, <1>4 DEF LocksNext

LEMMA LocksHold == LockInv => LocksExclude
<1> SUFFICES ASSUME LockInv, ~rsSpoilt
             PROVE  Cardinality(rsHolding) <= 1 /\ (rsHolding # {} => rsHolding = {rsLock})
  BY DEF LocksExclude
<1>1. rsHolding = {} \/ rsHolding = {rsLock}
  BY DEF LockInv
<1>2. Cardinality({}) = 0 /\ Cardinality({rsLock}) = 1
  BY FS_EmptySet, FS_Singleton
<1> QED  BY <1>1, <1>2

\* Two nodes hold the lock only after one took it without Redis or it ran out in use.
THEOREM LocksStayApart == SyncRecordsSpec => []LocksExclude
BY LocksStart, LocksKeep, LocksHold, PTL DEF SyncRecordsSpec

-----------------------------------------------------------------------------
(* Records of a node (state_sync.py:80-223).                               *)

\* A dictionary of one of the versions so far.
Dictionary(v) == [version : 1 .. v, hash : {"none", "pure", "nested"}]

RecordInv ==
    /\ rsUp \in BOOLEAN /\ rsClients \subseteq NodeNames /\ rsVersion \in 0 .. MaxVersions
    /\ rsQueue \in Seq(Dictionary(rsVersion)) /\ rsStored \in Seq(Dictionary(rsVersion)) /\ Len(rsStored) <= 1
    /\ rsHistory \in Seq(1 .. rsVersion) /\ Len(rsHistory) <= HistoryLength
    /\ rsCopy \in 0 .. rsVersion /\ rsScan \in 0 .. rsVersion
    /\ HashedWhenConnected

LEMMA SequencesWiden ==
    ASSUME NEW A, NEW B, A \subseteq B, NEW s \in Seq(A)
    PROVE  s \in Seq(B)
<1>1. s \in [1 .. Len(s) -> B] /\ Len(s) \in Nat
  OBVIOUS
<1> QED  BY <1>1

\* The history takes a version in front and keeps to its length.
LEMMA RemembersVersions ==
    ASSUME NEW v \in Nat, NEW n \in 1 .. v, rsHistory \in Seq(1 .. v), Len(rsHistory) <= HistoryLength
    PROVE  Remembered(n) \in Seq(1 .. v) /\ Len(Remembered(n)) <= HistoryLength
<1> USE SyncRecordsAssumption
<1> DEFINE longer == <<n>> \o rsHistory
           k == IF Len(rsHistory) < HistoryLength THEN Len(rsHistory) + 1 ELSE HistoryLength
<1>1. longer \in Seq(1 .. v) /\ Len(longer) = Len(rsHistory) + 1
  <2>1. <<n>> \in Seq(1 .. v) /\ Len(<<n>>) = 1
    OBVIOUS
  <2> QED  BY <2>1
<1>2. k \in Nat /\ k <= Len(longer) /\ k <= HistoryLength
  BY <1>1
<1> HIDE DEF longer, k
<1>3. SubSeq(longer, 1, k) \in Seq(1 .. v) /\ Len(SubSeq(longer, 1, k)) = k
  <2>1. \A i \in 1 .. k : longer[i] \in 1 .. v
    BY <1>1, <1>2
  <2>2. k >= 1
    BY DEF k
  <2> QED  BY <1>2, <2>1, <2>2, SubSeqProperties
<1> QED  BY <1>2, <1>3 DEF Remembered, longer, k

\* A dictionary that is synced is buffered, stored or both; until the first connection it
\* is only buffered, as it is.
LEMMA SyncsKeep ==
    ASSUME RecordInv, rsVersion' \in rsVersion .. MaxVersions, UNCHANGED <<rsCopy, rsScan>>,
           NEW dict \in Dictionary(rsVersion'), NEW queue \in Seq(Dictionary(rsVersion')),
           SyncRecord(dict, queue),
           Syncer \notin rsClients => dict.hash = "none" /\ \A i \in DOMAIN queue : queue[i].hash = "none"
    PROVE  RecordInv'
<1> USE SyncRecordsAssumption
<1> DEFINE v == rsVersion'
<1>1. v \in Nat /\ v \in 0 .. MaxVersions /\ rsVersion \in Nat /\ rsVersion <= v
  BY DEF RecordInv
<1>2. rsStored \in Seq(Dictionary(v)) /\ rsHistory \in Seq(1 .. v)
  <2>1. Dictionary(rsVersion) \subseteq Dictionary(v) /\ 1 .. rsVersion \subseteq 1 .. v
    BY <1>1 DEF Dictionary
  <2> QED  BY <2>1, SequencesWiden DEF RecordInv
<1>3. Hashed(dict) \in Dictionary(v) /\ dict.version \in 1 .. v
  BY DEF Dictionary, Hashed
<1>4. Append(queue, dict) \in Seq(Dictionary(v)) /\ Append(queue, Hashed(dict)) \in Seq(Dictionary(v))
  BY <1>3
<1>5. <<Hashed(dict)>> \in Seq(Dictionary(v)) /\ Len(<<Hashed(dict)>>) = 1
  BY <1>3
<1>6. Remembered(dict.version) \in Seq(1 .. v) /\ Len(Remembered(dict.version)) <= HistoryLength
  BY <1>1, <1>2, <1>3, RemembersVersions DEF RecordInv
<1>7. /\ rsQueue' \in {queue, Append(queue, dict), Append(queue, Hashed(dict))}
      /\ rsStored' \in {rsStored, <<Hashed(dict)>>} /\ rsHistory' \in {rsHistory, Remembered(dict.version)}
      /\ rsUp' \in {rsUp, FALSE}
  BY DEF SyncRecord
<1>8. rsClients' \subseteq NodeNames /\ rsClients \subseteq rsClients'
  BY DEF SyncRecord, Connect, RecordInv
<1>9. rsCopy' \in 0 .. v /\ rsScan' \in 0 .. v
  BY <1>1 DEF RecordInv
<1>10. HashedWhenConnected'
  <2> SUFFICES ASSUME Syncer \notin rsClients'
               PROVE  VerifyConsistency' /\ \A i \in DOMAIN rsQueue' : rsQueue'[i].hash = "none"
    BY DEF HashedWhenConnected
  <2>1. Syncer \notin rsClients /\ ~Client(Syncer)
    BY <1>8 DEF SyncRecord, Connect, Client
  <2>2. rsQueue' = Append(queue, dict) /\ rsStored' = rsStored
    BY <2>1 DEF SyncRecord, Client
  <2>3. VerifyConsistency'
    BY <2>1, <2>2 DEF VerifyConsistency, RecordInv, HashedWhenConnected
  <2>4. ASSUME NEW i \in DOMAIN Append(queue, dict) PROVE Append(queue, dict)[i].hash = "none"
    <3>1. CASE i \in DOMAIN queue
      BY <2>1, <3>1
    <3>2. CASE i = Len(queue) + 1
      BY <2>1, <3>2
    <3> QED  BY <3>1, <3>2
  <2> QED  BY <2>2, <2>3, <2>4
<1> HIDE DEF v
<1>11. rsStored' \in Seq(Dictionary(v)) /\ Len(rsStored') <= 1
  <2>1. Len(rsStored) <= 1
    BY DEF RecordInv
  <2>2. CASE rsStored' = rsStored
    BY <1>2, <2>1, <2>2
  <2>3. CASE rsStored' = <<Hashed(dict)>>
    BY <1>5, <2>3
  <2> QED  BY <1>7, <2>2, <2>3
<1>12. rsHistory' \in Seq(1 .. v) /\ Len(rsHistory') <= HistoryLength
  BY <1>2, <1>6, <1>7 DEF RecordInv
<1>13. rsQueue' \in Seq(Dictionary(v)) /\ rsUp' \in BOOLEAN
  BY <1>4, <1>7 DEF RecordInv, v
<1> QED  BY <1>1, <1>8, <1>9, <1>10, <1>11, <1>12, <1>13 DEF RecordInv, v

LEMMA RecordsKeep ==
    ASSUME RecordInv, [RecordsNext \/ LocksNext]_syncRecordVars
    PROVE  RecordInv'
<1> USE SyncRecordsAssumption
<1>1. CASE SyncNew
  <2> DEFINE dict == [version |-> rsVersion + 1, hash |-> "none"]
  <2>1. rsVersion' = rsVersion + 1 /\ rsVersion' \in rsVersion .. MaxVersions /\ rsVersion \in Nat
    BY <1>1 DEF SyncNew, RecordInv
  <2>2. Dictionary(rsVersion) \subseteq Dictionary(rsVersion') /\ dict \in Dictionary(rsVersion')
    BY <2>1 DEF Dictionary
  <2>3. rsQueue \in Seq(Dictionary(rsVersion'))
    BY <2>2, SequencesWiden DEF RecordInv
  <2>4. Syncer \notin rsClients => dict.hash = "none" /\ \A i \in DOMAIN rsQueue : rsQueue[i].hash = "none"
    BY DEF RecordInv, HashedWhenConnected
  <2>5. SyncRecord(dict, rsQueue) /\ UNCHANGED <<rsCopy, rsScan>>
    BY <1>1 DEF SyncNew
  <2> HIDE DEF dict
  <2> QED  BY <2>1, <2>2, <2>3, <2>4, <2>5, SyncsKeep
<1>2. CASE DrainOne
  <2>1. /\ rsVersion' = rsVersion /\ rsVersion' \in rsVersion .. MaxVersions
        /\ SyncRecord(Head(rsQueue), Tail(rsQueue)) /\ UNCHANGED <<rsCopy, rsScan>> /\ rsQueue # <<>>
    BY <1>2 DEF DrainOne, RecordInv
  <2>2. Head(rsQueue) \in Dictionary(rsVersion') /\ Tail(rsQueue) \in Seq(Dictionary(rsVersion'))
    BY <2>1 DEF RecordInv
  <2>3. ASSUME Syncer \notin rsClients
        PROVE  Head(rsQueue).hash = "none" /\ \A i \in DOMAIN Tail(rsQueue) : Tail(rsQueue)[i].hash = "none"
    <3>1. \A i \in DOMAIN rsQueue : rsQueue[i].hash = "none"
      BY <2>3 DEF RecordInv, HashedWhenConnected
    <3>2. rsQueue \in Seq(Dictionary(rsVersion))
      BY DEF RecordInv
    <3>3. Head(rsQueue) = rsQueue[1] /\ 1 \in DOMAIN rsQueue
      BY <2>1, <3>2
    <3>4. \A i \in DOMAIN Tail(rsQueue) : Tail(rsQueue)[i] = rsQueue[i + 1] /\ i + 1 \in DOMAIN rsQueue
      BY <2>1, <3>2
    <3> QED  BY <3>1, <3>3, <3>4
  <2> QED  BY <2>1, <2>2, <2>3, SyncsKeep
<1>3. CASE ScanKey
  <2>1. rsStored[1].version \in 0 .. rsVersion
    <3>1. rsStored[1] \in Dictionary(rsVersion)
      BY <1>3 DEF ScanKey, RecordInv
    <3> QED  BY <3>1 DEF Dictionary, RecordInv
  <2>2. rsScan' \in 0 .. rsVersion /\ UNCHANGED <<rsUp, rsVersion, rsQueue, rsStored, rsHistory, rsCopy>>
    BY <1>3, <2>1 DEF ScanKey
  <2>3. rsClients' \subseteq NodeNames /\ rsClients \subseteq rsClients'
    BY <1>3 DEF ScanKey, Connect, RecordInv
  <2> QED  BY <2>2, <2>3 DEF RecordInv, HashedWhenConnected, VerifyConsistency
<1>4. CASE CopyKey
  BY <1>4 DEF CopyKey, RecordInv, HashedWhenConnected, VerifyConsistency
<1>5. CASE SyncRedisTurns
  BY <1>5 DEF SyncRedisTurns, recordVars, RecordInv, HashedWhenConnected, VerifyConsistency
<1>6. CASE LocksNext \/ UNCHANGED syncRecordVars
  <2>1. UNCHANGED recordVars /\ rsUp' \in BOOLEAN
    BY <1>6 DEF LocksNext, AcquireLock, ReleaseLock, LockSecond, SyncRedisTurns, syncRecordVars, RecordInv
  <2>2. rsClients' \subseteq NodeNames /\ rsClients \subseteq rsClients'
    BY <1>6 DEF LocksNext, AcquireLock, ReleaseLock, LockSecond, SyncRedisTurns, Connect, syncRecordVars, RecordInv
  <2> QED  BY <2>1, <2>2 DEF recordVars, RecordInv, HashedWhenConnected, VerifyConsistency
<1> QED  BY <1>1, <1>2, <1>3, <1>4, <1>5, <1>6 DEF RecordsNext

LEMMA RecordsStart == SyncRecordsInit => RecordInv
<1> SUFFICES ASSUME SyncRecordsInit PROVE RecordInv
  OBVIOUS
<1>1. <<>> \in Seq(Dictionary(0)) /\ <<>> \in Seq(1 .. 0) /\ Len(<<>>) = 0 /\ DOMAIN <<>> = {}
  OBVIOUS
<1> QED  BY <1>1, SyncRecordsAssumption DEF SyncRecordsInit, RecordInv, HashedWhenConnected, VerifyConsistency

\* No node is copied a version the key has not had; nothing is hashed before the first
\* connection; the key of the lock has a time to live exactly while somebody holds it
\* (state_sync.py:93-273).
THEOREM RecordTypes == SyncRecordsSpec => []SyncRecordsTypeOK
<1>1. RecordInv /\ LockInv => SyncRecordsTypeOK
  <2> SUFFICES ASSUME RecordInv, LockInv PROVE SyncRecordsTypeOK
    OBVIOUS
  <2>1. \A i \in DOMAIN rsQueue : rsQueue[i].version \in 1 .. rsVersion
    <3>1. \A i \in DOMAIN rsQueue : rsQueue[i] \in Dictionary(rsVersion)
      BY DEF RecordInv
    <3> QED  BY <3>1 DEF Dictionary
  <2>2. CopyWasStored
    BY DEF RecordInv, CopyWasStored
  <2> QED  BY <2>1, <2>2, LocksHold DEF RecordInv, LockInv, SyncRecordsTypeOK
<1> QED  BY <1>1, RecordsStart, RecordsKeep, LocksStart, LocksKeep, PTL DEF SyncRecordsSpec

-----------------------------------------------------------------------------
(* Failures and locks of a user (accounts/serializers.py:73-106).          *)

\* A row whose full count is locked.
Locked(row) == row \in UserRows /\ (row.fails >= FailLimit => row.lock # 0)

\* What holds of the user's row holds of the rows requests have loaded, however old.
RowInv ==
    /\ acClock \in 0 .. LockClock /\ Locked(acRow)
    /\ \A r \in Requests : r \in acAnonymous \/ acLoaded[r] # NoRow => Locked(acLoaded[r])
    /\ acAnonymous \subseteq Requests /\ DOMAIN acLoaded = Requests

\* The changes the requests make to a row.
LEMMA ChangedRows ==
    ASSUME NEW row, Locked(row), acClock \in 0 .. LockClock
    PROVE  /\ Locked(CountFailure(row)) /\ Locked([row EXCEPT !.fails = 0])
           /\ \A mfa \in BOOLEAN : Locked([row EXCEPT !.mfa = mfa])
           /\ \A p \in Passwords : Locked([row EXCEPT !.password = p])
           /\ Locked([row EXCEPT !.mfa = TRUE, !.secret = TRUE])
           /\ Locked([row EXCEPT !.mfa = FALSE, !.secret = FALSE])
           /\ Locked([row EXCEPT !.secret = TRUE])
<1> USE AccountsAssumption DEF Locked, UserRows
<1>1. ASSUME NEW n \in Nat PROVE Min({n, FailLimit}) = IF n <= FailLimit THEN n ELSE FailLimit
  BY DEF Min
<1>2. Locked(CountFailure(row))
  <2> DEFINE fails == Min({row.fails + 1, FailLimit})
             lock == IF row.fails + 1 >= FailLimit THEN acClock + 1 ELSE row.lock
  <2>1. fails \in 0 .. FailLimit /\ (fails >= FailLimit => row.fails + 1 >= FailLimit)
    BY <1>1
  <2>2. lock \in 0 .. LockClock + 1 /\ (row.fails + 1 >= FailLimit => lock # 0)
    OBVIOUS
  <2>3. CountFailure(row) = [row EXCEPT !.fails = fails, !.lock = lock]
    BY DEF CountFailure
  <2> HIDE DEF fails, lock
  <2> QED  BY <2>1, <2>2, <2>3
<1>3. Locked([row EXCEPT !.fails = 0])
  OBVIOUS
<1>4. ASSUME NEW p \in Passwords PROVE Locked([row EXCEPT !.password = p])
  BY <1>4
<1>5. ASSUME NEW mfa \in BOOLEAN PROVE Locked([row EXCEPT !.mfa = mfa])
  BY <1>5
<1>6. ASSUME NEW mfa \in BOOLEAN, NEW secret \in BOOLEAN
      PROVE  Locked([row EXCEPT !.mfa = mfa, !.secret = secret]) /\ Locked([row EXCEPT !.secret = secret])
  BY <1>6
<1> HIDE DEF Locked, UserRows
<1> QED  BY <1>2, <1>3, <1>4, <1>5, <1>6, AccountsAssumption

\* A request that ends leaves the rows of the others as they were.
LEMMA EndedRequest ==
    ASSUME RowInv, NEW r \in Requests, Ends(r), Locked(acRow')
    PROVE  RowInv'
BY DEF RowInv, Ends, Locked

\* Every step of a request saves a row in which a full count is locked.
LEMMA RequestsKeepLocks ==
    ASSUME RowInv, UserNext
    PROVE  RowInv'
<1>1. ASSUME NEW r \in Requests, BeginLogin(r) \/ BeginRequest(r) PROVE RowInv'
  BY <1>1 DEF BeginLogin, BeginRequest, RowInv, Locked
<1>2. ASSUME NEW r \in Requests,
             \/ WrongPassword(r) \/ SignIn(r) \/ ConfirmDevice(r) \/ DisableMfa(r) \/ EnrollMfa(r) \/ VerifyMfa(r)
             \/ \E mfa \in BOOLEAN : SaveProfile(r, mfa)
             \/ \E p \in Passwords : ChangePassword(r, p)
      PROVE  RowInv'
  <2>1. Ends(r) /\ (r \in acAnonymous \/ acLoaded[r] # NoRow)
    BY <1>2 DEF WrongPassword, SignIn, ConfirmDevice, DisableMfa, EnrollMfa, VerifyMfa, SaveProfile,
                ChangePassword, SignedIn
  <2>2. Locked(acLoaded[r]) /\ Locked(acRow) /\ acClock \in 0 .. LockClock
    BY <2>1 DEF RowInv
  <2>3. CASE WrongPassword(r) \/ SignIn(r)
    BY <2>1, <2>2, <2>3, ChangedRows, EndedRequest DEF WrongPassword, SignIn
  <2>4. CASE ConfirmDevice(r) \/ DisableMfa(r)
    BY <2>1, <2>2, <2>4, ChangedRows, EndedRequest DEF ConfirmDevice, DisableMfa
  <2>5. CASE EnrollMfa(r) \/ VerifyMfa(r)
    BY <2>1, <2>2, <2>5, ChangedRows, EndedRequest DEF EnrollMfa, VerifyMfa
  <2>6. CASE \E mfa \in BOOLEAN : SaveProfile(r, mfa)
    BY <2>1, <2>2, <2>6, ChangedRows, EndedRequest DEF SaveProfile
  <2>7. CASE \E p \in Passwords : ChangePassword(r, p)
    <3>1. PICK p \in Passwords : acRow' = [acLoaded[r] EXCEPT !.password = p]
      BY <2>7 DEF ChangePassword
    <3>2. Locked([acLoaded[r] EXCEPT !.password = p])
      BY <2>2, ChangedRows
    <3> QED  BY <2>1, <3>1, <3>2, EndedRequest
  <2> QED  BY <1>2, <2>3, <2>4, <2>5, <2>6, <2>7
<1>3. ASSUME NEW r \in Requests, RefuseCode(r) \/ CreateDevice(r) \/ Logout(r) \/ DeleteSession(r)
      PROVE  RowInv'
  <2>1. Ends(r) /\ acRow' = acRow
    BY <1>3 DEF RefuseCode, CreateDevice, Logout, DeleteSession
  <2> QED  BY <2>1, EndedRequest DEF RowInv, Locked
<1>4. CASE AccessExpires \/ RefreshAccess \/ LockTime
  BY <1>4, AccountsAssumption DEF AccessExpires, RefreshAccess, LockTime, RowInv, Locked
<1> QED  BY <1>1, <1>2, <1>3, <1>4 DEF UserNext

LEMMA RowsStart == AcInit => RowInv
<1> SUFFICES ASSUME AcInit PROVE RowInv  OBVIOUS
<1>1. acRow \in UserRows /\ acRow.fails = 0 /\ acClock \in 0 .. LockClock
  <2>1. /\ acRow.password \in Passwords /\ acRow.fails = 0 /\ acRow.lock = 0
        /\ acRow.mfa = FALSE /\ acRow.secret = FALSE
        /\ acRow = [password |-> acRow.password, fails |-> acRow.fails, lock |-> acRow.lock,
                    mfa |-> acRow.mfa, secret |-> acRow.secret]
    BY DEF AcInit
  <2>2. 0 \in 0 .. FailLimit /\ 0 \in 0 .. LockClock + 1 /\ acClock \in 0 .. LockClock
    BY AccountsAssumption DEF AcInit
  <2> QED  BY <2>1, <2>2 DEF UserRows
<1> QED  BY <1>1, AccountsAssumption DEF AcInit, RowInv, Locked

LEMMA RowsKeep == RowInv /\ [AcNext]_acVars => RowInv'
<1> SUFFICES ASSUME RowInv, [AcNext]_acVars PROVE RowInv'  OBVIOUS
<1>1. CASE UserNext
  BY <1>1, RequestsKeepLocks
<1>2. CASE ScalingNext \/ UNCHANGED acVars
  <2>1. UNCHANGED userVars
    BY <1>2 DEF ScalingNext, CreateAccount, CheckAndScale, acVars
  <2> QED  BY <2>1 DEF userVars, RowInv, Locked
<1> QED  BY <1>1, <1>2 DEF AcNext

\* However many requests save old rows over it, a user's row never counts failures to the
\* limit without having been locked.
THEOREM FullCountsAreLocked == AcSpec => []FullCountIsLocked
<1>1. RowInv => FullCountIsLocked
  BY DEF RowInv, Locked, FullCountIsLocked
<1> QED  BY <1>1, RowsStart, RowsKeep, PTL DEF AcSpec

-----------------------------------------------------------------------------
(* What PPO learns from (rl_agent.py:783-818).                             *)

RolloutInv ==
    /\ rlTaken \in Nat /\ rlLearned \in Nat /\ rlEpisode \in Nat /\ rlStep \in Nat
    /\ rlRollout \in Seq(Nat \X Nat)
    /\ LearnedOnce
    /\ rlPhase \in {"reset", "step"} => Len(rlRollout) < RolloutLength
    /\ rlTest => rlRollout = <<>>

\* When nothing is collected, what was taken has been learned from.
LEMMA NothingCollected ==
    ASSUME rlRollout' = <<>>, rlTaken' = rlLearned' \/ rlAgent' = "dqn",
           {rlTaken', rlLearned', rlEpisode', rlStep'} \subseteq Nat
    PROVE  RolloutInv'
<1>1. rlRollout' \in Seq(Nat \X Nat) /\ Len(rlRollout') = 0 /\ DOMAIN rlRollout' = {}
  OBVIOUS
<1> QED  BY <1>1, RlAssumption DEF RolloutInv, LearnedOnce

\* A step of training is added to the rollout, or learned from with all of it.
LEMMA PpoKeepsRollout ==
    ASSUME RolloutInv, NEW action, PpoStep(action)
    PROVE  RolloutInv'
<1> DEFINE rollout == Append(rlRollout, <<rlEpisode, rlStep>>)
<1>1. /\ rollout \in Seq(Nat \X Nat) /\ Len(rollout) = Len(rlRollout) + 1
      /\ Len(rollout) <= RolloutLength
      /\ \A i \in DOMAIN rollout : rollout[i][1] = rlEpisode
  <2>1. rlRollout \in Seq(Nat \X Nat) /\ <<rlEpisode, rlStep>> \in Nat \X Nat
    BY DEF RolloutInv
  <2>2. rollout \in Seq(Nat \X Nat) /\ Len(rollout) = Len(rlRollout) + 1
    BY <2>1
  <2>3. Len(rlRollout) < RolloutLength
    BY DEF RolloutInv, PpoStep
  <2>4. \A i \in DOMAIN rlRollout : rlRollout[i][1] = rlEpisode
    BY DEF RolloutInv, LearnedOnce
  <2>5. ASSUME NEW i \in DOMAIN rollout PROVE rollout[i][1] = rlEpisode
    <3>1. CASE i \in DOMAIN rlRollout
      BY <2>1, <2>4, <3>1
    <3>2. CASE i = Len(rlRollout) + 1
      BY <2>1, <3>2
    <3> QED  BY <2>1, <3>1, <3>2
  <2> QED  BY <2>1, <2>2, <2>3, <2>5, RlAssumption
<1>2. /\ rlTaken' = rlTaken + 1 /\ rlEpisode' = rlEpisode /\ rlStep' = rlStep + 1
      /\ rlTest' = rlTest /\ ~rlTest /\ rlAgent' = rlAgent /\ rlAgent = "ppo"
  BY DEF PpoStep, StepEnv
<1> HIDE DEF rollout
<1>3. CASE Learn(rollout)
  <2>1. rlLearned' = rlLearned + Len(rollout) /\ rlRollout' = <<>>
    BY <1>3 DEF Learn
  <2>2. rlTaken' = rlLearned' /\ rlTaken' \in Nat
    BY <1>1, <1>2, <2>1 DEF RolloutInv, LearnedOnce
  <2> QED  BY <1>2, <2>1, <2>2, NothingCollected DEF RolloutInv
<1>4. CASE /\ ~(Len(rollout) >= RolloutLength /\ ~Done(rlStep'))
           /\ rlRollout' = rollout /\ UNCHANGED rlLearned
  <2>1. rlPhase' = "step" => Len(rollout) < RolloutLength
    BY <1>1, <1>4, RlAssumption DEF PpoStep
  <2>2. rlPhase' \in {"step", "update"}
    BY DEF PpoStep
  <2>3. rlTaken' = rlLearned' + Len(rlRollout') /\ rlTaken' \in Nat /\ rlLearned' \in Nat
    BY <1>1, <1>2, <1>4 DEF RolloutInv, LearnedOnce
  <2>4. /\ rlRollout' \in Seq(Nat \X Nat) /\ Len(rlRollout') <= RolloutLength
        /\ \A i \in DOMAIN rlRollout' : rlRollout'[i][1] = rlEpisode'
    BY <1>1, <1>2, <1>4
  <2>5. rlEpisode' \in Nat /\ rlStep' \in Nat /\ ~rlTest'
    BY <1>2 DEF RolloutInv
  <2> QED  BY <1>4, <2>1, <2>2, <2>3, <2>4, <2>5 DEF RolloutInv, LearnedOnce
<1> QED  BY <1>3, <1>4 DEF PpoStep, rollout

LEMMA RolloutsStart == RlInit => RolloutInv
BY RlAssumption DEF RlInit, RolloutInv, LearnedOnce

LEMMA RolloutsKeep == RolloutInv /\ [RlNext]_rlVars => RolloutInv'
<1> SUFFICES ASSUME RolloutInv, [RlNext]_rlVars PROVE RolloutInv'  OBVIOUS
<1>1. ASSUME NEW agent \in Agents, TrainAgent(agent) PROVE RolloutInv'
  <2>1. rlRollout' = <<>> /\ rlTaken' = 0 /\ rlLearned' = 0 /\ rlEpisode' = 0 /\ rlStep' = rlStep
    BY <1>1 DEF TrainAgent, envVars
  <2> QED  BY <2>1, NothingCollected DEF RolloutInv
<1>2. CASE ResetEnv
  BY <1>2 DEF ResetEnv, ppoVars, RolloutInv, LearnedOnce
<1>3. ASSUME NEW a \in Actions, DqnStep(a) PROVE RolloutInv'
  BY <1>3 DEF DqnStep, StepEnv, ppoVars, RolloutInv, LearnedOnce
<1>4. ASSUME NEW a \in Actions, PpoStep(a) PROVE RolloutInv'
  BY <1>4, PpoKeepsRollout
<1>5. ASSUME NEW a \in Actions, Evaluated(a) PROVE RolloutInv'
  BY <1>5, RlAssumption DEF Evaluated, StepEnv, ppoVars, RolloutInv, LearnedOnce
<1>6. CASE EndEpisode
  <2>1. rlRollout' = <<>> /\ rlLearned' = rlLearned + Len(rlRollout)
    BY <1>6 DEF EndEpisode, RolloutInv, Learn
  <2>2. rlTaken' = rlTaken /\ rlEpisode' \in Nat /\ rlStep' = rlStep /\ rlAgent' = rlAgent
    BY <1>6 DEF EndEpisode, envVars, RolloutInv
  <2>3. Len(rlRollout) \in Nat
    BY DEF RolloutInv
  <2> QED  BY <2>1, <2>2, <2>3, NothingCollected DEF RolloutInv, LearnedOnce
<1>7. CASE SaveAgent
  BY <1>7 DEF SaveAgent, envVars, ppoVars, RolloutInv, LearnedOnce
<1>8. CASE UNCHANGED rlVars
  BY <1>8 DEF rlVars, envVars, ppoVars, RolloutInv, LearnedOnce
<1> QED  BY <1>1, <1>2, <1>3, <1>4, <1>5, <1>6, <1>7, <1>8 DEF RlNext

\* PPO learns from every step once, never from two episodes in one update.
THEOREM StepsAreLearnedOnce == RlSpec => []LearnedOnce
<1>1. RolloutInv => LearnedOnce
  BY DEF RolloutInv
<1> QED  BY <1>1, RolloutsStart, RolloutsKeep, PTL DEF RlSpec

-----------------------------------------------------------------------------
(* Trades by the native bridge (mcp_integration/services.py:185-297).      *)

NativeInv == brKind = "native" =>
    /\ clKnown = {} /\ clClosed = {} /\ ~clHeard
    /\ \A i \in DOMAIN brQueue : brQueue[i].op # "close"

Asked == {"connect", "disconnect", "health", "positions", "open", "close", "modify"}

AskedInv == brQueue \in Seq([op : Asked, ticket : Nat, levels : PricePair])

NativelyAsked == NativeInv /\ AskedInv

LEMMA NativeStarts == BridgeInit => NativelyAsked
BY DEF BridgeInit, NativelyAsked, NativeInv, AskedInv

LEMMA NativeKeeps ==
    ASSUME NativelyAsked, [BridgeNext]_bridgeVars
    PROVE  NativelyAsked'
<1> USE DEF NativelyAsked
<1> NoPrices \in PricePair
  BY BridgeAssumption DEF NoPrices, PricePair
<1>1. ASSUME NEW op \in Asked, NEW t \in Nat, NEW levels \in PricePair, Post(Request(op, t, levels)),
             clKnown = {} => op # "close", UNCHANGED <<clKnown, clClosed, clHeard>>
      PROVE  NativelyAsked'
  BY <1>1 DEF Post, Request, terminalVars, NativeInv, AskedInv
<1>2. CASE \/ SendConnect
           \/ \E op \in {"disconnect", "health", "positions"} : SendPlain(op)
           \/ \E levels \in PricePair : SendOpen(levels)
           \/ \E t \in AllTickets : SendClose(t)
           \/ \E t \in AllTickets, levels \in PricePair : SendModify(t, levels)
  <2>1. AllTickets \subseteq Nat
    BY BridgeAssumption DEF AllTickets
  <2>2. 0 \in Nat /\ Asked = {"connect", "disconnect", "health", "positions", "open", "close", "modify"}
    BY DEF Asked
  <2>3. CASE SendConnect
    BY <1>1, <2>2, <2>3 DEF SendConnect
  <2>4. ASSUME NEW op \in {"disconnect", "health", "positions"}, SendPlain(op) PROVE NativelyAsked'
    BY <1>1, <2>2, <2>4 DEF SendPlain, clientVars
  <2>5. ASSUME NEW levels \in PricePair, SendOpen(levels) PROVE NativelyAsked'
    BY <1>1, <2>2, <2>5 DEF SendOpen, clientVars
  <2>6. ASSUME NEW t \in AllTickets, SendClose(t) PROVE NativelyAsked'
    BY <1>1, <2>1, <2>2, <2>6 DEF SendClose, clientVars
  <2>7. ASSUME NEW t \in AllTickets, NEW levels \in PricePair, SendModify(t, levels) PROVE NativelyAsked'
    BY <1>1, <2>1, <2>2, <2>7 DEF SendModify
  <2> QED  BY <1>2, <2>3, <2>4, <2>5, <2>6, <2>7
<1>3. ASSUME NEW answered \in BOOLEAN, Tells(answered), brQueue # <<>>
      PROVE  /\ AskedInv'
             /\ \A i \in DOMAIN brQueue' : i + 1 \in DOMAIN brQueue /\ brQueue'[i] = brQueue[i + 1]
             /\ 1 \in DOMAIN brQueue /\ Head(brQueue) = brQueue[1]
  BY <1>3 DEF Tells, AskedInv
<1>4. ASSUME NEW answered \in BOOLEAN,
             \/ ServeConnect(answered) \/ ServeDisconnect(answered) \/ ServeHealth(answered) \/ ServePositions(answered)
             \/ \E accepted \in BOOLEAN :
                  ServeOpen(answered, accepted) \/ ServeClose(answered, accepted) \/ ServeModify(answered, accepted)
      PROVE  NativelyAsked'
  <2>1. Tells(answered) /\ brQueue # <<>> /\ brKind' = brKind
    BY <1>4 DEF ServeConnect, ServeDisconnect, ServeHealth, ServePositions, ServeOpen, ServeClose,
                ServeModify, Serving, Opens, Closes, Modifies, terminalVars
  <2>2. brKind = "native" => clKnown' = clKnown /\ ~clHeard' /\ clClosed' = clClosed
    <3> SUFFICES ASSUME brKind = "native" PROVE clKnown' = clKnown /\ ~clHeard' /\ clClosed' = clClosed
      OBVIOUS
    <3>1. Head(brQueue).op # "close"
      BY <1>3, <2>1 DEF NativeInv
    <3>2. ~clHeard
      BY DEF NativeInv
    <3>3. CASE ServeConnect(answered) \/ ServeDisconnect(answered)
      <4>1. UNCHANGED <<clKnown, clClosed, clHeard>>
        BY <3>3 DEF ServeConnect, ServeDisconnect
      <4> QED  BY <3>2, <4>1
    <3>4. CASE ServeHealth(answered) \/ ServePositions(answered)
      BY <3>2, <3>4 DEF ServeHealth, ServePositions
    <3>5. ASSUME NEW accepted \in BOOLEAN, ServeOpen(answered, accepted) \/ ServeModify(answered, accepted)
          PROVE clKnown' = clKnown /\ ~clHeard' /\ clClosed' = clClosed
      BY <3>2, <3>5 DEF ServeOpen, ServeModify
    <3>6. ASSUME NEW accepted \in BOOLEAN, ServeClose(answered, accepted) PROVE FALSE
      BY <3>1, <3>6 DEF ServeClose, Serving
    <3> QED  BY <1>4, <3>3, <3>4, <3>5, <3>6
  <2> QED  BY <1>3, <2>1, <2>2 DEF NativeInv
<1>5. CASE \/ GiveUp \/ TerminalTurns
           \/ \E levels \in PricePair : DirectOpen(levels)
           \/ \E t \in AllTickets : DirectClose(t) \/ TerminalCloses(t)
           \/ \E t \in AllTickets, named \in SUBSET {"sl", "tp"} : DirectModify(t, named)
           \/ UNCHANGED bridgeVars
  <2>1. UNCHANGED <<brKind, brQueue, clKnown, clClosed, clHeard>>
    BY <1>5 DEF GiveUp, TerminalTurns, DirectOpen, DirectClose, TerminalCloses, DirectModify, Opens, Closes,
                Modifies, terminalVars, clientVars, bridgeVars
  <2> QED  BY <2>1 DEF NativeInv, AskedInv
<1> QED  BY <1>2, <1>4, <1>5 DEF BridgeNext

\* With the native bridge no call of the client trades.
THEOREM NativeNeverTrades == BridgeSpec => []NativeTradesNothing
<1>1. NativelyAsked => NativeTradesNothing
  BY DEF NativelyAsked, NativeInv, NativeTradesNothing
<1> QED  BY <1>1, NativeStarts, NativeKeeps, PTL DEF BridgeSpec

-----------------------------------------------------------------------------
(* The newest state of each key (state_sync.py:30-39, 93-128).             *)

Rounds == Len(SyncKeys)

\* How many syncs ago it was the turn of position j.
Age(j) == (IF j < nextKey THEN 0 ELSE Rounds) + nextKey - 1 - j

\* The newest state of the key at position j is in the buffer, with no more behind it
\* than was synced since.
Waiting(j) ==
    \E i \in 1..Len(buffer) :
        /\ buffer[i] = [key |-> SyncKeys[j], version |-> newest[SyncKeys[j]]]
        /\ Len(buffer) - i <= Age(j)

NewestInv ==
    /\ SyncTypeOK
    /\ ~drained => ~draining /\ inHand = <<>>
    /\ ~drained => \A j \in 1..Rounds : synced[SyncKeys[j]] = newest[SyncKeys[j]] \/ Waiting(j)

\* A full buffer drops its oldest item: the others move up, the new one comes last.
LEMMA EnqueueKeeps ==
    ASSUME SyncTypeOK, NEW item \in Items, buffer' = Enqueue(buffer, item)
    PROVE  /\ buffer' \in Seq(Items) /\ Len(buffer') \in 1..BufferMax
           /\ buffer'[Len(buffer')] = item
           /\ \/ /\ Len(buffer') = Len(buffer) + 1
                 /\ \A i \in 1..Len(buffer) : buffer'[i] = buffer[i]
              \/ /\ Len(buffer) = BufferMax /\ Len(buffer') = BufferMax
                 /\ \A i \in 1..(Len(buffer) - 1) : buffer'[i] = buffer[i + 1]
<1> USE SyncAssumption DEF SyncTypeOK, Enqueue
<1>1. CASE Len(buffer) >= BufferMax
  <2>1. buffer # <<>> /\ Len(buffer) = BufferMax
    BY <1>1
  <2>2. /\ Tail(buffer) \in Seq(Items) /\ Len(Tail(buffer)) = Len(buffer) - 1
        /\ \A i \in 1..(Len(buffer) - 1) : Tail(buffer)[i] = buffer[i + 1]
    BY <2>1
  <2> QED  BY <1>1, <2>1, <2>2
<1>2. CASE ~(Len(buffer) >= BufferMax)
  BY <1>2
<1> QED  BY <1>1, <1>2

\* What sync_state does with a state of a round: nothing waits longer for it, and the
\* state is in Redis or comes last.
LEMMA SyncStateTyped ==
    ASSUME SyncTypeOK, NEW item \in Items, SyncState(item)
    PROVE  /\ syncRedisUp' \in BOOLEAN
           /\ synced' \in [KeySet -> 0..MaxSyncs]
           /\ \A k \in KeySet \ {item.key} : synced'[k] = synced[k]
           /\ \/ buffer' = buffer /\ synced'[item.key] = item.version
              \/ buffer' = Enqueue(buffer, item)
           /\ buffer' \in Seq(Items) /\ Len(buffer') <= BufferMax
<1>1. item.key \in KeySet /\ item.version \in 0..MaxSyncs
  BY SyncAssumption DEF Items
<1>2. CASE buffer' = buffer
  BY <1>1, <1>2 DEF SyncState, SyncTypeOK
<1>3. CASE buffer' = Enqueue(buffer, item)
  <2>1. buffer' \in Seq(Items) /\ Len(buffer') <= BufferMax
    BY <1>3, EnqueueKeeps, SyncAssumption
  <2> QED  BY <1>1, <1>3, <2>1 DEF SyncState, SyncTypeOK
<1> QED  BY <1>2, <1>3 DEF SyncState

\* A sync of the key whose turn it is.
LEMMA OrchestratorSyncKeeps ==
    ASSUME NewestInv, OrchestratorSync
    PROVE  NewestInv'
<1> DEFINE key  == SyncKeys[nextKey]
           item == [key |-> key, version |-> newest[key] + 1]
<1> USE SyncAssumption
<1>1. SyncTypeOK /\ key \in KeySet /\ item \in Items /\ newest[key] + 1 \in 1..MaxSyncs /\ Rounds \in Nat \ {0}
  BY DEF NewestInv, SyncTypeOK, OrchestratorSync, KeySet, Items, Rounds
<1>2. /\ SyncState(item) /\ newest' = [newest EXCEPT ![key] = @ + 1]
      /\ nextKey' = IF nextKey = Rounds THEN 1 ELSE nextKey + 1
      /\ UNCHANGED <<draining, inHand, drained>>
  BY DEF OrchestratorSync, Rounds
<1>3. /\ syncRedisUp' \in BOOLEAN
      /\ synced' \in [KeySet -> 0..MaxSyncs]
      /\ \A k \in KeySet \ {key} : synced'[k] = synced[k]
      /\ \/ buffer' = buffer /\ synced'[key] = newest[key] + 1
         \/ buffer' = Enqueue(buffer, item)
      /\ buffer' \in Seq(Items) /\ Len(buffer') <= BufferMax
  BY <1>1, <1>2, SyncStateTyped
<1>4. nextKey \in 1..Rounds /\ nextKey' \in 1..Rounds
  BY <1>1, <1>2 DEF SyncTypeOK, Rounds
<1>5. SyncTypeOK'
  <2>1. newest' \in [KeySet -> 0..MaxSyncs]
    BY <1>1, <1>2 DEF SyncTypeOK
  <2> QED  BY <1>1, <1>2, <1>3, <1>4, <2>1 DEF SyncTypeOK, Rounds
<1>6. ASSUME ~drained', NEW j \in 1..Rounds
      PROVE  synced'[SyncKeys[j]] = newest'[SyncKeys[j]] \/ Waiting(j)'
  <2>1. SyncKeys[j] \in KeySet /\ Len(buffer) \in Nat /\ BufferMax >= Rounds /\ BufferMax \in Nat
    BY <1>1 DEF KeySet, Rounds, SyncTypeOK
  <2>2. Age(j) \in 0..(Rounds - 1) /\ Age(j)' \in 0..(Rounds - 1)
    BY <1>1, <1>2, <1>4 DEF Age
  <2>3. CASE SyncKeys[j] = key
    <3>1. newest'[SyncKeys[j]] = newest[key] + 1
      BY <1>1, <1>2, <2>3 DEF SyncTypeOK
    <3>2. CASE buffer' = Enqueue(buffer, item)
      <4>1. Len(buffer') \in 1..BufferMax /\ buffer'[Len(buffer')] = item
        BY <1>1, <3>2, EnqueueKeeps
      <4>2. Len(buffer') \in 1..Len(buffer') /\ Len(buffer') - Len(buffer') <= Age(j)'
        BY <2>2, <4>1, <2>1
      <4> QED  BY <2>3, <3>1, <4>1, <4>2 DEF Waiting
    <3>3. CASE synced'[key] = newest[key] + 1
      BY <2>3, <3>1, <3>3
    <3> QED  BY <1>3, <3>2, <3>3
  <2>4. CASE SyncKeys[j] # key
    <3>1. newest'[SyncKeys[j]] = newest[SyncKeys[j]] /\ synced'[SyncKeys[j]] = synced[SyncKeys[j]]
      BY <1>1, <1>2, <1>3, <2>1, <2>4 DEF SyncTypeOK
    <3>2. j # nextKey /\ Age(j)' = Age(j) + 1 /\ Age(j) <= Rounds - 2
      BY <1>1, <1>2, <1>4, <2>4 DEF Age
    <3>3. CASE Waiting(j)
      <4> PICK i \in 1..Len(buffer) :
            /\ buffer[i] = [key |-> SyncKeys[j], version |-> newest[SyncKeys[j]]]
            /\ Len(buffer) - i <= Age(j)
        BY <3>3 DEF Waiting
      <4>1. CASE buffer' = buffer
        BY <2>1, <2>2, <3>1, <3>2, <4>1 DEF Waiting
      <4>2. CASE buffer' = Enqueue(buffer, item)
        <5>1. \/ Len(buffer') = Len(buffer) + 1 /\ buffer'[i] = buffer[i]
              \/ Len(buffer') = BufferMax /\ Len(buffer) = BufferMax
                 /\ \A h \in 1..(Len(buffer) - 1) : buffer'[h] = buffer[h + 1]
          BY <1>1, <4>2, EnqueueKeeps
        <5>2. CASE Len(buffer') = Len(buffer) + 1 /\ buffer'[i] = buffer[i]
          <6>1. i \in 1..Len(buffer') /\ Len(buffer') - i <= Age(j)'
            BY <2>1, <2>2, <3>2, <5>2
          <6> QED  BY <3>1, <5>2, <6>1 DEF Waiting
        <5>3. CASE Len(buffer') = BufferMax /\ Len(buffer) = BufferMax
                   /\ \A h \in 1..(Len(buffer) - 1) : buffer'[h] = buffer[h + 1]
          <6>1. i - 1 \in 1..(Len(buffer) - 1) /\ (i - 1) + 1 = i
            BY <2>1, <2>2, <3>2, <5>3, <1>1
          <6>2. buffer'[i - 1] = buffer[i]
            BY <5>3, <6>1
          <6>3. i - 1 \in 1..Len(buffer') /\ Len(buffer') - (i - 1) <= Age(j)'
            BY <2>1, <2>2, <3>2, <5>3, <6>1
          <6> QED  BY <3>1, <6>2, <6>3 DEF Waiting
        <5> QED  BY <5>1, <5>2, <5>3
      <4> QED  BY <1>3, <4>1, <4>2
    <3>4. CASE synced[SyncKeys[j]] = newest[SyncKeys[j]]
      BY <3>1, <3>4
    <3> QED  BY <1>2, <1>6, <3>3, <3>4 DEF NewestInv
  <2> QED  BY <2>3, <2>4
<1> QED  BY <1>2, <1>5, <1>6 DEF NewestInv, Rounds

LEMMA SyncStarts == SyncInit => NewestInv
<1> SUFFICES ASSUME SyncInit PROVE NewestInv
  OBVIOUS
<1>1. SyncTypeOK
  <2>1. 0 \in 0..MaxSyncs /\ 1 \in 1..Len(SyncKeys) /\ BufferMax \in Nat
    BY SyncAssumption
  <2>2. <<>> \in Seq(Items) /\ Len(<<>>) = 0
    OBVIOUS
  <2>3. [k \in KeySet |-> 0] \in [KeySet -> 0..MaxSyncs]
    BY <2>1
  <2>4. buffer \in Seq(Items) /\ inHand \in Seq(Items) /\ Len(buffer) <= BufferMax /\ Len(inHand) <= 1
    BY <2>1, <2>2 DEF SyncInit
  <2> QED  BY <2>1, <2>3, <2>4 DEF SyncInit, SyncTypeOK
<1>2. \A j \in 1..Rounds : SyncKeys[j] \in KeySet
  BY DEF KeySet, Rounds
<1> QED  BY <1>1, <1>2 DEF SyncInit, NewestInv

LEMMA SyncKeeps == NewestInv /\ [SyncNext]_syncVars => NewestInv'
<1> SUFFICES ASSUME NewestInv, [SyncNext]_syncVars PROVE NewestInv'
  OBVIOUS
<1> USE SyncAssumption
<1>1. CASE OrchestratorSync
  BY <1>1, OrchestratorSyncKeeps
<1>2. CASE BeginDrain
  BY <1>2 DEF BeginDrain, NewestInv, SyncTypeOK
<1>3. CASE DrainTake
  <2>1. drained /\ drained' = drained
    BY <1>3 DEF DrainTake, NewestInv
  <2>2. SyncTypeOK'
    <3>1. CASE buffer = <<>>
      BY <1>3, <3>1 DEF DrainTake, NewestInv, SyncTypeOK
    <3>2. CASE buffer # <<>>
      <4>1. buffer \in Seq(Items) /\ Len(buffer) <= BufferMax
        BY DEF NewestInv, SyncTypeOK
      <4>2. /\ Head(buffer) \in Items /\ Tail(buffer) \in Seq(Items)
            /\ Len(Tail(buffer)) = Len(buffer) - 1
        BY <3>2, <4>1
      <4>3. inHand' = <<Head(buffer)>> /\ buffer' = Tail(buffer) /\ UNCHANGED draining
        BY <1>3, <3>2 DEF DrainTake
      <4>4. inHand' \in Seq(Items) /\ Len(inHand') <= 1
        BY <4>2, <4>3
      <4>5. buffer' \in Seq(Items) /\ Len(buffer') <= BufferMax
        BY <4>1, <4>2, <4>3
      <4> QED  BY <1>3, <4>3, <4>4, <4>5 DEF DrainTake, NewestInv, SyncTypeOK
    <3> QED  BY <3>1, <3>2
  <2> QED  BY <2>1, <2>2 DEF NewestInv
<1>4. CASE DrainSync
  <2>1. drained /\ drained' = drained /\ inHand' = <<>> /\ UNCHANGED <<newest, nextKey, draining>>
    BY <1>4 DEF DrainSync, NewestInv
  <2>2. inHand[1] \in Items /\ SyncState(inHand[1])
    BY <1>4 DEF DrainSync, NewestInv, SyncTypeOK
  <2>3. SyncTypeOK'
    BY <2>1, <2>2, SyncStateTyped DEF NewestInv, SyncTypeOK
  <2> QED  BY <2>1, <2>3 DEF NewestInv
<1>5. CASE RedisComesOrGoes \/ UNCHANGED syncVars
  <2>1. UNCHANGED <<synced, newest, buffer, nextKey, draining, inHand, drained>> /\ syncRedisUp' \in BOOLEAN
    BY <1>5 DEF RedisComesOrGoes, syncVars, NewestInv, SyncTypeOK
  <2> QED  BY <2>1 DEF NewestInv, SyncTypeOK, Waiting, Age
<1> QED  BY <1>1, <1>2, <1>3, <1>4, <1>5 DEF SyncNext

\* While nobody drains the buffer the newest state of every key is in Redis or in the
\* buffer, for any number of keys in a round and any buffer that holds a round
\* (state_sync.py:30-39, 96-99, 124-127).
THEOREM NewestIsKept == SyncSpec => []NewestSurvives
<1>1. NewestInv => NewestSurvives
  <2> SUFFICES ASSUME NewestInv, ~drained, NEW k \in KeySet
      PROVE  \/ newest[k] = synced[k]
             \/ \E i \in 1..Len(buffer) : buffer[i] = [key |-> k, version |-> newest[k]]
    BY DEF NewestSurvives
  <2>1. PICK j \in 1..Rounds : k = SyncKeys[j]
    BY DEF KeySet, Rounds
  <2> QED  BY <2>1 DEF NewestInv, Waiting
<1> QED  BY <1>1, SyncStarts, SyncKeeps, PTL DEF SyncSpec

-----------------------------------------------------------------------------
(* The types of the infrastructure services, side by side.                 *)

\* Brokers: the active one, and one being connected, is always registered.
LEMMA BrokersStart == BrokerInit => BrokerTypeOK
  BY DEF BrokerInit, BrokerTypeOK, BrokerStatuses, KnownBrokers

LEMMA BrokersKeepTypes == BrokerTypeOK /\ [BrokerNext]_brokerVars => BrokerTypeOK'
<1> SUFFICES ASSUME BrokerTypeOK, [BrokerNext]_brokerVars PROVE BrokerTypeOK'
  OBVIOUS
<1> USE BrokerAssumption DEF BrokerTypeOK, BrokerStatuses, KnownBrokers
<1>1. ASSUME NEW s \in KnownBrokers, NEW b \in Brokers, MoveTrading(s, b)
      PROVE  /\ brokerStatus' \in [Brokers -> BrokerStatuses] /\ activeBroker' \in KnownBrokers'
             /\ KnownBrokers \subseteq KnownBrokers'
  BY <1>1 DEF MoveTrading
<1>2. ASSUME NEW b \in Brokers, RegisterBroker(b) PROVE BrokerTypeOK'
  BY <1>2 DEF RegisterBroker
<1>3. ASSUME NEW b \in Brokers, ConnectBegin(b) \/ ConnectEnd(b) PROVE BrokerTypeOK'
  BY <1>3, ZenonT(30) DEF ConnectBegin, ConnectEnd
<1>4. ASSUME NEW b \in Brokers, DisconnectBroker(b) PROVE BrokerTypeOK'
  BY <1>4 DEF DisconnectBroker
<1>5. ASSUME NEW b \in Brokers, SetActiveBroker(b) PROVE BrokerTypeOK'
  BY <1>5 DEF SetActiveBroker
<1>6. ASSUME NEW b \in Brokers, BrokerHeartbeat(b) PROVE BrokerTypeOK'
  BY <1>6 DEF BrokerHeartbeat
<1>7. ASSUME NEW b \in Brokers, BrokerTurns(b) \/ BrokerSilent(b) PROVE BrokerTypeOK'
  BY <1>7 DEF BrokerTurns, BrokerSilent
<1>8. ASSUME CheckBrokers PROVE BrokerTypeOK'
  BY <1>8 DEF CheckBrokers
<1>9. ASSUME ActOnBrokers PROVE BrokerTypeOK'
  <2>1. CASE BackupBrokers(activeBroker) # {}
    <3>1. PICK b \in Brokers : MoveTrading(activeBroker, b)
      BY <1>9, <2>1 DEF ActOnBrokers, TriggerBrokerFailover, BackupBrokers
    <3>2. CASE activeBroker \in KnownBrokers
      BY <1>1, <1>9, <3>1, <3>2 DEF ActOnBrokers
    <3>3. CASE activeBroker = NoBroker
      BY <1>9, <3>1, <3>3 DEF ActOnBrokers, MoveTrading
    <3> QED  BY <3>2, <3>3
  <2>2. CASE BackupBrokers(activeBroker) = {}
    BY <1>9, <2>2 DEF ActOnBrokers
  <2> QED  BY <2>1, <2>2
<1>10. ASSUME NEW s \in Brokers \union {NoBroker}, NEW g \in Brokers \union {NoBroker}, RequestBrokerFailover(s, g)
       PROVE  BrokerTypeOK'
  <2>1. PICK source \in KnownBrokers, b \in Brokers : MoveTrading(source, b)
    BY <1>10 DEF RequestBrokerFailover, TriggerBrokerFailover, BackupBrokers
  <2> QED  BY <1>1, <1>10, <2>1 DEF RequestBrokerFailover
<1>11. ASSUME UNCHANGED brokerVars PROVE BrokerTypeOK'
  BY <1>11 DEF brokerVars
<1> QED  BY <1>2, <1>3, <1>4, <1>5, <1>6, <1>7, <1>8, <1>9, <1>10, <1>11 DEF BrokerNext

\* Internet connections: what is active, being tested or yet to be tested is registered.
LEMMA IspsStart == IspInit => IspTypeOK
<1> SUFFICES ASSUME IspInit PROVE IspTypeOK
  OBVIOUS
<1>1. 0 \in 0 .. FailureThreshold
  BY IspAssumption
<1>2. ispStatus \in [Isps -> IspStatuses] /\ ispFails \in [Isps -> 0 .. FailureThreshold]
  BY <1>1 DEF IspInit, IspStatuses
<1>3. link \in [Isps -> {"up", "slow", "down"}]
  BY DEF IspInit
<1> QED  BY <1>2, <1>3 DEF IspInit, IspTypeOK

LEMMA IspsKeepTypes == IspTypeOK /\ [IspNext]_ispVars => IspTypeOK'
<1> SUFFICES ASSUME IspTypeOK, [IspNext]_ispVars PROVE IspTypeOK'
  OBVIOUS
<1> USE IspAssumption DEF IspTypeOK, IspStatuses, KnownIsps
<1>1. ASSUME NEW i \in Isps PROVE AfterTest(i)[1] \in IspStatuses \ {"absent"} /\ AfterTest(i)[2] \in 0 .. FailureThreshold
  <2>1. PICK f \in 0 .. FailureThreshold : f = IF ispFails[i] < FailureThreshold THEN ispFails[i] + 1 ELSE FailureThreshold
    OBVIOUS
  <2>2. CASE link[i] = "up"
    BY <2>2 DEF AfterTest
  <2>3. CASE link[i] = "slow"
    BY <2>3 DEF AfterTest
  <2>4. CASE link[i] \notin {"up", "slow"}
    BY <2>1, <2>4 DEF AfterTest
  <2> QED  BY <2>2, <2>3, <2>4
<1>2. ASSUME NEW i \in Isps, RegisterIsp(i) PROVE IspTypeOK'
  BY <1>2 DEF RegisterIsp
<1>3. ASSUME NEW i \in Isps, SetActiveIsp(i) PROVE IspTypeOK'
  BY <1>3 DEF SetActiveIsp
<1>4. ASSUME NEW i \in Isps, LinkTurns(i) PROVE IspTypeOK'
  BY <1>4 DEF LinkTurns
<1>5. ASSUME BeginRound PROVE IspTypeOK'
  BY <1>5 DEF BeginRound
<1>6. ASSUME NEW i \in Isps, BeginTest(i) PROVE IspTypeOK'
  BY <1>6 DEF BeginTest
<1>7. ASSUME EndTest PROVE IspTypeOK'
  <2>1. ispTesting \in Isps /\ ispStatus[ispTesting] # "absent"
    BY <1>7 DEF EndTest
  <2>2. CASE ispReplaced
    BY <1>7, <2>2 DEF EndTest
  <2>3. CASE ~ispReplaced
    <3>1. PICK st \in IspStatuses \ {"absent"}, f \in 0 .. FailureThreshold :
            st = AfterTest(ispTesting)[1] /\ f = AfterTest(ispTesting)[2]
      BY <1>1, <2>1
    <3>2. ispStatus' = [ispStatus EXCEPT ![ispTesting] = st] /\ ispFails' = [ispFails EXCEPT ![ispTesting] = f]
      BY <1>7, <2>3, <3>1 DEF EndTest
    <3> QED  BY <1>7, <2>1, <3>2 DEF EndTest
  <2> QED  BY <2>2, <2>3
<1>8. ASSUME EndRound PROVE IspTypeOK'
  <2>1. CASE MoveIsp /\ activeIsp # NoIsp
    <3>1. PICK i \in KnownIsps : /\ ispStatus' = [ispStatus EXCEPT ![activeIsp] = "disconnected", ![i] = "connected"]
                                 /\ activeIsp' = i
      BY <2>1 DEF MoveIsp, BackupIsps
    <3> QED  BY <1>8, <2>1, <3>1 DEF EndRound
  <2>2. CASE UNCHANGED <<ispStatus, activeIsp>>
    BY <1>8, <2>2 DEF EndRound
  <2> QED  BY <1>8, <2>1, <2>2 DEF EndRound
<1>9. ASSUME UNCHANGED ispVars PROVE IspTypeOK'
  BY <1>9 DEF ispVars
<1> QED  BY <1>2, <1>3, <1>4, <1>5, <1>6, <1>7, <1>8, <1>9 DEF IspNext, MonitorIsps

\* Power: every stored record was signed before its signature was added to it.
LEMMA PowerStarts == PowerInit => PowerTypeOK
  BY DEF PowerInit, PowerTypeOK

LEMMA PowerKeepsTypes == PowerTypeOK /\ [PowerNext]_powerVars => PowerTypeOK'
<1> SUFFICES ASSUME PowerTypeOK, [PowerNext]_powerVars PROVE PowerTypeOK'
  OBVIOUS
<1> USE DEF PowerTypeOK, supplyVars, shutdownVars, storeVars
<1>1. ASSUME NEW book \in Books \union {NoBook}, StoreBook(book)
      PROVE  {redisRecord', fileRecord'} \subseteq Records \union {NoRecord} /\ lastSaved' \in Books \union {NoBook, NoRecord}
  <2>1. Signed(book) \in Records
    BY DEF Signed, Records, SignState
  <2> QED  BY <1>1, <2>1 DEF StoreBook
<1>2. ASSUME NEW saver \in {"monitor", "worker"}, LoadFor(saver)
      PROVE  loadedBook' \in [{"monitor", "worker"} -> Books \union {NoBook}]
  <2>1. \A r \in Records : r.book \in Books \union {NoBook}
    BY DEF Records
  <2>2. LoadState \in Books \union {NoBook}
    BY <2>1 DEF LoadState
  <2> QED  BY <1>2, <2>2 DEF LoadFor
<1>3. InitiateShutdown => shuttingDown' \in BOOLEAN /\ shutdownPc' \in {"none", "delay", "save", "command", "ended"}
  BY DEF InitiateShutdown
<1>4. ASSUME NEW b \in Books, SaveTradingState(b) PROVE PowerTypeOK'
  BY <1>1, <1>4 DEF SaveTradingState
<1>5. ASSUME RedisTurns \/ PowerTurns PROVE PowerTypeOK'
  <2>1. CASE RedisTurns
    <3>1. redisUp' \in BOOLEAN /\ redisRecord' \in Records \union {NoRecord}
      BY <2>1 DEF RedisTurns
    <3> QED  BY <2>1, <3>1 DEF RedisTurns
  <2>2. CASE PowerTurns
    BY <2>2 DEF PowerTurns
  <2> QED  BY <1>5, <2>1, <2>2
<1>6. ASSUME CheckPowerStatus PROVE PowerTypeOK'
  <2>1. powerStatus' \in {"normal", "power_outage", "low_battery", "critical_battery"}
    BY <1>6 DEF CheckPowerStatus
  <2> QED  BY <1>6, <2>1 DEF CheckPowerStatus
<1>7. ASSUME HandlePowerStatus PROVE PowerTypeOK'
  BY <1>2, <1>7, ZenonT(30) DEF HandlePowerStatus, EndOutage
<1>8. ASSUME MonitorSave PROVE PowerTypeOK'
  <2>1. loadedBook["monitor"] \in Books \union {NoBook} /\ StoreBook(loadedBook["monitor"])
    BY <1>8 DEF MonitorSave
  <2>2. {redisRecord', fileRecord'} \subseteq Records \union {NoRecord} /\ lastSaved' \in Books \union {NoBook, NoRecord}
    BY <1>1, <2>1
  <2>3. shuttingDown' \in BOOLEAN /\ shutdownPc' \in {"none", "delay", "save", "command", "ended"}
    BY <1>3, <1>8 DEF MonitorSave
  <2> QED  BY <1>8, <2>2, <2>3 DEF MonitorSave
<1>9. ASSUME ShutdownWorker PROVE PowerTypeOK'
  <2>1. loadedBook["worker"] \in Books \union {NoBook}
    OBVIOUS
  <2>2. loadedBook' \in [{"monitor", "worker"} -> Books \union {NoBook}] /\ processUp' \in BOOLEAN
    BY <1>2, <1>9 DEF ShutdownWorker
  <2>3. {redisRecord', fileRecord'} \subseteq Records \union {NoRecord} /\ lastSaved' \in Books \union {NoBook, NoRecord}
    BY <1>1, <1>9, <2>1 DEF ShutdownWorker
  <2> QED  BY <1>9, <2>2, <2>3, ZenonT(30) DEF ShutdownWorker
<1>10. ASSUME Crash \/ Restart PROVE PowerTypeOK'
  BY <1>10, ZenonT(30) DEF Crash, Restart
<1>11. ASSUME UNCHANGED powerVars PROVE PowerTypeOK'
  BY <1>11 DEF powerVars
<1> QED  BY <1>4, <1>5, <1>6, <1>7, <1>8, <1>9, <1>10, <1>11 DEF PowerNext, MonitorPower

\* The breaker of the bridge: it counts to its threshold before it leaves closed.
LEMMA BreakerStarts == BreakerInit => BreakerTypeOK
<1> SUFFICES ASSUME BreakerInit PROVE BreakerTypeOK
  OBVIOUS
<1>1. 0 \in 0 .. BreakerThreshold /\ 0 \in 0 .. ConnectRetries
  BY BreakerAssumption
<1>2. request \in [Callers -> {"none", "ok", "bad"}] /\ triesLeft \in [Callers -> 0 .. ConnectRetries]
  BY <1>1 DEF BreakerInit
<1> QED  BY <1>1, <1>2 DEF BreakerInit, BreakerTypeOK

LEMMA BreakerKeepsTypes == BreakerTypeOK /\ [BreakerNext]_mt5Vars => BreakerTypeOK'
<1> SUFFICES ASSUME BreakerTypeOK, [BreakerNext]_mt5Vars PROVE BreakerTypeOK'
  OBVIOUS
<1> USE BreakerAssumption DEF BreakerTypeOK, breakerVars
<1>1. ASSUME NEW c \in Callers, Send(c), UNCHANGED triesLeft PROVE BreakerTypeOK'
  BY <1>1 DEF Send
<1>2. ASSUME NEW c \in Callers, BeginConnect(c) PROVE BreakerTypeOK'
  BY <1>2 DEF BeginConnect
<1>3. ASSUME NEW c \in Callers, CallTool(c) PROVE BreakerTypeOK'
  BY <1>1, <1>3 DEF CallTool
<1>4. ASSUME NEW c \in Callers, TryConnect(c) PROVE BreakerTypeOK'
  <2>1. CASE Allowed
    BY <1>1, <1>4, <2>1 DEF TryConnect
  <2>2. CASE ~Allowed
    <3>1. triesLeft[c] - 1 \in 0 .. ConnectRetries
      BY <1>4 DEF TryConnect
    <3> QED  BY <1>4, <2>2, <3>1 DEF TryConnect
  <2> QED  BY <2>1, <2>2
<1>5. ASSUME NEW c \in Callers, AnswerOk(c) PROVE BreakerTypeOK'
  <2>1. triesLeft' \in [Callers -> 0 .. ConnectRetries]
    <3>1. triesLeft[c] > 0 => triesLeft[c] - 1 \in 0 .. ConnectRetries
      OBVIOUS
    <3> QED  BY <1>5, <3>1 DEF AnswerOk
  <2>2. isConnected' \in BOOLEAN
    BY <1>5 DEF AnswerOk
  <2>3. request' \in [Callers -> {"none", "ok", "bad"}] /\ UNCHANGED <<bridgeUp, breakerCool>>
    BY <1>5 DEF AnswerOk, RecordSuccess
  <2>4. breaker' = "closed" /\ breakerFails' = 0 /\ 0 \in 0 .. BreakerThreshold
    BY <1>5 DEF AnswerOk, RecordSuccess
  <2> QED  BY <2>1, <2>2, <2>3, <2>4
<1>6. ASSUME NEW c \in Callers, AnswerBad(c) PROVE BreakerTypeOK'
  <2>1. triesLeft' \in [Callers -> 0 .. ConnectRetries]
    <3>1. (IF triesLeft[c] > 0 THEN triesLeft[c] - 1 ELSE 0) \in 0 .. ConnectRetries
      OBVIOUS
    <3> QED  BY <1>6, <3>1 DEF AnswerBad
  <2>2. request' \in [Callers -> {"none", "ok", "bad"}] /\ UNCHANGED <<bridgeUp, isConnected>>
    BY <1>6 DEF AnswerBad
  <2>3. /\ breakerFails' = IF breakerFails < BreakerThreshold THEN breakerFails + 1 ELSE breakerFails
        /\ breaker' = IF breakerFails + 1 >= BreakerThreshold THEN "open" ELSE breaker
        /\ breakerCool' = FALSE
    BY <1>6 DEF AnswerBad, RecordFailure
  <2>4. breakerFails' \in 0 .. BreakerThreshold /\ (breaker' # "closed" => breakerFails' = BreakerThreshold)
    BY <2>3
  <2> QED  BY <2>1, <2>2, <2>3, <2>4
<1>7. ASSUME NEW c \in Callers, Cancel(c) PROVE BreakerTypeOK'
  BY <1>7 DEF Cancel
<1>8. ASSUME MarkDisconnected \/ BridgeTurns \/ CoolDown PROVE BreakerTypeOK'
  BY <1>8 DEF MarkDisconnected, BridgeTurns, CoolDown
<1>9. ASSUME UNCHANGED mt5Vars PROVE BreakerTypeOK'
  BY <1>9 DEF mt5Vars
<1> QED  BY <1>2, <1>3, <1>4, <1>5, <1>6, <1>7, <1>8, <1>9 DEF BreakerNext

\* Self-healing, with the bound on restarts.
LEMMA HealingStarts == HealInit => HealTypeOK
<1> SUFFICES ASSUME HealInit PROVE HealTypeOK
  OBVIOUS
<1>1. 0 \in 0 .. HealThreshold /\ 0 \in 0 .. MaxReconnects
  BY HealAssumption
<1>2. using \in [Healers -> {"none", "ok", "bad"}] /\ reconnects \in [Healers -> 0 .. MaxReconnects]
  BY <1>1 DEF HealInit
<1> QED  BY <1>1, <1>2, RestartsStart DEF HealInit, HealTypeOK, RestartInv

LEMMA HealingKeepsTypes == HealTypeOK /\ [HealNext]_healVars => HealTypeOK'
<1> SUFFICES ASSUME HealTypeOK, [HealNext]_healVars PROVE HealTypeOK'
  OBVIOUS
<1> DEFINE Rest == /\ circuit \in {"closed", "open", "half_open"} /\ healFails \in 0 .. HealThreshold
                   /\ healCool \in BOOLEAN /\ serviceUp \in BOOLEAN
                   /\ using \in [Healers -> {"none", "ok", "bad"}]
                   /\ serviceState \in {"stopped", "running", "failed"}
                   /\ reconnects \in [Healers -> 0 .. MaxReconnects]
                   /\ connection \in {"disconnected", "connected", "failed"}
<1>1. HealTypeOK <=> Rest /\ RestartInv
  BY DEF HealTypeOK, RestartInv
<1>2. HealTypeOK' <=> Rest' /\ RestartInv'
  BY DEF HealTypeOK, RestartInv
<1>3. RestartInv'
  BY <1>1, RestartsKeep
<1>4. Rest'
  <2> USE <1>1, HealAssumption DEF circuitVars, restartVars, connectVars
  <2>1. ASSUME NEW t \in Healers, Use(t) \/ RecordResult(t) PROVE Rest'
    <3>1. CASE Use(t)
      BY <3>1 DEF Use
    <3>2. CASE RecordResult(t)
      <4>1. HealSuccess => healFails' \in 0 .. HealThreshold /\ circuit' \in {"closed", "open", "half_open"}
        BY DEF HealSuccess
      <4>2. HealFailure => /\ healFails' \in 0 .. HealThreshold /\ circuit' \in {"closed", "open", "half_open"}
                           /\ healCool' = FALSE
        BY DEF HealFailure
      <4>3. using' \in [Healers -> {"none", "ok", "bad"}] /\ UNCHANGED <<serviceUp, restartVars, connectVars>>
        BY <3>2 DEF RecordResult
      <4>4. (HealSuccess /\ UNCHANGED healCool) \/ HealFailure
        BY <3>2 DEF RecordResult
      <4> QED  BY <4>1, <4>2, <4>3, <4>4
    <3> QED  BY <2>1, <3>1, <3>2
  <2>2. ASSUME NEW t \in Healers, BeginRestart(t) \/ EndRestart(t) PROVE Rest'
    BY <2>2 DEF BeginRestart, EndRestart
  <2>3. ASSUME NEW t \in Healers, BeginReconnect(t) PROVE Rest'
    BY <2>3 DEF BeginReconnect
  <2>4. ASSUME NEW t \in Healers, TryReconnect(t) PROVE Rest'
    <3>1. reconnects[t] - 1 \in 0 .. MaxReconnects /\ 0 \in 0 .. MaxReconnects
      BY <2>4 DEF TryReconnect
    <3> QED  BY <2>4, <3>1 DEF TryReconnect
  <2>5. ASSUME AttemptRecovery \/ HealCoolDown \/ ServiceTurns PROVE Rest'
    BY <2>5 DEF AttemptRecovery, HealCoolDown, ServiceTurns
  <2>6. ASSUME UNCHANGED healVars PROVE Rest'
    BY <2>6 DEF healVars
  <2> QED  BY <2>1, <2>2, <2>3, <2>4, <2>5, <2>6 DEF HealNext
<1> QED  BY <1>2, <1>3, <1>4

\* Health and alerts.
LEMMA HealthStarts == HealthInit => HealthTypeOK
  BY DEF HealthInit, HealthTypeOK, HealthLevels

LEMMA HealthKeepsTypes == HealthTypeOK /\ [HealthNext]_healthVars => HealthTypeOK'
<1> SUFFICES ASSUME HealthTypeOK, [HealthNext]_healthVars PROVE HealthTypeOK'
  OBVIOUS
<1> USE DEF HealthTypeOK
<1>1. LevelOf \in HealthLevels /\ \A l : SubjectOf(l) \subseteq Subjects
  BY DEF LevelOf, HealthLevels, SubjectOf, Subjects, Grave
<1>2. ASSUME NEW c \in Checks, Trouble(c) \/ RunCheck(c) PROVE HealthTypeOK'
  BY <1>2 DEF Trouble, RunCheck
<1>3. ASSUME BeginChecks PROVE HealthTypeOK'
  BY <1>3 DEF BeginChecks
<1>4. ASSUME UpdateLevel PROVE HealthTypeOK'
  BY <1>1, <1>4 DEF UpdateLevel, StillTold
<1>5. ASSUME HandleLevelChange PROVE HealthTypeOK'
  <2>1. limited' \subseteq Subjects /\ told' \subseteq Subjects
    BY <1>1, <1>5 DEF HandleLevelChange, SendAlert
  <2> QED  BY <1>5, <2>1 DEF HandleLevelChange
<1>6. ASSUME NEW s \in Subjects, SlotEnds(s) PROVE HealthTypeOK'
  BY <1>6 DEF SlotEnds
<1>7. ASSUME UNCHANGED healthVars PROVE HealthTypeOK'
  BY <1>7 DEF healthVars
<1> QED  BY <1>2, <1>3, <1>4, <1>5, <1>6, <1>7 DEF HealthNext, MonitorHealth

InfraInv ==
    /\ part \in Parts
    /\ TypeOK
    /\ BrokerTypeOK /\ IspTypeOK /\ PowerTypeOK /\ NewestInv
    /\ BreakerTypeOK /\ HealTypeOK /\ HealthTypeOK

\* The types of every infrastructure service, and the limits stated with them: the active
\* broker and connection are registered, an open breaker has counted to its threshold, the
\* sync buffer keeps to its size, restarts to their bound, and what is stored was signed
\* before its signature was added (infrastructure/*.py, mcp_integration/services.py).
THEOREM InfraTypes == InfraSpec => []InfraTypeOK
<1>1. InfraInit => InfraInv
  BY PoolStarts, BrokersStart, IspsStart, PowerStarts, SyncStarts, BreakerStarts, HealingStarts, HealthStarts
     DEF InfraInit, InfraInv
<1>2. InfraInv /\ [InfraNext]_infraVars => InfraInv'
  <2> SUFFICES ASSUME InfraInv, [InfraNext]_infraVars PROVE InfraInv'
    OBVIOUS
  <2>1. /\ [Next]_vars /\ [BrokerNext]_brokerVars /\ [IspNext]_ispVars /\ [PowerNext]_powerVars
        /\ [SyncNext]_syncVars /\ [BreakerNext]_mt5Vars /\ [HealNext]_healVars /\ [HealthNext]_healthVars
        /\ part' = part
    BY DEF InfraNext, infraVars
  <2> QED  BY <2>1, PoolKeepsTypes, BrokersKeepTypes, IspsKeepTypes, PowerKeepsTypes, SyncKeeps,
              BreakerKeepsTypes, HealingKeepsTypes, HealthKeepsTypes DEF InfraInv
<1>3. InfraInv => InfraTypeOK
  BY DEF InfraInv, InfraTypeOK, NewestInv
<1> QED  BY <1>1, <1>2, <1>3, PTL DEF InfraSpec

-----------------------------------------------------------------------------
(* Live prices (market_data/consumers.py, services.py, ingestion.py).      *)

\* A socket counts from a number below the limit, and behind the middleware none gets there.
SocketInv ==
    /\ wsMapping \in BOOLEAN /\ wsBridge \in BOOLEAN /\ wsSlipped \in BOOLEAN
    /\ wsState \in [Sockets -> {"new", "counting", "closing", "open", "gone", "failed"}]
    /\ wsRead \in [Sockets -> 0 .. MaxSockets]
    /\ \A c \in Sockets : wsState[c] = "counting" => wsRead[c] < MaxSockets
    /\ wsCount \in 0 .. MaxSockets /\ wsLeft \in 0 .. CountLife /\ wsFeed \subseteq StreamSymbols
    /\ ~wsMapping => wsFeed = {} /\ wsCount = 0 /\ \A c \in Sockets : wsState[c] \in {"new", "failed"}
    /\ CountIsOpen

PriceInv ==
    /\ psLast \in [StreamSymbols -> {"none", "price", "zero"}]
    /\ psShown \in [StreamSymbols -> {"none", "price", "zero"}]

\* A candle is in one place: the buffer holds the newest, in their order.
CandleInv ==
    /\ inTaken \in Nat /\ inBuffer \in Seq(Nat) /\ Len(inBuffer) < BufferLimit
    /\ inTaken - Len(inBuffer) \in Nat
    /\ \A i \in 1 .. Len(inBuffer) : inBuffer[i] = inTaken - Len(inBuffer) + i
    /\ inStored \cup inLost = 1 .. inTaken - Len(inBuffer)
    /\ inStored \cap inLost = {}

StreamInv == SocketInv /\ PriceInv /\ CandleInv

LEMMA OpenIsFinite ==
    ASSUME SocketInv
    PROVE  IsFiniteSet(Open) /\ Cardinality(Open) \in Nat
BY StreamAssumption, FS_Subset, FS_CardinalityType DEF Open

LEMMA StreamStarts == StreamInit => StreamInv
<1> SUFFICES ASSUME StreamInit PROVE StreamInv  OBVIOUS
<1> USE StreamAssumption DEF StreamInit
<1>1. Open = {}
  BY DEF Open
<1>2. CountIsOpen
  BY <1>1, FS_EmptySet DEF CountIsOpen
<1>3. SocketInv
  <2>1. 0 \in 0 .. MaxSockets /\ 0 \in 0 .. CountLife
    OBVIOUS
  <2>2. wsState \in [Sockets -> {"new"}] /\ wsRead \in [Sockets -> {0}]
    OBVIOUS
  <2>3. \A c \in Sockets : wsState[c] = "new"
    OBVIOUS
  <2>4. wsState \in [Sockets -> {"new", "counting", "closing", "open", "gone", "failed"}]
    OBVIOUS
  <2>5. wsRead \in [Sockets -> 0 .. MaxSockets]
    BY <2>1
  <2> QED  BY <1>2, <2>1, <2>3, <2>4, <2>5 DEF SocketInv
<1>4. PriceInv /\ CandleInv
  BY DEF PriceInv, CandleInv
<1> QED  BY <1>3, <1>4 DEF StreamInv

\* A socket that has read the present count opens as the one after it.
LEMMA Connect2Counts ==
    ASSUME SocketInv, NEW c \in Sockets, NEW s \in StreamSymbols, Connect2(c, s)
    PROVE  SocketInv'
<1> USE StreamAssumption DEF SocketInv, Connect2
<1>1. Open' = Open \cup {c} /\ c \notin Open
  BY DEF Open
<1>2. Cardinality(Open') = Cardinality(Open) + 1
  BY <1>1, OpenIsFinite, FS_AddElement
<1>3. wsMapping /\ wsRead[c] + 1 \in 0 .. MaxSockets
  OBVIOUS
<1>4. CountIsOpen'
  <2> SUFFICES ASSUME ~wsSlipped' PROVE wsCount' = Cardinality(Open') /\ Cardinality(Open') <= MaxSockets
    BY DEF CountIsOpen
  <2>1. ~wsSlipped /\ wsRead[c] = wsCount
    OBVIOUS
  <2>2. wsCount = Cardinality(Open)
    BY <2>1 DEF CountIsOpen
  <2> QED  BY <1>2, <1>3, <2>1, <2>2
<1> QED  BY <1>3, <1>4

LEMMA DisconnectCounts ==
    ASSUME SocketInv, NEW c \in Sockets, NEW s \in StreamSymbols, Disconnect(c, s)
    PROVE  SocketInv'
<1> USE StreamAssumption DEF SocketInv, Disconnect
<1>1. CASE wsState[c] = "open"
  <2>1. Open' = Open \ {c} /\ c \in Open
    BY <1>1 DEF Open
  <2>2. Cardinality(Open') = Cardinality(Open) - 1 /\ Cardinality(Open) \in Nat
    BY <2>1, OpenIsFinite, FS_RemoveElement
  <2>3. Cardinality(Open) # 0
    BY <2>1, OpenIsFinite, FS_EmptySet
  <2>4. CountIsOpen'
    BY <1>1, <2>2, <2>3 DEF CountIsOpen
  <2> QED  BY <1>1, <2>4
<1>2. CASE wsState[c] = "closing"
  <2>1. CountIsOpen'
    BY <1>2 DEF CountIsOpen
  <2> QED  BY <1>2, <2>1
<1> QED  BY <1>1, <1>2

LEMMA SocketsKeep ==
    ASSUME SocketInv, SocketsNext \/ UNCHANGED socketVars
    PROVE  SocketInv'
<1> USE StreamAssumption
<1>1. ASSUME NEW c \in Sockets, Connect1(c) PROVE SocketInv'
  <2>1. Open' = Open
    BY <1>1 DEF Open, Connect1, SocketInv
  <2>2. CountIsOpen'
    BY <1>1, <2>1 DEF CountIsOpen, SocketInv, Connect1
  <2> QED  BY <1>1, <2>2 DEF SocketInv, Connect1
<1>2. ASSUME NEW c \in Sockets, NEW on \in BOOLEAN, Subscribe(c, StreamSymbols, on) PROVE SocketInv'
  BY <1>2 DEF Subscribe, SocketInv, CountIsOpen, Open
<1>3. CASE CountSecond
  <2>1. Open' = Open
    BY <1>3 DEF Open, CountSecond
  <2> QED  BY <1>3, <2>1 DEF CountSecond, SocketInv, CountIsOpen
<1>4. CASE StreamBridgeTurns
  BY <1>4 DEF StreamBridgeTurns, SocketInv, CountIsOpen, Open
<1>5. CASE UNCHANGED socketVars
  BY <1>5 DEF socketVars, SocketInv, CountIsOpen, Open
<1> QED  BY <1>1, <1>2, <1>3, <1>4, <1>5, Connect2Counts, DisconnectCounts DEF SocketsNext

LEMMA PricesKeep ==
    ASSUME PriceInv, PricesNext \/ UNCHANGED priceVars
    PROVE  PriceInv'
BY DEF PricesNext, PriceTick, PriceInv, priceVars

\* A batch leaves the buffer for one of the two places.
LEMMA BatchIsPlaced ==
    ASSUME NEW n \in Nat, NEW candles \in Seq(Nat), n - Len(candles) \in Nat,
           \A i \in 1 .. Len(candles) : candles[i] = n - Len(candles) + i
    PROVE  Range(candles) = (n - Len(candles) + 1) .. n
<1>1. Len(candles) \in Nat /\ Range(candles) = {candles[i] : i \in 1 .. Len(candles)}
  BY DEF Range
<1>2. ASSUME NEW k \in (n - Len(candles) + 1) .. n PROVE k \in Range(candles)
  <2> DEFINE i == k - (n - Len(candles))
  <2>1. i \in 1 .. Len(candles) /\ n - Len(candles) + i = k
    BY <1>1
  <2> HIDE DEF i
  <2>2. candles[i] = k
    BY <2>1
  <2> QED  BY <1>1, <2>1, <2>2
<1>3. ASSUME NEW i \in 1 .. Len(candles) PROVE candles[i] \in (n - Len(candles) + 1) .. n
  BY <1>1
<1> QED  BY <1>1, <1>2, <1>3

LEMMA CandlesKeep ==
    ASSUME CandleInv, IngestNext \/ UNCHANGED ingestVars
    PROVE  CandleInv'
<1> USE StreamAssumption
<1>1. Range(inBuffer) = (inTaken - Len(inBuffer) + 1) .. inTaken
  BY BatchIsPlaced DEF CandleInv
<1>2. ASSUME NEW ok \in BOOLEAN, Flush(ok) \/ IngestCrash PROVE CandleInv'
  <2>1. /\ inBuffer' = <<>> /\ inTaken' = inTaken
        /\ inStored' \cup inLost' = inStored \cup inLost \cup Range(inBuffer)
        /\ inStored' \cap inLost' \subseteq (inStored \cap inLost) \cup ((inStored \cup inLost) \cap Range(inBuffer))
    BY <1>2 DEF Flush, IngestCrash, Written
  <2>2. (inStored \cup inLost) \cap Range(inBuffer) = {}
    BY <1>1 DEF CandleInv
  <2>3. inStored' \cup inLost' = 1 .. inTaken
    BY <1>1, <2>1 DEF CandleInv
  <2> QED  BY <2>1, <2>2, <2>3 DEF CandleInv
<1>3. ASSUME NEW ok \in BOOLEAN, IngestCandle(ok) PROVE CandleInv'
  <2> PICK candles : candles = Append(inBuffer, inTaken + 1)
    OBVIOUS
  <2> PICK n \in Nat : n = inTaken + 1
    BY DEF CandleInv
  <2>1. /\ candles \in Seq(Nat) /\ Len(candles) = Len(inBuffer) + 1
        /\ \A i \in 1 .. Len(candles) : candles[i] = n - Len(candles) + i
        /\ n - Len(candles) = inTaken - Len(inBuffer) /\ n - Len(candles) \in Nat
    <3>1. /\ candles \in Seq(Nat) /\ Len(candles) = Len(inBuffer) + 1
          /\ n - Len(candles) = inTaken - Len(inBuffer)
      BY DEF CandleInv
    <3>2. ASSUME NEW i \in 1 .. Len(candles) PROVE candles[i] = n - Len(candles) + i
      <4>1. CASE i = Len(candles)
        BY <3>1, <4>1 DEF CandleInv
      <4>2. CASE i # Len(candles)
        <5>1. i \in 1 .. Len(inBuffer) /\ candles[i] = inBuffer[i]
          BY <3>1, <4>2 DEF CandleInv
        <5> QED  BY <3>1, <5>1 DEF CandleInv
      <4> QED  BY <4>1, <4>2
    <3> QED  BY <3>1, <3>2 DEF CandleInv
  <2>2. inTaken' = n
    BY <1>3 DEF IngestCandle
  <2>3. CASE Len(candles) >= BufferLimit
    <3>1. inBuffer' = <<>> /\ Written(candles, ok)
      BY <1>3, <2>3 DEF IngestCandle
    <3>2. Range(candles) = (inTaken - Len(inBuffer) + 1) .. n
      BY <2>1, BatchIsPlaced
    <3>3. /\ inStored' \cup inLost' = inStored \cup inLost \cup Range(candles)
          /\ inStored' \cap inLost' \subseteq (inStored \cap inLost) \cup ((inStored \cup inLost) \cap Range(candles))
      BY <3>1 DEF Written
    <3>4. inStored' \cup inLost' = 1 .. n /\ (inStored \cup inLost) \cap Range(candles) = {}
      <4>1. inStored \cup inLost = 1 .. n - Len(candles)
        BY <2>1 DEF CandleInv
      <4>2. Range(candles) = (n - Len(candles) + 1) .. n
        BY <2>1, <3>2
      <4> PICK m \in Nat : m = n - Len(candles)
        BY <2>1
      <4>3. m <= n
        BY <2>1
      <4>4. 1 .. m \cup (m + 1) .. n = 1 .. n /\ 1 .. m \cap (m + 1) .. n = {}
        BY <4>3
      <4> QED  BY <3>3, <4>1, <4>2, <4>4
    <3> QED  BY <2>2, <3>1, <3>3, <3>4 DEF CandleInv
  <2>4. CASE ~(Len(candles) >= BufferLimit)
    <3>1. inBuffer' = candles /\ inStored' = inStored /\ inLost' = inLost
      BY <1>3, <2>4 DEF IngestCandle
    <3>2. Len(candles) < BufferLimit
      BY <2>1, <2>4 DEF CandleInv
    <3> QED  BY <2>1, <2>2, <3>1, <3>2 DEF CandleInv
  <2> QED  BY <2>3, <2>4
<1>4. CASE UNCHANGED ingestVars
  BY <1>4 DEF ingestVars, CandleInv
<1> QED  BY <1>2, <1>3, <1>4 DEF IngestNext

LEMMA StreamKeeps ==
    ASSUME StreamInv, [StreamNext]_streamVars
    PROVE  StreamInv'
<1>1. CASE SocketsNext /\ UNCHANGED <<priceVars, ingestVars>>
  BY <1>1, SocketsKeep, PricesKeep, CandlesKeep DEF StreamInv
<1>2. CASE PricesNext
  <2>1. UNCHANGED <<socketVars, ingestVars>>
    BY <1>2 DEF PricesNext, PriceTick
  <2> QED  BY <1>2, <2>1, SocketsKeep, PricesKeep, CandlesKeep DEF StreamInv
<1>3. CASE IngestNext
  <2>1. UNCHANGED <<socketVars, priceVars>>
    BY <1>3 DEF IngestNext, IngestCandle, Flush, IngestCrash
  <2> QED  BY <1>3, <2>1, SocketsKeep, PricesKeep, CandlesKeep DEF StreamInv
<1>4. CASE UNCHANGED streamVars
  BY <1>4, SocketsKeep, PricesKeep, CandlesKeep DEF StreamInv, streamVars
<1> QED  BY <1>1, <1>2, <1>3, <1>4 DEF StreamNext

LEMMA StreamHolds == StreamInv => StreamTypeOK
<1> SUFFICES ASSUME StreamInv PROVE StreamTypeOK  OBVIOUS
<1> USE StreamAssumption DEF StreamInv
<1>1. NoneBehindMiddleware
  BY DEF SocketInv, NoneBehindMiddleware, Open
<1>2. Range(inBuffer) = (inTaken - Len(inBuffer) + 1) .. inTaken
  BY BatchIsPlaced DEF CandleInv
<1>3. Len(inBuffer) \in Nat /\ inTaken \in Nat /\ inTaken - Len(inBuffer) \in Nat
  BY DEF CandleInv
<1>4. Range(inBuffer) \cup inStored \cup inLost = 1 .. inTaken
  BY <1>2, <1>3 DEF CandleInv
<1>5. /\ IsFiniteSet(1 .. inTaken - Len(inBuffer))
      /\ Cardinality(1 .. inTaken - Len(inBuffer)) = inTaken - Len(inBuffer)
  <2>1. 1 \in Int /\ inTaken - Len(inBuffer) \in Int
    BY <1>3
  <2>2. Cardinality(1 .. inTaken - Len(inBuffer)) =
          IF 1 > inTaken - Len(inBuffer) THEN 0 ELSE inTaken - Len(inBuffer) - 1 + 1
    BY <2>1, FS_Interval
  <2> QED  BY <1>3, <2>1, <2>2, FS_Interval
<1>6. IsFiniteSet(inStored) /\ IsFiniteSet(inLost)
  BY <1>5, FS_Subset DEF CandleInv
<1>7. Cardinality(inStored) + Cardinality(inLost) = inTaken - Len(inBuffer)
  <2>1. Cardinality(inStored \cup inLost) =
          Cardinality(inStored) + Cardinality(inLost) - Cardinality(inStored \cap inLost)
    BY <1>6, FS_Union
  <2>2. Cardinality(inStored \cap inLost) = 0
    BY FS_EmptySet DEF CandleInv
  <2>3. Cardinality(inStored \cup inLost) = inTaken - Len(inBuffer)
    BY <1>5 DEF CandleInv
  <2>4. Cardinality(inStored) \in Nat /\ Cardinality(inLost) \in Nat
    BY <1>6, FS_CardinalityType
  <2> QED  BY <2>1, <2>2, <2>3, <2>4
<1>8. CandlesAccounted
  <2>1. Cardinality(inStored) \in Nat /\ Cardinality(inLost) \in Nat
    BY <1>6, FS_CardinalityType
  <2>2. Len(inBuffer) + Cardinality(inStored) + Cardinality(inLost) = inTaken
    BY <1>3, <1>7, <2>1
  <2> QED  BY <1>4, <2>2 DEF CandleInv, CandlesAccounted
<1> QED  BY <1>1, <1>8 DEF SocketInv, PriceInv, StreamTypeOK

\* A user's connections are as many as are counted, until the count has slipped; behind the
\* middleware there are none; and each candle is in the buffer, stored or lost, in one place
\* only (market_data/consumers.py:18-60, ingestion.py:15-37).
THEOREM StreamTypes == StreamSpec => []StreamTypeOK
BY StreamStarts, StreamKeeps, StreamHolds, PTL DEF StreamSpec

-----------------------------------------------------------------------------
(* Alerts and notifications (alert_system.py, notifications/services.py).  *)

\* Threads that have looked at a subject's minute and not begun it.
Looking(s) == {t \in Alerters : alWork[t] # <<>> /\ alWork[t].pc = "slot" /\ alWork[t].subject = s}

AlertRecord(w) ==
    /\ w = [subject |-> w.subject, named |-> w.named, pc |-> w.pc, todo |-> w.todo, results |-> w.results]
    /\ w.pc \in {"slot", "send"} /\ w.subject \in AlertSubjects

\* Who may still send within a subject's minute looked at it before the minute began.
AlertInv ==
    /\ alEnabled \subseteq Range(AlertChannels) /\ alMin \in INFO .. CRITICAL
    /\ alSlot \in [AlertSubjects -> 0 .. Minute]
    /\ DOMAIN alWork = Alerters /\ \A t \in Alerters : alWork[t] # <<>> => AlertRecord(alWork[t])
    /\ alRows \in [sent : Nat, failed : Nat]
    /\ alSent \in [AlertSubjects -> Nat]
    /\ \A s \in AlertSubjects : alSlot[s] = 0 => alSent[s] = 0
    /\ \A s \in AlertSubjects : alSent[s] + Cardinality(Looking(s)) <= Cardinality(Alerters)

NoteRow == [read : BOOLEAN, email : BOOLEAN, push : BOOLEAN, sms : BOOLEAN]
MarksIn(row) == {c \in {"email", "push", "sms"} : row[c]}

\* The marks of the row, and of the copy a view has read of it, are channels that were tried.
NoteInv ==
    /\ noTried \subseteq {"email", "push", "sms"} /\ noCount \in 0 .. MaxNotes
    /\ noTodo # <<>> \/ noRow # <<>> => noRow \in NoteRow
    /\ noRow \in NoteRow => MarksIn(noRow) \subseteq noTried
    /\ noRow \in NoteRow => noRow.read \/ noTried \subseteq MarksIn(noRow)
    /\ noView # <<>> => noView \in NoteRow /\ MarksIn(noView) \subseteq noTried

LEMMA LookingIsFinite ==
    ASSUME NEW s
    PROVE  /\ IsFiniteSet(Looking(s)) /\ Cardinality(Looking(s)) \in Nat
           /\ Cardinality(Looking(s)) <= Cardinality(Alerters) /\ Cardinality(Alerters) \in Nat
BY MessagesAssumption, FS_Subset, FS_CardinalityType DEF Looking

LEMMA MessagesStart == MessagesInit => AlertInv /\ NoteInv
<1> SUFFICES ASSUME MessagesInit PROVE AlertInv /\ NoteInv  OBVIOUS
<1> USE MessagesAssumption DEF MessagesInit
<1>1. alEnabled \subseteq Range(AlertChannels) /\ alMin \in INFO .. CRITICAL
  BY DEF Range, INFO, WARNING, CRITICAL
<1>2. alSlot \in [AlertSubjects -> 0 .. Minute] /\ alSent \in [AlertSubjects -> Nat]
  OBVIOUS
<1>3. ASSUME NEW s \in AlertSubjects PROVE alSent[s] + Cardinality(Looking(s)) <= Cardinality(Alerters)
  BY LookingIsFinite
<1>4. NoteInv
  <2>1. <<>> \notin NoteRow
    BY DEF NoteRow
  <2> QED  BY <2>1 DEF NoteInv
<1> QED  BY <1>1, <1>2, <1>3, <1>4 DEF AlertInv

LEMMA AlertsKeep ==
    ASSUME AlertInv, AlertsNext \/ UNCHANGED alertVars
    PROVE  AlertInv'
<1> USE MessagesAssumption
<1>1. ASSUME NEW c \in Range(AlertChannels), Configure(c) PROVE AlertInv'
  BY <1>1 DEF Configure, AlertInv, Looking
<1>2. ASSUME NEW least \in {WARNING, CRITICAL}, SetMinimumLevel(least) PROVE AlertInv'
  BY <1>2 DEF SetMinimumLevel, AlertInv, Looking, INFO, WARNING, CRITICAL
<1>3. ASSUME NEW t \in Alerters, NEW s \in AlertSubjects, NEW least \in {INFO, ERROR}, NEW named,
             BeginAlert(t, s, least, named)
      PROVE  AlertInv'
  <2>1. /\ alWork' = [alWork EXCEPT ![t] = [subject |-> s, named |-> named, pc |-> "slot",
                                            todo |-> <<>>, results |-> <<>>]]
        /\ alSent[s] = 0 /\ UNCHANGED <<alEnabled, alMin, alSlot, alRows, alSent>>
    BY <1>3 DEF BeginAlert, AlertInv
  <2>2. DOMAIN alWork' = Alerters /\ \A u \in Alerters : alWork'[u] # <<>> => AlertRecord(alWork'[u])
    BY <2>1 DEF AlertInv, AlertRecord
  <2>3. ASSUME NEW v \in AlertSubjects PROVE alSent'[v] + Cardinality(Looking(v)') <= Cardinality(Alerters)
    <3>1. CASE v = s
      <4>1. Looking(v)' \subseteq Alerters
        BY DEF Looking
      <4>2. Cardinality(Looking(v)') \in Nat /\ Cardinality(Looking(v)') <= Cardinality(Alerters)
        BY <4>1, FS_Subset, FS_CardinalityType
      <4>3. alSent'[v] = 0
        BY <2>1, <3>1
      <4> QED  BY <4>2, <4>3, LookingIsFinite
    <3>2. CASE v # s
      <4>1. Looking(v)' \subseteq Looking(v)
        BY <2>1, <3>2 DEF Looking, AlertInv
      <4>2. Cardinality(Looking(v)') <= Cardinality(Looking(v)) /\ Cardinality(Looking(v)') \in Nat
        BY <4>1, LookingIsFinite, FS_Subset, FS_CardinalityType
      <4> QED  BY <2>1, <4>2, LookingIsFinite, SMTT(30) DEF AlertInv
    <3> QED  BY <3>1, <3>2
  <2> QED  BY <2>1, <2>2, <2>3 DEF AlertInv
<1>4. ASSUME NEW t \in Alerters, TakeSlot(t) PROVE AlertInv'
  <2> PICK s \in AlertSubjects : s = alWork[t].subject
    BY <1>4 DEF TakeSlot, AlertInv, AlertRecord
  <2>1. /\ alSlot' = [alSlot EXCEPT ![s] = Minute] /\ alSent' = [alSent EXCEPT ![s] = @ + 1]
        /\ UNCHANGED <<alEnabled, alMin, alRows>>
        /\ t \in Looking(s)
    BY <1>4 DEF TakeSlot, Looking
  <2>2. /\ DOMAIN alWork' = Alerters /\ alWork'[t].pc = "send" /\ AlertRecord(alWork'[t])
        /\ \A u \in Alerters \ {t} : alWork'[u] = alWork[u]
    <3> PICK rest : alWork' = [alWork EXCEPT ![t].pc = "send", ![t].todo = rest]
      BY <1>4 DEF TakeSlot
    <3>1. DOMAIN alWork' = Alerters /\ \A u \in Alerters \ {t} : alWork'[u] = alWork[u]
      BY DEF AlertInv
    <3>2. alWork'[t] = [[alWork[t] EXCEPT !.pc = "send"] EXCEPT !.todo = rest]
      BY DEF AlertInv
    <3>3. AlertRecord(alWork[t])
      BY <1>4 DEF TakeSlot, AlertInv
    <3> QED  BY <3>1, <3>2, <3>3 DEF AlertRecord
  <2>3. Looking(s)' = Looking(s) \ {t}
    BY <2>1, <2>2 DEF Looking
  <2>4. \A v \in AlertSubjects \ {s} : Looking(v)' = Looking(v)
    <3>1. \A v \in AlertSubjects \ {s} : t \notin Looking(v) /\ t \notin Looking(v)'
      BY <2>2 DEF Looking
    <3> QED  BY <2>2, <3>1 DEF Looking
  <2>5. Cardinality(Looking(s)') = Cardinality(Looking(s)) - 1
    BY <2>1, <2>3, LookingIsFinite, FS_RemoveElement, ZenonT(30)
  <2>6. ASSUME NEW v \in AlertSubjects PROVE alSent'[v] + Cardinality(Looking(v)') <= Cardinality(Alerters)
    <3>1. CASE v = s
      BY <2>1, <2>5, <3>1, LookingIsFinite, SMTT(30) DEF AlertInv
    <3>2. CASE v # s
      BY <2>1, <2>4, <3>2 DEF AlertInv
    <3> QED  BY <3>1, <3>2
  <2>7. \A u \in Alerters : alWork'[u] # <<>> => AlertRecord(alWork'[u])
    BY <2>2 DEF AlertInv
  <2>8. \A v \in AlertSubjects : alSlot'[v] = 0 => alSent'[v] = 0
    BY <2>1 DEF AlertInv
  <2> QED  BY <2>1, <2>2, <2>6, <2>7, <2>8 DEF AlertInv
<1>5. ASSUME NEW t \in Alerters, UNCHANGED <<alEnabled, alMin, alSlot, alSent>>,
             alRows' \in [sent : Nat, failed : Nat], DOMAIN alWork' = Alerters,
             \A u \in Alerters \ {t} : alWork'[u] = alWork[u],
             alWork'[t] # <<>> => AlertRecord(alWork'[t]) /\ alWork'[t].pc = "send"
      PROVE  AlertInv'
  <2>1. ASSUME NEW v \in AlertSubjects PROVE alSent'[v] + Cardinality(Looking(v)') <= Cardinality(Alerters)
    <3>1. Looking(v)' \subseteq Looking(v)
      BY <1>5 DEF Looking
    <3>2. Cardinality(Looking(v)') <= Cardinality(Looking(v)) /\ Cardinality(Looking(v)') \in Nat
      BY <3>1, LookingIsFinite, FS_Subset, FS_CardinalityType
    <3> QED  BY <1>5, <3>2, LookingIsFinite, SMTT(30) DEF AlertInv
  <2> QED  BY <1>5, <2>1 DEF AlertInv
<1>6. ASSUME NEW t \in Alerters, NEW delivered \in BOOLEAN, TryChannel(t, delivered) PROVE AlertInv'
  <2>1. /\ DOMAIN alWork' = Alerters /\ \A u \in Alerters \ {t} : alWork'[u] = alWork[u]
        /\ AlertRecord(alWork'[t]) /\ alWork'[t].pc = "send"
    BY <1>6, SMTT(30) DEF TryChannel, AlertInv, AlertRecord
  <2> QED  BY <1>5, <1>6, <2>1 DEF TryChannel, AlertInv
<1>7. ASSUME NEW t \in Alerters, NEW written \in 0 .. Len(alWork[t].results), LogAlert(t, written)
      PROVE  AlertInv'
  <2>1. ASSUME NEW outcome
        PROVE  Cardinality({i \in 1 .. written : alWork[t].results[i] = outcome}) \in Nat
    <3>1. IsFiniteSet(1 .. written)
      BY FS_Interval
    <3> QED  BY <3>1, FS_Subset, FS_CardinalityType
  <2>2. alRows' \in [sent : Nat, failed : Nat]
    <3> DEFINE Those(outcome) == Cardinality({i \in 1 .. written : alWork[t].results[i] = outcome})
    <3>1. alRows' = [sent |-> alRows.sent + Those(TRUE), failed |-> alRows.failed + Those(FALSE)]
      BY <1>7 DEF LogAlert
    <3>2. Those(TRUE) \in Nat /\ Those(FALSE) \in Nat
      BY <2>1
    <3> PICK a \in Nat, b \in Nat : alRows' = [sent |-> alRows.sent + a, failed |-> alRows.failed + b]
      <4> HIDE DEF Those
      <4> QED  BY <3>1, <3>2
    <3> QED  BY DEF AlertInv
  <2>3. DOMAIN alWork' = Alerters /\ alWork'[t] = <<>> /\ \A u \in Alerters \ {t} : alWork'[u] = alWork[u]
    BY <1>7 DEF LogAlert, AlertInv
  <2> QED  BY <1>5, <1>7, <2>2, <2>3 DEF LogAlert
<1>8. CASE AlertClock
  <2>1. alSlot' \in [AlertSubjects -> 0 .. Minute] /\ alSent' \in [AlertSubjects -> Nat]
    BY <1>8 DEF AlertClock, AlertInv
  <2>2. \A s \in AlertSubjects : /\ alSent'[s] <= alSent[s] /\ Looking(s)' = Looking(s)
                                 /\ alSlot'[s] = 0 => alSent'[s] = 0
    BY <1>8 DEF AlertClock, AlertInv, Looking
  <2> QED  BY <1>8, <2>1, <2>2, LookingIsFinite, SMTT(30) DEF AlertClock, AlertInv
<1>9. CASE UNCHANGED alertVars
  BY <1>9 DEF alertVars, AlertInv, Looking
<1> QED  BY <1>1, <1>2, <1>3, <1>4, <1>6, <1>7, <1>8, <1>9 DEF AlertsNext

LEMMA NotesKeep ==
    ASSUME NoteInv, NotesNext \/ UNCHANGED noteVars
    PROVE  NoteInv'
<1> USE MessagesAssumption DEF NoteInv, NoteRow, MarksIn
<1>1. ASSUME NEW kind, NEW p, SendNotification(kind, p) PROVE NoteInv'
  BY <1>1 DEF SendNotification, NewRow
<1>2. ASSUME NEW c \in {"email", "push", "sms"}, SendOn(c) PROVE NoteInv'
  <2>1. noRow \in NoteRow /\ MarksIn(noRow) \subseteq noTried
    BY <1>2 DEF SendOn
  <2>2. CASE c \in Reachable
    <3>1. noRow' = [noRow EXCEPT ![c] = TRUE] /\ noTried' = noTried \cup {c}
      BY <1>2, <2>2 DEF SendOn
    <3>2. noRow' \in NoteRow /\ noRow'.read = noRow.read
      <4>1. CASE c = "email"
        BY <2>1, <3>1, <4>1
      <4>2. CASE c = "push"
        BY <2>1, <3>1, <4>2
      <4>3. CASE c = "sms"
        BY <2>1, <3>1, <4>3
      <4> QED  BY <4>1, <4>2, <4>3
    <3>3. \A d \in {"email", "push", "sms"} : noRow'[d] <=> (d = c \/ noRow[d])
      BY <2>1, <3>1
    <3> QED  BY <1>2, <2>1, <3>1, <3>2, <3>3 DEF SendOn
  <2>3. CASE c \notin Reachable
    BY <1>2, <2>3 DEF SendOn
  <2> QED  BY <2>2, <2>3
<1>3. CASE ReadNote
  BY <1>3 DEF ReadNote
<1>4. CASE MarkRead
  <2>1. noView \in NoteRow /\ MarksIn(noView) \subseteq noTried /\ noRow' = [noView EXCEPT !.read = TRUE]
    BY <1>4 DEF MarkRead
  <2>2. noRow' \in NoteRow /\ noRow'.read /\ MarksIn(noRow') = MarksIn(noView)
    BY <2>1
  <2> QED  BY <1>4, <2>1, <2>2 DEF MarkRead
<1>5. CASE MarkAllRead
  <2>1. noRow \in NoteRow /\ MarksIn(noRow) \subseteq noTried /\ noRow' = [noRow EXCEPT !.read = TRUE]
    BY <1>5 DEF MarkAllRead
  <2>2. noRow' \in NoteRow /\ noRow'.read /\ MarksIn(noRow') = MarksIn(noRow)
    BY <2>1
  <2> QED  BY <1>5, <2>1, <2>2 DEF MarkAllRead
<1>6. ASSUME NEW prefs, SavePreferences(prefs) PROVE NoteInv'
  BY <1>6 DEF SavePreferences
<1>7. CASE UNCHANGED noteVars
  BY <1>7 DEF noteVars
<1> QED  BY <1>1, <1>2, <1>3, <1>4, <1>5, <1>6, <1>7 DEF NotesNext

LEMMA MessagesHold == AlertInv /\ NoteInv => MessagesTypeOK
<1> SUFFICES ASSUME AlertInv, NoteInv PROVE MessagesTypeOK  OBVIOUS
<1>1. AlertsPerMinute
  BY LookingIsFinite DEF AlertInv, AlertsPerMinute
<1>2. MarkedIsTried
  BY DEF NoteInv, MarkedIsTried, MarksIn
<1>3. TriedIsMarked
  BY DEF NoteInv, TriedIsMarked, MarksIn
<1> QED  BY <1>1, <1>2, <1>3 DEF AlertInv, AlertRecord, NoteInv, MessagesTypeOK

\* A subject is alerted of at most once a minute by every thread, and a notification marked
\* as sent on a channel was handed over there, whatever older copy of its row a view saves
\* (infrastructure/alert_system.py:150-230, notifications/services.py, views.py).
THEOREM MessagesTypes == MessagesSpec => []MessagesTypeOK
<1>1. AlertInv /\ NoteInv /\ [MessagesNext]_messageVars => (AlertInv /\ NoteInv)'
  BY AlertsKeep, NotesKeep DEF MessagesNext, messageVars
<1> QED  BY <1>1, MessagesStart, MessagesHold, PTL DEF MessagesSpec

-----------------------------------------------------------------------------
(* Backup systems (backup_manager.py).                                     *)

\* A failure is counted below the allowance, and a backup system is one place down the
\* chain from the one before it.
BackupInv ==
    /\ bkCurrent \in Systems /\ bkBefore \in Systems \union {"none"}
    /\ bkFailures \in 0 .. FailuresAllowed
    /\ bkSwitched \in 0 .. bkClock /\ bkClock \in 1 .. BackupClock
    /\ bkTask \in 0 .. TaskRetries + 1
    /\ bkLog \in Seq([from : Systems, to : Systems]) /\ Len(bkLog) <= MaxLog
    /\ bkBefore = "none" => bkCurrent = "V65" /\ bkSwitched = 0
    /\ bkCurrent # "V65" => bkBefore = Chain[Position(bkCurrent) - 1]
    /\ \A i \in DOMAIN bkLog : bkLog[i].from = bkLog[i].to

LEMMA PlacesInChain ==
    /\ Systems = {"V65", "V6", "GOLD_EDGE", "SCALPING", "CONFLUENCE"}
    /\ \A i \in 1 .. 5 : Position(Chain[i]) = i
    /\ \A s \in Systems : Position(s) \in 1 .. 5 /\ Chain[Position(s)] = s
<1>1. /\ Chain[1] = "V65" /\ Chain[2] = "V6" /\ Chain[3] = "GOLD_EDGE" /\ Chain[4] = "SCALPING"
      /\ Chain[5] = "CONFLUENCE"
  BY DEF Chain
<1>2. \A i \in 1 .. 5 : i = 1 \/ i = 2 \/ i = 3 \/ i = 4 \/ i = 5
  OBVIOUS
<1>3. Systems = {"V65", "V6", "GOLD_EDGE", "SCALPING", "CONFLUENCE"}
  BY <1>1, <1>2 DEF Systems
<1>4. \A i, j \in 1 .. 5 : Chain[i] = Chain[j] => i = j
  BY <1>1, <1>2
<1>5. ASSUME NEW s \in Systems PROVE Position(s) \in 1 .. 5 /\ Chain[Position(s)] = s
  <2>1. \E i \in 1 .. 5 : Chain[i] = s
    BY DEF Systems
  <2> QED  BY <2>1 DEF Position
<1>6. ASSUME NEW i \in 1 .. 5 PROVE Position(Chain[i]) = i
  BY <1>4, <1>5 DEF Systems
<1> QED  BY <1>3, <1>5, <1>6

LEMMA BackupStarts == BackupInit => BackupInv
BY BackupAssumption, PlacesInChain DEF BackupInit, BackupInv

LEMMA BackupKeeps ==
    ASSUME BackupInv, [BackupNext]_backupVars
    PROVE  BackupInv'
<1> USE BackupAssumption DEF LogRoom
<1>1. ASSUME NEW to \in Systems, LogRoom, bkLog' = Entry(to, to)
      PROVE  /\ bkLog' \in Seq([from : Systems, to : Systems]) /\ Len(bkLog') <= MaxLog
             /\ \A i \in DOMAIN bkLog' : bkLog'[i].from = bkLog'[i].to
  <2> PICK e \in [from : Systems, to : Systems] : e = [from |-> to, to |-> to]
    OBVIOUS
  <2>1. bkLog' = Append(bkLog, e) /\ e.from = e.to
    BY <1>1 DEF Entry
  <2>2. bkLog' \in Seq([from : Systems, to : Systems]) /\ Len(bkLog') = Len(bkLog) + 1
    BY <2>1 DEF BackupInv
  <2>3. \A i \in 1 .. Len(bkLog) : bkLog'[i] = bkLog[i]
    BY <2>1 DEF BackupInv
  <2>4. bkLog'[Len(bkLog')] = e
    BY <2>1, <2>2 DEF BackupInv
  <2>5. \A i \in DOMAIN bkLog' : bkLog'[i].from = bkLog'[i].to
    BY <2>1, <2>2, <2>3, <2>4 DEF BackupInv
  <2> QED  BY <1>1, <2>2, <2>5 DEF BackupInv
<1>2. ASSUME NEW health \in Healths, NEW error \in BOOLEAN, NEW gold \in BOOLEAN, NEW scalping \in BOOLEAN,
             ShouldActivateBackup(health, error, gold, scalping)
      PROVE  BackupInv'
  <2>1. bkFailures' \in 0 .. FailuresAllowed
    BY <1>2 DEF ShouldActivateBackup, BackupInv
  <2>2. CASE Triggered(health, error, gold, scalping)
    BY <1>1, <1>2, <2>1, <2>2 DEF ShouldActivateBackup, BackupInv
  <2>3. CASE ~Triggered(health, error, gold, scalping)
    BY <1>2, <2>1, <2>3 DEF ShouldActivateBackup, BackupInv
  <2> QED  BY <2>2, <2>3
<1>3. CASE ActivateBackup
  <2>1. Position(bkCurrent) \in 1 .. 5 /\ Len(Chain) = 5 /\ Chain[Position(bkCurrent)] = bkCurrent
    BY PlacesInChain DEF BackupInv, Chain
  <2>2. CASE Position(bkCurrent) = 5
    BY <1>3, <2>1, <2>2 DEF ActivateBackup, BackupInv
  <2>3. CASE Position(bkCurrent) # 5
    <3> PICK to \in Systems : to = Chain[Position(bkCurrent) + 1]
      BY <2>1, <2>3 DEF Systems
    <3>1. /\ bkBefore' = bkCurrent /\ bkCurrent' = to /\ bkSwitched' = bkClock /\ bkLog' = Entry(to, to)
          /\ UNCHANGED <<bkFailures, bkClock, bkTask>> /\ LogRoom
      BY <1>3, <2>1, <2>3 DEF ActivateBackup
    <3>2. Position(to) = Position(bkCurrent) + 1
      BY <2>1, <2>3, PlacesInChain
    <3>3. bkBefore' = Chain[Position(to) - 1] /\ bkBefore' \in Systems /\ bkBefore' # "none"
      BY <2>1, <3>1, <3>2, PlacesInChain DEF BackupInv
    <3>4. bkSwitched' \in 0 .. bkClock'
      BY <3>1 DEF BackupInv
    <3> QED  BY <1>1, <3>1, <3>3, <3>4 DEF BackupInv
  <2> QED  BY <2>2, <2>3
<1>4. CASE CheckV65Recovery
  <2>1. "V65" \in Systems /\ "none" \notin Systems
    BY PlacesInChain
  <2> QED  BY <1>1, <1>4, <2>1 DEF CheckV65Recovery, Recovers, BackupInv
<1>5. CASE ResetV65Failures
  BY <1>5 DEF ResetV65Failures, BackupInv
<1>6. CASE RunBackupCycle
  BY <1>6 DEF RunBackupCycle, BackupInv
<1>7. CASE CheckBackupHealth \/ UNCHANGED backupVars
  BY <1>7 DEF CheckBackupHealth, backupVars, BackupInv
<1>8. CASE BackupTick
  BY <1>8 DEF BackupTick, BackupInv
<1> QED  BY <1>2, <1>3, <1>4, <1>5, <1>6, <1>7, <1>8 DEF BackupNext

LEMMA BackupHolds == BackupInv => BackupTypeOK
BY PlacesInChain DEF BackupInv, BackupTypeOK, SystemFor

\* The system before is the one above in the chain, or a backup that V6.5 replaced; entries of
\* the log do not tell a switch from a warning; a gold symbol never stays with V6.5
\* (backup_manager.py:90-230).
THEOREM BackupTypes == BackupSpec => []BackupTypeOK
BY BackupStarts, BackupKeeps, BackupHolds, PTL DEF BackupSpec

-----------------------------------------------------------------------------
(* The economic calendar (smart_news_trading.py).                          *)

\* Every event is after the day, and its time can be subtracted.
Ahead(events, day) ==
    \A i \in DOMAIN events : /\ events[i].at \in Int /\ ~events[i].zoned
                             /\ events[i].at >= DayLength * (day + 1) + PreWindow

\* The defaults in a process or in the file are those of the day they were loaded.
NewsInv ==
    /\ nwNow \in 0 .. MaxTime
    /\ DOMAIN nwCalendar = Readers
    /\ nwLoaded \in [Readers -> Int] /\ \A p \in Readers : nwLoaded[p] \in -1 .. NewsDay
    /\ nwBuiltIn \in [Readers -> BOOLEAN] /\ nwHmr \in [Readers -> BOOLEAN]
    /\ \A p \in Readers : nwBuiltIn[p] => Ahead(nwCalendar[p], nwLoaded[p])
    /\ nwFile.day \in -1 .. NewsDay /\ nwFile.builtIn \in BOOLEAN
    /\ nwFile.builtIn => Ahead(nwFile.events, nwFile.day)
    /\ nwAnswer.builtIn => nwAnswer.phase \in {"none", "follow"}
    /\ FollowedAhead

LEMMA DaysPass ==
    ASSUME NEW n \in Nat
    PROVE  /\ n \div DayLength \in Nat /\ DayLength * (n \div DayLength) <= n
           /\ n < DayLength * ((n \div DayLength) + 1)
           /\ n \div DayLength <= (n + 1) \div DayLength
<1> PICK d \in Nat \ {0} : d = DayLength
  BY NewsAssumption
<1>1. n \div d \in Nat /\ n \div d <= (n + 1) \div d
  BY Z3
<1>2. d * (n \div d) <= n /\ n < d * (n \div d) + d
  BY Z3
<1>3. d * ((n \div d) + 1) = d * (n \div d) + d
  BY <1>1
<1> QED  BY <1>1, <1>2, <1>3

LEMMA DefaultsAreAhead == nwNow \in Nat => Ahead(Defaults, NewsDay)
<1> SUFFICES ASSUME nwNow \in Nat PROVE Ahead(Defaults, NewsDay)  OBVIOUS
<1>1. NewsDay \in Nat /\ DayLength \in Nat
  BY DaysPass, NewsAssumption DEF NewsDay
<1>2. ASSUME NEW i \in DOMAIN DefaultAhead
      PROVE  /\ Defaults[i].at = DayLength * NewsDay + DefaultAhead[i] /\ ~Defaults[i].zoned
             /\ DefaultAhead[i] \in Nat /\ DefaultAhead[i] >= DayLength + PreWindow
  BY NewsAssumption DEF Defaults
<1>3. DayLength * (NewsDay + 1) = DayLength * NewsDay + DayLength /\ DayLength * NewsDay \in Int
  BY <1>1
<1>4. DOMAIN Defaults = DOMAIN DefaultAhead
  BY DEF Defaults
<1> QED  BY <1>1, <1>2, <1>3, <1>4, NewsAssumption, SMTT(30) DEF Ahead

\* What is ahead of its day by more than the window is to be followed.
LEMMA AheadIsFollowed ==
    ASSUME nwNow \in Nat, NEW events, Ahead(events, NewsDay), NEW i \in DOMAIN events
    PROVE  PhaseOf(events[i]) = "follow" /\ ~events[i].zoned
<1>1. nwNow < DayLength * (NewsDay + 1) /\ DayLength * (NewsDay + 1) \in Int
  <2>1. NewsDay \in Nat /\ DayLength \in Nat
    BY DaysPass, NewsAssumption DEF NewsDay
  <2>2. DayLength * (NewsDay + 1) \in Int
    BY <2>1
  <2> QED  BY <2>2, DaysPass DEF NewsDay
<1>2. Gap(events[i]) \in Int /\ Gap(events[i]) > PreWindow /\ ~events[i].zoned
  BY <1>1, NewsAssumption DEF Ahead, Gap
<1> QED  BY <1>2, NewsAssumption DEF PhaseOf

LEMMA NewsStarts == NewsInit => NewsInv
BY NewsAssumption, DaysPass DEF NewsInit, NewsInv, NoAnswer, NewsDay, FollowedAhead, Ahead

\* A process that has loaded keeps the day's calendar, which is ahead if it is the default one.
LEMMA LoadsAhead ==
    ASSUME NewsInv, NEW p \in Readers, NEW events, NEW builtIn \in BOOLEAN,
           Loads(p, events, builtIn), Keeps(p, events, builtIn)
    PROVE  /\ builtIn => Ahead(events, NewsDay)
           /\ nwFile'.day \in -1 .. NewsDay /\ nwFile'.builtIn \in BOOLEAN
           /\ nwFile'.builtIn => Ahead(nwFile'.events, nwFile'.day)
           /\ DOMAIN nwCalendar' = Readers
           /\ nwLoaded' \in [Readers -> Int] /\ \A q \in Readers : nwLoaded'[q] \in -1 .. NewsDay
           /\ nwBuiltIn' \in [Readers -> BOOLEAN]
           /\ \A q \in Readers : nwBuiltIn'[q] => Ahead(nwCalendar'[q], nwLoaded'[q])
<1>1. nwNow \in Nat /\ NewsDay \in Nat
  BY DaysPass, NewsAssumption DEF NewsInv, NewsDay
<1>2. builtIn => Ahead(events, NewsDay)
  BY <1>1, DefaultsAreAhead DEF Loads, IsLoaded, FromFile, SiteAnswers, NewsInv
<1>3. /\ nwFile'.day \in -1 .. NewsDay /\ nwFile'.builtIn \in BOOLEAN
      /\ nwFile'.builtIn => Ahead(nwFile'.events, nwFile'.day)
  <2>1. nwFile' = nwFile \/ nwFile' = [day |-> NewsDay, events |-> events, builtIn |-> builtIn]
    BY DEF Loads, Saves
  <2> QED  BY <1>1, <1>2, <2>1 DEF NewsInv
<1>4. /\ nwCalendar' = [nwCalendar EXCEPT ![p] = events] /\ nwBuiltIn' = [nwBuiltIn EXCEPT ![p] = builtIn]
      /\ nwLoaded' = [nwLoaded EXCEPT ![p] = NewsDay]
  BY DEF Keeps
<1>5. \A q \in Readers : nwBuiltIn'[q] => Ahead(nwCalendar'[q], nwLoaded'[q])
  BY <1>2, <1>4 DEF NewsInv
<1> QED  BY <1>1, <1>2, <1>3, <1>4, <1>5 DEF NewsInv

LEMMA NewsKeeps ==
    ASSUME NewsInv, [NewsNext]_newsVars
    PROVE  NewsInv'
<1>1. nwNow \in Nat /\ NewsDay \in Nat
  BY DaysPass, NewsAssumption DEF NewsInv, NewsDay
<1>2. ASSUME NEW p \in Readers, Ask(p) PROVE NewsInv'
  <2> PICK events \in FetchedCalendars \cup {nwCalendar[p], nwFile.events, Defaults}, builtIn \in BOOLEAN :
        /\ Loads(p, events, builtIn) /\ Keeps(p, events, builtIn)
        /\ AnswerFrom(events, builtIn, nwAnswer')
        /\ UNCHANGED <<nwNow, nwHmr>>
    BY <1>2 DEF Ask
  <2>1. nwAnswer'.builtIn => nwAnswer'.phase \in {"none", "follow"}
    <3> SUFFICES ASSUME nwAnswer'.builtIn PROVE nwAnswer'.phase \in {"none", "follow"}
      OBVIOUS
    <3>1. CASE \E i \in Relevant(events) : Decides(events, i)
      <4> PICK i \in Relevant(events) :
            nwAnswer' = [phase |-> IF events[i].zoned THEN "raises" ELSE PhaseOf(events[i]),
                         gap |-> Gap(events[i]), builtIn |-> builtIn]
        BY <3>1 DEF AnswerFrom
      <4>1. Ahead(events, NewsDay) /\ i \in DOMAIN events
        BY LoadsAhead DEF Relevant
      <4> QED  BY <1>1, <4>1, AheadIsFollowed
    <3>2. CASE ~ \E i \in Relevant(events) : Decides(events, i)
      BY <3>2 DEF AnswerFrom, NoAnswer
    <3> QED  BY <3>1, <3>2
  <2>2. FollowedAhead'
    <3>1. CASE \E i \in Relevant(events) : Decides(events, i)
      <4> PICK i \in Relevant(events) :
            nwAnswer' = [phase |-> IF events[i].zoned THEN "raises" ELSE PhaseOf(events[i]),
                         gap |-> Gap(events[i]), builtIn |-> builtIn]
        BY <3>1 DEF AnswerFrom
      <4>1. PhaseOf(events[i]) = "follow" => Gap(events[i]) > PreWindow
        BY DEF PhaseOf
      <4> QED  BY <4>1 DEF FollowedAhead
    <3>2. CASE ~ \E i \in Relevant(events) : Decides(events, i)
      BY <3>2 DEF AnswerFrom, NoAnswer, FollowedAhead
    <3> QED  BY <3>1, <3>2
  <2>3. NewsDay' = NewsDay
    BY DEF NewsDay
  <2> QED  BY <2>1, <2>2, <2>3, LoadsAhead DEF NewsInv
<1>3. ASSUME NEW p \in Readers, Reopen(p) PROVE NewsInv'
  <2> PICK events \in FetchedCalendars \cup {nwFile.events, Defaults}, builtIn \in BOOLEAN :
        /\ Loads(p, events, builtIn) /\ Keeps(p, events, builtIn)
        /\ nwHmr' = [nwHmr EXCEPT ![p] = FALSE]
        /\ UNCHANGED <<nwNow, nwAnswer>>
    BY <1>3 DEF Reopen
  <2>1. NewsDay' = NewsDay
    BY DEF NewsDay
  <2> QED  BY <2>1, LoadsAhead DEF NewsInv, FollowedAhead
<1>4. ASSUME NEW p \in Readers, Stop(p) PROVE NewsInv'
  <2>1. NewsDay' = NewsDay
    BY <1>4 DEF NewsDay, Stop
  <2> QED  BY <1>1, <1>4, <2>1 DEF Stop, NewsInv, FollowedAhead, Ahead
<1>5. ASSUME NEW p \in Readers, CheckHmr(p) PROVE NewsInv'
  <2>1. NewsDay' = NewsDay
    BY <1>5 DEF NewsDay, CheckHmr
  <2>2. nwHmr' \in [Readers -> BOOLEAN]
    BY <1>5 DEF CheckHmr, NewsInv
  <2> QED  BY <1>5, <2>1, <2>2 DEF CheckHmr, NewsInv, FollowedAhead
<1>6. CASE NewsClock
  <2>1. NewsDay' \in Nat /\ NewsDay <= NewsDay'
    BY <1>1, <1>6, DaysPass DEF NewsDay, NewsClock
  <2> QED  BY <1>1, <1>6, <2>1, NewsAssumption DEF NewsClock, NewsInv, FollowedAhead
<1>7. CASE UNCHANGED newsVars
  BY <1>7 DEF newsVars, NewsInv, NewsDay, FollowedAhead
<1> QED  BY <1>2, <1>3, <1>4, <1>5, <1>6, <1>7 DEF NewsNext

LEMMA NewsHolds == NewsInv => NewsTypeOK
BY DEF NewsInv, NewsTypeOK, DefaultsNeverDue, Ahead

\* A calendar of the defaults has no event on the day it is loaded, whoever made it and
\* whoever reads it, and the advice to follow the trend comes before the event
\* (smart_news_trading.py:45-251).
THEOREM NewsTypes == NewsSpec => []NewsTypeOK
BY NewsStarts, NewsKeeps, NewsHolds, PTL DEF NewsSpec

-----------------------------------------------------------------------------
(* The client, its bridge and the terminal together.                       *)

\* What is asked of a ticket is asked of one the callers know, and a change that waits to be
\* served leaves its levels in doubt.
BridgeInv ==
    /\ brKind \in {"native", "mcp"} /\ brUp \in BOOLEAN /\ brFlag \in BOOLEAN
    /\ brNext \in 1 .. MaxTickets + 1 /\ brOpen \subseteq 1 .. brNext - 1
    /\ brLevels \in [AllTickets -> PricePair] /\ bkLevels \in [AllTickets -> PricePair]
    /\ clHeard \in BOOLEAN
    /\ clWaits \in Asked \cup {"none"}
    /\ Len(brQueue) <= MaxQueue /\ clTries \in 0 .. ConnectTries
    /\ clClosed \subseteq clKnown /\ clKnown \subseteq 1 .. brNext - 1 /\ bkOff \subseteq clKnown
    /\ \A i \in DOMAIN brQueue :
         /\ brQueue[i].op \in {"close", "modify"} => brQueue[i].ticket \in clKnown
         /\ brQueue[i].op = "modify" => brQueue[i].ticket \in bkOff
    /\ LevelsAgree

LEMMA BridgeStarts == BridgeInit => BridgeInv
<1> SUFFICES ASSUME BridgeInit PROVE BridgeInv  OBVIOUS
<1>1. NoPrices \in PricePair
  BY BridgeAssumption DEF NoPrices, PricePair
<1>2. brNext \in 1 .. MaxTickets + 1 /\ clTries \in 0 .. ConnectTries
  BY BridgeAssumption DEF BridgeInit
<1>3. Len(brQueue) = 0 /\ DOMAIN brQueue = {} /\ Len(brQueue) <= MaxQueue
  BY BridgeAssumption DEF BridgeInit
<1>4. /\ brLevels \in [AllTickets -> PricePair] /\ bkLevels \in [AllTickets -> PricePair]
      /\ brOpen \subseteq 1 .. brNext - 1 /\ clKnown \subseteq 1 .. brNext - 1
  BY <1>1 DEF BridgeInit
<1>5. LevelsAgree
  BY DEF BridgeInit, LevelsAgree
<1> QED  BY <1>2, <1>3, <1>4, <1>5 DEF BridgeInit, BridgeInv

\* A request joins the queue; nothing else of the terminal or the book changes but the doubt.
LEMMA PostKeeps ==
    ASSUME BridgeInv, AskedInv, NEW op \in Asked, NEW t \in Nat, NEW levels \in PricePair,
           Post(Request(op, t, levels)),
           op \in {"close", "modify"} => t \in clKnown, op = "modify" => t \in bkOff',
           clTries' \in 0 .. ConnectTries, bkOff \subseteq bkOff', bkOff' \subseteq clKnown,
           UNCHANGED <<clKnown, clClosed, clHeard, bkLevels>>
    PROVE  BridgeInv'
<1> PICK r \in [op : Asked, ticket : Nat, levels : PricePair] :
      r = Request(op, t, levels) /\ r.op = op /\ r.ticket = t
  BY DEF Request
<1>1. brQueue' = Append(brQueue, r) /\ Len(brQueue) < MaxQueue /\ clWaits' = op /\ UNCHANGED terminalVars
  BY DEF Post
<1>2. /\ Len(brQueue') = Len(brQueue) + 1 /\ brQueue'[Len(brQueue) + 1] = r /\ Len(brQueue) \in Nat
      /\ DOMAIN brQueue' = 1 .. Len(brQueue) + 1 /\ DOMAIN brQueue = 1 .. Len(brQueue)
      /\ \A i \in 1 .. Len(brQueue) : brQueue'[i] = brQueue[i]
  BY <1>1 DEF AskedInv
<1>3. \A i \in DOMAIN brQueue' :
         /\ brQueue'[i].op \in {"close", "modify"} => brQueue'[i].ticket \in clKnown'
         /\ brQueue'[i].op = "modify" => brQueue'[i].ticket \in bkOff'
  <2> SUFFICES ASSUME NEW i \in 1 .. Len(brQueue) + 1
               PROVE  /\ brQueue'[i].op \in {"close", "modify"} => brQueue'[i].ticket \in clKnown'
                      /\ brQueue'[i].op = "modify" => brQueue'[i].ticket \in bkOff'
    BY <1>2
  <2>1. CASE i = Len(brQueue) + 1
    BY <1>2, <2>1
  <2>2. CASE i \in 1 .. Len(brQueue)
    BY <1>2, <2>2 DEF BridgeInv
  <2> QED  BY <1>2, <2>1, <2>2
<1>4. LevelsAgree'
  BY <1>1 DEF BridgeInv, LevelsAgree, terminalVars
<1>5. Len(brQueue') <= MaxQueue
  BY <1>1, <1>2, BridgeAssumption
<1> QED  BY <1>1, <1>3, <1>4, <1>5 DEF BridgeInv, terminalVars

LEMMA SendKeeps ==
    ASSUME BridgeInv, AskedInv,
           \/ SendConnect
           \/ \E op \in {"disconnect", "health", "positions"} : SendPlain(op)
           \/ \E levels \in PricePair : SendOpen(levels)
           \/ \E t \in AllTickets : SendClose(t)
           \/ \E t \in AllTickets, levels \in PricePair : SendModify(t, levels)
    PROVE  BridgeInv'
<1>1. NoPrices \in PricePair /\ 0 \in Nat /\ AllTickets \subseteq Nat
  BY BridgeAssumption DEF NoPrices, PricePair, AllTickets
<1>2. Asked = {"connect", "disconnect", "health", "positions", "open", "close", "modify"}
  BY DEF Asked
<1>3. clTries \in 0 .. ConnectTries /\ bkOff \subseteq clKnown
  BY DEF BridgeInv
<1>4. CASE SendConnect
  <2>1. clTries' \in 0 .. ConnectTries
    BY <1>3, <1>4, BridgeAssumption DEF SendConnect
  <2> QED  BY <1>1, <1>2, <1>3, <1>4, <2>1, PostKeeps DEF SendConnect
<1>5. ASSUME NEW op \in {"disconnect", "health", "positions"}, SendPlain(op) PROVE BridgeInv'
  BY <1>1, <1>2, <1>3, <1>5, PostKeeps DEF SendPlain, clientVars
<1>6. ASSUME NEW levels \in PricePair, SendOpen(levels) PROVE BridgeInv'
  BY <1>1, <1>2, <1>3, <1>6, PostKeeps DEF SendOpen, clientVars
<1>7. ASSUME NEW t \in AllTickets, SendClose(t) PROVE BridgeInv'
  BY <1>1, <1>2, <1>3, <1>7, PostKeeps DEF SendClose, clientVars
<1>8. ASSUME NEW t \in AllTickets, NEW levels \in PricePair, SendModify(t, levels) PROVE BridgeInv'
  <2>1. /\ Post(Request("modify", t, levels)) /\ t \in clKnown /\ bkOff' = bkOff \cup {t}
        /\ UNCHANGED <<clTries, clKnown, clClosed, clHeard, bkLevels>>
    BY <1>8 DEF SendModify
  <2> QED  BY <1>1, <1>2, <1>3, <2>1, PostKeeps
<1> QED  BY <1>4, <1>5, <1>6, <1>7, <1>8

\* The request at the head leaves the queue; the others keep their tickets.
LEMMA ServedLeaves ==
    ASSUME BridgeInv, AskedInv, NEW answered \in BOOLEAN, Tells(answered), brQueue # <<>>
    PROVE  /\ Head(brQueue) \in [op : Asked, ticket : Nat, levels : PricePair]
           /\ Head(brQueue).op \in {"close", "modify"} => Head(brQueue).ticket \in clKnown
           /\ Head(brQueue).op = "modify" => Head(brQueue).ticket \in bkOff
           /\ Len(brQueue') <= MaxQueue /\ clWaits' \in Asked \cup {"none"}
           /\ \A i \in DOMAIN brQueue' :
                /\ brQueue'[i].op \in {"close", "modify"} => brQueue'[i].ticket \in clKnown
                /\ brQueue'[i].op = "modify" => brQueue'[i].ticket \in bkOff
           /\ answered => DOMAIN brQueue' = {}
<1>1. /\ brQueue' = Tail(brQueue) /\ Len(brQueue) \in Nat /\ Len(brQueue) # 0
      /\ Head(brQueue) = brQueue[1] /\ Len(brQueue') = Len(brQueue) - 1
      /\ DOMAIN brQueue' = 1 .. Len(brQueue) - 1 /\ DOMAIN brQueue = 1 .. Len(brQueue)
      /\ \A i \in 1 .. Len(brQueue) - 1 : brQueue'[i] = brQueue[i + 1]
  BY DEF Tells, AskedInv
<1>2. Head(brQueue) \in [op : Asked, ticket : Nat, levels : PricePair]
  <2>1. 1 \in 1 .. Len(brQueue)
    BY <1>1
  <2> DEFINE Letters == [op : Asked, ticket : Nat, levels : PricePair]
  <2>2. brQueue \in Seq(Letters)
    BY DEF AskedInv
  <2> HIDE DEF Letters
  <2>3. brQueue[1] \in Letters
    BY <1>1, <2>1, <2>2
  <2> QED  BY <1>1, <2>3 DEF Letters
<1>3. 1 \in DOMAIN brQueue /\ \A i \in DOMAIN brQueue' : i + 1 \in DOMAIN brQueue
  BY <1>1
<1>4. answered => DOMAIN brQueue' = {}
  BY <1>1 DEF Tells
<1>5. Len(brQueue') <= MaxQueue /\ clWaits' \in Asked \cup {"none"}
  BY <1>1, BridgeAssumption DEF Tells, BridgeInv
<1>6. \A i \in DOMAIN brQueue' :
        /\ brQueue'[i].op \in {"close", "modify"} => brQueue'[i].ticket \in clKnown
        /\ brQueue'[i].op = "modify" => brQueue'[i].ticket \in bkOff
  BY <1>1, <1>3 DEF BridgeInv
<1> QED  BY <1>1, <1>2, <1>3, <1>4, <1>5, <1>6 DEF BridgeInv

LEMMA ServeKeeps ==
    ASSUME BridgeInv, NativelyAsked, NEW answered \in BOOLEAN,
           \/ ServeConnect(answered) \/ ServeDisconnect(answered) \/ ServeHealth(answered) \/ ServePositions(answered)
           \/ \E accepted \in BOOLEAN :
                ServeOpen(answered, accepted) \/ ServeClose(answered, accepted) \/ ServeModify(answered, accepted)
    PROVE  BridgeInv'
<1> USE DEF NativelyAsked
<1>1. Tells(answered) /\ brQueue # <<>>
  BY DEF ServeConnect, ServeDisconnect, ServeHealth, ServePositions, ServeOpen, ServeClose, ServeModify, Serving
<1>2. CASE ServeConnect(answered) \/ ServeDisconnect(answered) \/ ServeHealth(answered) \/ ServePositions(answered)
  <2>1. UNCHANGED <<brKind, brUp, brNext, brOpen, brLevels, clKnown, clClosed, bkLevels, bkOff>>
    BY <1>2 DEF ServeConnect, ServeDisconnect, ServeHealth, ServePositions, terminalVars
  <2>2. brFlag' \in BOOLEAN /\ clHeard' \in BOOLEAN /\ clTries' \in 0 .. ConnectTries
    <3>1. 0 \in 0 .. ConnectTries
      BY BridgeAssumption
    <3>2. CASE ServeConnect(answered)
      BY <3>1, <3>2 DEF ServeConnect, BridgeInv
    <3>3. CASE ServeDisconnect(answered)
      BY <3>3 DEF ServeDisconnect, BridgeInv
    <3>4. CASE ServeHealth(answered)
      BY <3>4 DEF ServeHealth, BridgeInv, terminalVars
    <3>5. CASE ServePositions(answered)
      BY <3>5 DEF ServePositions, BridgeInv, terminalVars
    <3> QED  BY <1>2, <3>2, <3>3, <3>4, <3>5
  <2> QED  BY <1>1, <2>1, <2>2, ServedLeaves DEF BridgeInv, LevelsAgree
<1>3. ASSUME NEW accepted \in BOOLEAN, ServeOpen(answered, accepted) PROVE BridgeInv'
  <2>1. CASE accepted
    <3> PICK levels \in PricePair : levels = Head(brQueue).levels
      BY <1>1, ServedLeaves
    <3>1. /\ brNext <= MaxTickets /\ brOpen' = brOpen \cup {brNext} /\ brNext' = brNext + 1
          /\ brLevels' = [brLevels EXCEPT ![brNext] = levels] /\ UNCHANGED <<brKind, brUp, brFlag>>
          /\ clKnown' = IF answered THEN clKnown \cup {brNext} ELSE clKnown
          /\ bkLevels' = IF answered THEN [bkLevels EXCEPT ![brNext] = levels] ELSE bkLevels
          /\ UNCHANGED <<clTries, clClosed, clHeard, bkOff>>
      BY <1>3, <2>1 DEF ServeOpen, Opens
    <3>2. brNext \in AllTickets /\ brNext' \in 1 .. MaxTickets + 1 /\ brNext \notin clKnown /\ brNext \notin brOpen
      BY <3>1, BridgeAssumption DEF BridgeInv, AllTickets
    <3>3. brLevels' \in [AllTickets -> PricePair] /\ bkLevels' \in [AllTickets -> PricePair]
      BY <3>1, <3>2 DEF BridgeInv
    <3>4. brOpen' \subseteq 1 .. brNext' - 1 /\ clKnown' \subseteq 1 .. brNext' - 1
      <4>1. brNext \in Nat /\ brNext' = brNext + 1
        BY <3>1, BridgeAssumption DEF BridgeInv
      <4>2. 1 .. brNext - 1 \subseteq 1 .. brNext' - 1 /\ brNext \in 1 .. brNext' - 1
        BY <4>1, <3>2, BridgeAssumption DEF AllTickets
      <4> QED  BY <3>1, <4>2 DEF BridgeInv
    <3>5. LevelsAgree'
      <4> SUFFICES ASSUME NEW t \in (clKnown' \cap brOpen') \ bkOff' PROVE bkLevels'[t] = brLevels'[t]
        BY DEF LevelsAgree
      <4>1. t \in AllTickets
        BY <3>1, <3>2, BridgeAssumption DEF BridgeInv, AllTickets
      <4>2. CASE t = brNext
        BY <3>1, <3>2, <4>2 DEF BridgeInv
      <4>3. CASE t # brNext
        BY <3>1, <3>2, <4>1, <4>3 DEF BridgeInv, LevelsAgree
      <4> QED  BY <4>2, <4>3
    <3>6. clKnown \subseteq clKnown'
      BY <3>1
    <3> QED  BY <1>1, <3>1, <3>2, <3>3, <3>4, <3>5, <3>6, ServedLeaves DEF BridgeInv
  <2>2. CASE ~accepted
    <3>1. UNCHANGED <<terminalVars, clTries, clKnown, clClosed, clHeard, bkLevels, bkOff>>
      BY <1>3, <2>2 DEF ServeOpen
    <3> QED  BY <1>1, <3>1, ServedLeaves DEF BridgeInv, LevelsAgree, terminalVars
  <2> QED  BY <2>1, <2>2
<1>4. ASSUME NEW accepted \in BOOLEAN, ServeClose(answered, accepted) PROVE BridgeInv'
  <2>1. /\ UNCHANGED <<brKind, brUp, brFlag, brNext, brLevels, clTries, clKnown, clHeard, bkLevels, bkOff>>
        /\ brOpen' \subseteq brOpen /\ clClosed' \subseteq clClosed \cup {Head(brQueue).ticket}
        /\ Head(brQueue).op = "close"
    BY <1>4 DEF ServeClose, Closes, terminalVars, Serving
  <2> QED  BY <1>1, <2>1, ServedLeaves DEF BridgeInv, LevelsAgree
<1>5. ASSUME NEW accepted \in BOOLEAN, ServeModify(answered, accepted) PROVE BridgeInv'
  <2> PICK t \in Nat, levels \in PricePair : t = Head(brQueue).ticket /\ levels = Head(brQueue).levels
    BY <1>1, ServedLeaves
  <2>1. t \in clKnown /\ t \in bkOff
    BY <1>1, <1>5, ServedLeaves DEF ServeModify, Serving
  <2>2. t \in AllTickets
    BY <2>1, BridgeAssumption DEF BridgeInv, AllTickets
  <2>3. /\ IF accepted THEN brLevels' = [brLevels EXCEPT ![t] = levels] ELSE brLevels' = brLevels
        /\ UNCHANGED <<brKind, brUp, brFlag, brNext, brOpen, clTries, clKnown, clClosed, clHeard>>
        /\ bkLevels' = IF answered THEN [bkLevels EXCEPT ![t] = Believed(t, levels)] ELSE bkLevels
        /\ bkOff' = IF answered /\ accepted /\ levels.sl # 0 /\ levels.tp # 0 THEN bkOff \ {t} ELSE bkOff
    BY <1>5 DEF ServeModify, Modifies, terminalVars
  <2>4. Believed(t, levels) \in PricePair
    BY <2>2 DEF Believed, PricePair, BridgeInv
  <2>5. levels.sl # 0 /\ levels.tp # 0 => Believed(t, levels) = levels
    BY DEF Believed, PricePair
  <2>6. brLevels' \in [AllTickets -> PricePair] /\ bkLevels' \in [AllTickets -> PricePair]
    BY <2>2, <2>3, <2>4 DEF BridgeInv
  <2>7. LevelsAgree'
    <3> SUFFICES ASSUME NEW u \in (clKnown' \cap brOpen') \ bkOff' PROVE bkLevels'[u] = brLevels'[u]
      BY DEF LevelsAgree
    <3>1. u \in AllTickets
      BY <2>3, BridgeAssumption DEF BridgeInv, AllTickets
    <3>2. CASE u = t
      BY <2>1, <2>2, <2>3, <2>5, <3>2 DEF BridgeInv
    <3>3. CASE u # t
      BY <2>2, <2>3, <3>1, <3>3 DEF BridgeInv, LevelsAgree
    <3> QED  BY <3>2, <3>3
  <2>8. \A i \in DOMAIN brQueue' :
          /\ brQueue'[i].op \in {"close", "modify"} => brQueue'[i].ticket \in clKnown'
          /\ brQueue'[i].op = "modify" => brQueue'[i].ticket \in bkOff'
    BY <1>1, <2>3, ServedLeaves
  <2>9. bkOff' \subseteq clKnown'
    BY <2>3 DEF BridgeInv
  <2> QED  BY <1>1, <2>3, <2>6, <2>7, <2>8, <2>9, ServedLeaves DEF BridgeInv
<1> QED  BY <1>2, <1>3, <1>4, <1>5

LEMMA BridgeKeeps ==
    ASSUME BridgeInv, NativelyAsked, [BridgeNext]_bridgeVars
    PROVE  BridgeInv'
<1>1. ASSUME NEW levels \in PricePair, DirectOpen(levels) PROVE BridgeInv'
  <2>1. clKnown = {}
    BY <1>1 DEF DirectOpen, NativelyAsked, NativeInv
  <2>2. /\ brNext <= MaxTickets /\ brOpen' = brOpen \cup {brNext} /\ brNext' = brNext + 1
        /\ brLevels' = [brLevels EXCEPT ![brNext] = levels] /\ UNCHANGED <<brKind, brUp, brFlag>>
        /\ UNCHANGED <<brQueue, clWaits, clientVars>>
    BY <1>1 DEF DirectOpen, Opens
  <2>3. /\ brNext' \in 1 .. MaxTickets + 1 /\ brOpen' \subseteq 1 .. brNext' - 1
        /\ clKnown' \subseteq 1 .. brNext' - 1
    BY <2>1, <2>2, BridgeAssumption DEF BridgeInv, clientVars
  <2>4. brLevels' \in [AllTickets -> PricePair]
    BY <2>2 DEF BridgeInv
  <2> QED  BY <2>1, <2>2, <2>3, <2>4 DEF BridgeInv, LevelsAgree, clientVars
<1>2. ASSUME NEW t \in AllTickets, DirectClose(t) \/ TerminalCloses(t) PROVE BridgeInv'
  BY <1>2 DEF DirectClose, TerminalCloses, Closes, BridgeInv, LevelsAgree, clientVars
<1>3. ASSUME NEW t \in AllTickets, NEW named \in SUBSET {"sl", "tp"}, DirectModify(t, named) PROVE BridgeInv'
  <2> PICK levels \in PricePair : Modifies(t, levels)
    BY <1>3 DEF DirectModify
  <2>1. clKnown = {}
    BY <1>3 DEF DirectModify, NativelyAsked, NativeInv
  <2>2. brLevels' \in [AllTickets -> PricePair]
    BY DEF Modifies, BridgeInv
  <2> QED  BY <1>3, <2>1, <2>2 DEF DirectModify, Modifies, BridgeInv, LevelsAgree, clientVars
<1>4. CASE GiveUp
  BY <1>4 DEF GiveUp, BridgeInv, LevelsAgree, terminalVars
<1>5. CASE TerminalTurns
  BY <1>5 DEF TerminalTurns, BridgeInv, LevelsAgree, clientVars
<1>6. CASE UNCHANGED bridgeVars
  BY <1>6 DEF bridgeVars, BridgeInv, LevelsAgree, terminalVars, clientVars
<1> QED  BY <1>1, <1>2, <1>3, <1>4, <1>5, <1>6, SendKeeps, ServeKeeps DEF BridgeNext, NativelyAsked

\* The levels the book holds of an open position are the terminal's, unless a change of them
\* named one only, was refused or not answered; what is closed was known, what is known was
\* opened (mcp_integration/services.py:185-297, trading/services.py:384-408).
THEOREM BridgeTypes == BridgeSpec => []BridgeTypeOK
<1>1. BridgeInv /\ NativelyAsked => BridgeTypeOK
  BY DEF BridgeInv, NativelyAsked, NativeInv, NativeTradesNothing, BridgeTypeOK, Asked
<1>2. BridgeInv /\ NativelyAsked /\ [BridgeNext]_bridgeVars => (BridgeInv /\ NativelyAsked)'
  BY BridgeKeeps, NativeKeeps
<1> QED  BY <1>1, <1>2, BridgeStarts, NativeStarts, PTL DEF BridgeSpec

-----------------------------------------------------------------------------
(* The whole state of a user, and what is reported of the trading accounts.*)

Confirmed == {TRUE}

\* No device is ever unconfirmed; a sign-in under way has loaded the row.
UserInv ==
    /\ acLoaded \in [Requests -> UserRows \union {NoRow}]
    /\ \A r \in acAnonymous : acLoaded[r] # NoRow
    /\ acDevices \in Seq(Confirmed)
    /\ acSessions \in 0 .. MaxSessions /\ acRefresh \in 0 .. MaxSessions /\ acAccess \in BOOLEAN

ScalingInv ==
    /\ DOMAIN acAccounts \subseteq Logins
    /\ \A l \in DOMAIN acAccounts : acAccounts[l].balance \in Int
    /\ acReport \in Nat

\* Every device is confirmed, so the first confirmed one is the first, and none is unconfirmed.
LEMMA FirstDevice ==
    ASSUME acDevices \in Seq(Confirmed)
    PROVE  FirstWith(FALSE) = 0 /\ (FirstWith(TRUE) # 0 => FirstWith(TRUE) = 1 /\ Len(acDevices) >= 1)
<1> DEFINE I(c) == {i \in 1 .. Len(acDevices) : acDevices[i] = c}
<1>1. \A i \in 1 .. Len(acDevices) : acDevices[i] = TRUE
  <2>1. \A i \in 1 .. Len(acDevices) : acDevices[i] \in Confirmed
    OBVIOUS
  <2> QED  BY <2>1, Zenon DEF Confirmed
<1>2. I(FALSE) = {} /\ I(TRUE) = 1 .. Len(acDevices)
  BY <1>1, Zenon
<1>3. \A c \in BOOLEAN : FirstWith(c) = IF I(c) # {} THEN Min(I(c)) ELSE 0
  BY DEF FirstWith, SelectInSeq
<1>4. FirstWith(FALSE) = 0
  BY <1>2, <1>3
<1>5. ASSUME FirstWith(TRUE) # 0 PROVE FirstWith(TRUE) = 1 /\ Len(acDevices) >= 1
  <2>1. I(TRUE) # {} /\ FirstWith(TRUE) = Min(1 .. Len(acDevices))
    BY <1>2, <1>3, <1>5
  <2>2. Len(acDevices) \in Nat /\ Len(acDevices) >= 1
    BY <1>2, <2>1
  <2>3. Min(1 .. Len(acDevices)) = CHOOSE x \in 1 .. Len(acDevices) : \A y \in 1 .. Len(acDevices) : x <= y
    BY DEF Min
  <2>4. 1 \in 1 .. Len(acDevices) /\ \A y \in 1 .. Len(acDevices) : 1 <= y
    BY <2>2
  <2>5. \A x \in 1 .. Len(acDevices) : (\A y \in 1 .. Len(acDevices) : x <= y) => x = 1
    BY <2>4
  <2> QED  BY <2>1, <2>2, <2>3, <2>4, <2>5
<1> QED  BY <1>4, <1>5

\* One session or token more, up to the bound.
LEMMA OneMore ==
    ASSUME NEW n \in 0 .. MaxSessions
    PROVE  Min({n + 1, MaxSessions}) \in 0 .. MaxSessions
<1>1. Min({n + 1, MaxSessions}) = IF n + 1 <= MaxSessions THEN n + 1 ELSE MaxSessions
  BY AccountsAssumption DEF Min
<1> QED  BY <1>1, AccountsAssumption

LEMMA UsersStart == AcInit => UserInv /\ ScalingInv
<1> SUFFICES ASSUME AcInit PROVE UserInv /\ ScalingInv  OBVIOUS
<1>1. acLoaded \in [Requests -> UserRows \union {NoRow}] /\ acAnonymous = {}
  BY DEF AcInit
<1>2. acDevices \in Seq(Confirmed) /\ acSessions \in 0 .. MaxSessions /\ acRefresh \in 0 .. MaxSessions
  BY AccountsAssumption DEF AcInit
<1>3. acAccess \in BOOLEAN
  BY DEF AcInit
<1>4. ScalingInv
  BY DEF AcInit, ScalingInv
<1> QED  BY <1>1, <1>2, <1>3, <1>4 DEF UserInv

\* A request that ends forgets the row it loaded.
LEMMA EndForgets ==
    ASSUME UserInv, NEW r \in Requests, Ends(r)
    PROVE  /\ acLoaded' \in [Requests -> UserRows \union {NoRow}]
           /\ \A s \in acAnonymous' : acLoaded'[s] # NoRow
BY DEF UserInv, Ends

LEMMA UsersKeep ==
    ASSUME RowInv, UserInv, UserNext
    PROVE  UserInv'
<1>1. ASSUME NEW r \in Requests, BeginLogin(r) \/ BeginRequest(r) PROVE UserInv'
  <2>1. /\ acLoaded' = [acLoaded EXCEPT ![r] = acRow] /\ acAnonymous' \subseteq acAnonymous \union {r}
        /\ UNCHANGED <<acDevices, acSessions, acRefresh, acAccess>>
    BY <1>1 DEF BeginLogin, BeginRequest
  <2>2. acRow \in UserRows /\ acRow # NoRow
    BY NoRowAssumption DEF RowInv, Locked
  <2>3. /\ acLoaded' \in [Requests -> UserRows \union {NoRow}]
        /\ \A s \in acAnonymous' : acLoaded'[s] # NoRow
    BY <2>1, <2>2 DEF UserInv, RowInv
  <2> QED  BY <2>1, <2>3 DEF UserInv
<1>2. ASSUME NEW r \in Requests, Ends(r), UNCHANGED <<acDevices, acSessions, acRefresh, acAccess>>
      PROVE  UserInv'
  BY <1>2, EndForgets DEF UserInv
<1>3. ASSUME NEW r \in Requests,
             \/ WrongPassword(r) \/ RefuseCode(r) \/ EnrollMfa(r) \/ VerifyMfa(r)
             \/ \E mfa \in BOOLEAN : SaveProfile(r, mfa)
             \/ \E p \in Passwords : ChangePassword(r, p)
      PROVE  UserInv'
  BY <1>2, <1>3 DEF WrongPassword, RefuseCode, EnrollMfa, VerifyMfa, SaveProfile, ChangePassword
<1>4. ASSUME NEW r \in Requests, SignIn(r) PROVE UserInv'
  <2>1. /\ acSessions' = Min({acSessions + 1, MaxSessions}) /\ acRefresh' = Min({acRefresh + 1, MaxSessions})
        /\ UNCHANGED acDevices /\ Ends(r)
    BY <1>4 DEF SignIn
  <2>2. acSessions' \in 0 .. MaxSessions /\ acRefresh' \in 0 .. MaxSessions
    BY <2>1, OneMore DEF UserInv
  <2>3. acAccess' \in BOOLEAN
    BY <1>4 DEF SignIn
  <2> QED  BY <2>1, <2>2, <2>3, EndForgets DEF UserInv
<1>5. ASSUME NEW r \in Requests, CreateDevice(r) \/ ConfirmDevice(r) \/ DisableMfa(r) PROVE UserInv'
  <2>1. Ends(r) /\ UNCHANGED <<acSessions, acRefresh, acAccess>>
    BY <1>5 DEF CreateDevice, ConfirmDevice, DisableMfa
  <2>2. acDevices \in Seq(Confirmed)
    BY DEF UserInv
  <2>3. CASE CreateDevice(r)
    <3>1. acDevices' = Append(acDevices, TRUE) /\ TRUE \in Confirmed
      BY <2>3, Zenon DEF CreateDevice, Confirmed
    <3>2. \A x \in Confirmed : Append(acDevices, x) \in Seq(Confirmed)
      BY <2>2
    <3>3. acDevices' \in Seq(Confirmed)
      BY <3>1, <3>2, Zenon
    <3> QED  BY <2>1, <3>3, EndForgets DEF UserInv
  <2>4. CASE ConfirmDevice(r)
    <3>1. acDevices' = acDevices
      BY <2>2, <2>4, FirstDevice DEF ConfirmDevice
    <3> QED  BY <2>1, <3>1, EndForgets DEF UserInv
  <2>5. CASE DisableMfa(r)
    <3>1. FirstWith(TRUE) = 1 /\ Len(acDevices) >= 1
      BY <2>2, <2>5, FirstDevice DEF DisableMfa
    <3>2. acDevices' = SubSeq(acDevices, 1, 1 - 1) \o SubSeq(acDevices, 1 + 1, Len(acDevices))
      BY <2>5, <3>1, Zenon DEF DisableMfa
    <3>3. SubSeq(acDevices, 1, 1 - 1) \in Seq(Confirmed) /\ SubSeq(acDevices, 1 + 1, Len(acDevices)) \in Seq(Confirmed)
      BY <2>2
    <3>4. acDevices' \in Seq(Confirmed)
      BY <3>2, <3>3
    <3> QED  BY <2>1, <3>4, EndForgets DEF UserInv
  <2> QED  BY <1>5, <2>3, <2>4, <2>5
<1>6. ASSUME NEW r \in Requests, Logout(r) \/ DeleteSession(r) PROVE UserInv'
  <2>1. Ends(r) /\ UNCHANGED <<acDevices, acAccess>>
    BY <1>6 DEF Logout, DeleteSession
  <2>2. acSessions' \in 0 .. MaxSessions /\ acRefresh' \in 0 .. MaxSessions
    BY <1>6, AccountsAssumption DEF Logout, DeleteSession, UserInv
  <2> QED  BY <2>1, <2>2, EndForgets DEF UserInv
<1>7. CASE AccessExpires \/ RefreshAccess \/ LockTime
  <2>1. UNCHANGED <<acLoaded, acAnonymous, acDevices, acSessions, acRefresh>>
    BY <1>7 DEF AccessExpires, RefreshAccess, LockTime
  <2>2. acAccess' \in BOOLEAN
    BY <1>7 DEF AccessExpires, RefreshAccess, LockTime, UserInv
  <2> QED  BY <2>1, <2>2 DEF UserInv
<1> QED  BY <1>1, <1>3, <1>4, <1>5, <1>6, <1>7 DEF UserNext

\* What is distributed is shared by the secondary accounts there are.
LEMMA ScalingKeeps ==
    ASSUME ScalingInv, ScalingNext
    PROVE  ScalingInv'
<1>1. ASSUME NEW l \in Logins, NEW type, NEW primary, CreateAccount(l, type, primary) PROVE ScalingInv'
  BY <1>1 DEF CreateAccount, ScalingInv
<1>2. ASSUME NEW l \in DOMAIN acAccounts, NEW b \in Balances \union {0, acAccounts[l].balance}, CheckAndScale(l, b)
      PROVE  ScalingInv'
  <2>1. b \in Int
    <3>1. acAccounts[l].balance \in Int
      BY DEF ScalingInv
    <3>2. Balances \subseteq Int
      BY AccountsAssumption
    <3>3. b \in Balances \/ b = 0 \/ b = acAccounts[l].balance
      BY Zenon
    <3>4. CASE b \in Balances
      BY <3>2, <3>4, Zenon
    <3>5. CASE b = 0
      BY <3>5
    <3>6. CASE b = acAccounts[l].balance
      BY <3>1, <3>6, Zenon
    <3> QED  BY <3>3, <3>4, <3>5, <3>6, Zenon
  <2>2. DistributionAmount(b) \in Nat
    <3>1. CASE NeedsScaling(b) /\ b > KeptBalance
      <4>1. b - KeptBalance \in Nat
        BY <2>1, <3>1, AccountsAssumption
      <4>2. (b - KeptBalance) * DistributionPct \in Nat
        BY <4>1, AccountsAssumption
      <4>3. \A n \in Nat : n \div 100 \in Nat
        OBVIOUS
      <4> QED  BY <3>1, <4>2, <4>3 DEF DistributionAmount
    <3>2. CASE ~(NeedsScaling(b) /\ b > KeptBalance)
      BY <3>2 DEF DistributionAmount
    <3> QED  BY <3>1, <3>2
  <2>3. IsFiniteSet(Secondaries)
    <3>1. Secondaries \subseteq Logins
      BY DEF Secondaries, ScalingInv
    <3> QED  BY <3>1, AccountsAssumption, FS_Subset
  <2>4. acReport' \in Nat
    <3>1. CASE Secondaries = {}
      BY <1>2, <3>1 DEF CheckAndScale
    <3>2. CASE Secondaries # {}
      <4>1. Cardinality(Secondaries) \in Nat /\ Cardinality(Secondaries) # 0
        BY <2>3, <3>2, FS_CardinalityType, FS_EmptySet
      <4>2. acReport' = DistributionAmount(b) \div Cardinality(Secondaries)
        BY <1>2, <3>2 DEF CheckAndScale
      <4>3. \A n \in Nat, k \in Nat \ {0} : n \div k \in Nat
        OBVIOUS
      <4> QED  BY <2>2, <4>1, <4>2, <4>3
    <3> QED  BY <3>1, <3>2
  <2>5. acAccounts' = [acAccounts EXCEPT ![l].balance = b]
    BY <1>2 DEF CheckAndScale
  <2>6. \A m \in DOMAIN acAccounts' : acAccounts'[m].balance \in Int
    BY <2>1, <2>5 DEF ScalingInv
  <2> QED  BY <2>4, <2>5, <2>6 DEF ScalingInv
<1> QED  BY <1>1, <1>2 DEF ScalingNext

\* The row and its loaded copies keep their types, no sign-in is without one, a device is
\* confirmed from its creation, and what is reported to be distributed is never negative,
\* in any order of requests (accounts/views.py, serializers.py and multi_account_manager.py).
THEOREM AccountTypes == AcSpec => []AcTypeOK
<1> DEFINE Inv == RowInv /\ UserInv /\ ScalingInv
<1>1. AcInit => Inv
  BY UsersStart, RowsStart
<1>2. Inv /\ [AcNext]_acVars => Inv'
  <2> SUFFICES ASSUME Inv, [AcNext]_acVars PROVE Inv'
    OBVIOUS
  <2>1. RowInv'
    BY RowsKeep
  <2>2. CASE UserNext
    <3>1. UNCHANGED scalingVars
      BY <2>2 DEF UserNext, BeginLogin, BeginRequest, WrongPassword, RefuseCode, SignIn, SaveProfile, ChangePassword,
                  CreateDevice, ConfirmDevice, DisableMfa, EnrollMfa, VerifyMfa, Logout, DeleteSession, AccessExpires,
                  RefreshAccess, LockTime, Ends
    <3>2. ScalingInv'
      BY <3>1 DEF scalingVars, ScalingInv
    <3> QED  BY <2>1, <2>2, <3>2, UsersKeep
  <2>3. CASE ScalingNext
    <3>1. UNCHANGED userVars
      BY <2>3 DEF ScalingNext, CreateAccount, CheckAndScale
    <3>2. UserInv'
      BY <3>1 DEF userVars, UserInv
    <3> QED  BY <2>1, <2>3, <3>2, ScalingKeeps
  <2>4. CASE UNCHANGED acVars
    <3>1. UNCHANGED userVars /\ UNCHANGED scalingVars
      BY <2>4 DEF acVars
    <3> QED  BY <2>1, <3>1 DEF userVars, scalingVars, UserInv, ScalingInv
  <2> QED  BY <2>2, <2>3, <2>4 DEF AcNext
<1>3. Inv => AcTypeOK
  <2> SUFFICES ASSUME Inv PROVE AcTypeOK
    OBVIOUS
  <2>1. \A d \in DOMAIN acDevices : acDevices[d] = TRUE
    <3>1. \A d \in DOMAIN acDevices : acDevices[d] \in Confirmed
      BY DEF UserInv
    <3> QED  BY <3>1, Zenon DEF Confirmed
  <2> QED  BY <2>1 DEF AcTypeOK, RowInv, Locked, UserInv, ScalingInv
<1> QED  BY <1>1, <1>2, <1>3, PTL DEF AcSpec

-----------------------------------------------------------------------------
(* The whole state of a training: environment, phases and networks.        *)

\* An episode in progress has a row after the present one, and the phases count the
\* episodes that are finished.
TrainingInv ==
    /\ rlPhase \in {"idle", "reset", "step", "update", "scored", "saved", "raised"}
    /\ rlAgent \in Agents /\ rlTest \in BOOLEAN /\ rlSaved \subseteq Agents
    /\ rlEpisode \in Nat /\ (rlEpisode <= Episodes \/ rlEpisode <= EvalEpisodes)
    /\ rlPhase = "update" => ~rlTest
    /\ rlPhase \in {"reset", "step", "update"} =>
         /\ rlTest => Rows - TrainRows >= 2 /\ rlEpisode < EvalEpisodes
         /\ ~rlTest => TrainRows >= 2 /\ rlEpisode < Episodes

EnvInv ==
    /\ rlData \in [0 .. Rows - 1 -> Nat \ {0}]
    /\ rlBalance \in Int /\ rlPosition \in -MaxUnits .. MaxUnits
    /\ rlStep \in 0 .. Rows - 1
    /\ rlPhase = "step" => rlStep < RowsOf(rlTest) - 1

\* The target was copied at a multiple of its frequency, and nothing is collected for DQN.
NetInv ==
    /\ rlMemory \in 0 .. ReplayCapacity
    /\ rlNet \in Nat /\ rlTarget \in Nat /\ rlTarget <= rlNet
    /\ rlAgent = "dqn" => /\ rlRollout = <<>>
                          /\ rlNet - rlTarget < TargetFreq /\ rlTarget % TargetFreq = 0

LEMMA SmallerInt ==
    ASSUME NEW a \in Int, NEW b \in Int
    PROVE  /\ Min({a, b}) = IF a <= b THEN a ELSE b
           /\ Max({a, b}) = IF a >= b THEN a ELSE b
BY DEF Min, Max

LEMMA MultipleOf ==
    ASSUME NEW F \in Nat \ {0}, NEW k \in Nat
    PROVE  (F * k) % F = 0
  OBVIOUS

\* The next multiple is a frequency further.
LEMMA NextMultiple ==
    ASSUME NEW F \in Nat \ {0}, NEW t \in Nat, t % F = 0
    PROVE  (t + F) % F = 0
<1>1. PICK k \in Nat : t = F * k
  OBVIOUS
<1>2. PICK m \in Nat : m = k + 1
  OBVIOUS
<1>3. t + F = F * m
  BY <1>1, <1>2
<1>4. (F * m) % F = 0
  BY MultipleOf
<1> QED  BY <1>3, <1>4

LEMMA RowsAreSplit == \A test \in BOOLEAN :
    /\ RowsOf(test) \in Int /\ RowsOf(test) <= Rows
    /\ (IF test THEN TrainRows ELSE 0) + RowsOf(test) <= Rows
BY RlAssumption DEF RowsOf

\* Where an episode ends: the length does not end it, the last row does.
LEMMA DoneAtTheLast ==
    ASSUME rlTest \in BOOLEAN, NEW step \in Int
    PROVE  Done(step) <=> step >= RowsOf(rlTest) - 1
<1>1. RowsOf(rlTest) \in Int
  BY RowsAreSplit
<1>2. PICK a, b \in Int : a = RowsOf(rlTest) - 1 /\ b = step + EpisodeLength
  BY <1>1, RlAssumption
<1>3. Min({a, b}) = IF a <= b THEN a ELSE b
  BY SmallerInt
<1>4. b > step
  BY <1>2, RlAssumption
<1>5. Done(step) <=> step >= Min({a, b})
  BY <1>2, Zenon DEF Done
<1>6. step >= Min({a, b}) <=> step >= a
  BY <1>3, <1>4
<1> QED  BY <1>2, <1>5, <1>6

\* A trade leaves a whole balance, and no more units than the most on either side.
LEMMA AccountIsWhole ==
    ASSUME EnvInv, TrainingInv, rlPhase = "step", NEW action \in Actions
    PROVE  Account(action).balance \in Int /\ Account(action).position \in -MaxUnits .. MaxUnits
<1>1. PICK price \in Nat \ {0} : price = Close
  <2>1. FirstRow + rlStep \in 0 .. Rows - 1
    <3>1. rlTest \in BOOLEAN /\ rlStep \in Nat /\ rlStep < RowsOf(rlTest) - 1
      BY DEF EnvInv, TrainingInv
    <3> QED  BY <3>1, RlAssumption DEF FirstRow, RowsOf
  <2> QED  BY <2>1 DEF Close, EnvInv
<1>2. rlBalance \in Int /\ rlPosition \in Int /\ rlPosition \in -MaxUnits .. MaxUnits
  BY RlAssumption DEF EnvInv
<1>3. CASE ~Trades(action)
  BY <1>2, <1>3 DEF Account
<1>4. CASE Trades(action)
  <2> DEFINE closed == rlBalance + rlPosition * Close
             units == Max({0, Units(closed, Close)})
             side == IF action = "BUY" THEN units ELSE -units
  <2>1. closed \in Int
    BY <1>1, <1>2
  <2>2. units \in 0 .. MaxUnits
    <3>1. PICK room \in Int : room = (closed * SizePercent) \div (100 * price)
      <4>1. closed * SizePercent \in Int /\ 100 * price \in Nat \ {0}
        BY <1>1, <2>1, RlAssumption
      <4>2. \A a \in Int, b \in Nat \ {0} : a \div b \in Int
        OBVIOUS
      <4> QED  BY <4>1, <4>2
    <3>2. Units(closed, Close) = Min({MaxUnits, room})
      BY <1>1, <3>1 DEF Units
    <3>3. Min({MaxUnits, room}) \in Int /\ Min({MaxUnits, room}) <= MaxUnits
      BY <3>1, SmallerInt, RlAssumption
    <3>4. PICK u \in Int : u = Units(closed, Close) /\ u <= MaxUnits
      BY <3>2, <3>3
    <3>5. units = IF 0 >= u THEN 0 ELSE u
      <4>1. units = Max({0, u})
        BY <3>4, Zenon
      <4>2. Max({0, u}) = IF 0 >= u THEN 0 ELSE u
        <5>1. 0 \in Int /\ u \in Int
          OBVIOUS
        <5> QED  BY <5>1, SmallerInt, Zenon
      <4> QED  BY <4>1, <4>2, Zenon
    <3> QED  BY <3>4, <3>5, RlAssumption
  <2>3. Account(action) = [balance |-> closed - side * Close, position |-> side,
                           entry |-> IF units > 0 THEN Close ELSE rlEntry]
    BY <1>4 DEF Account
  <2> HIDE DEF closed, units
  <2>4. side \in -MaxUnits .. MaxUnits /\ side \in Int
    BY <2>2, RlAssumption
  <2> HIDE DEF side
  <2>5. closed - side * Close \in Int
    BY <1>1, <2>1, <2>4
  <2> QED  BY <2>3, <2>4, <2>5
<1> QED  BY <1>3, <1>4

LEMMA StepMoves ==
    ASSUME EnvInv, TrainingInv, rlPhase = "step", NEW action \in Actions, StepEnv(action), UNCHANGED <<rlData, rlTest>>
    PROVE  /\ rlData' \in [0 .. Rows - 1 -> Nat \ {0}]
           /\ rlBalance' \in Int /\ rlPosition' \in -MaxUnits .. MaxUnits
           /\ rlStep' \in 0 .. Rows - 1
           /\ ~Done(rlStep') => rlStep' < RowsOf(rlTest) - 1
<1>1. rlBalance' \in Int /\ rlPosition' \in -MaxUnits .. MaxUnits
  BY AccountIsWhole DEF StepEnv
<1>2. rlStep' = rlStep + 1 /\ rlStep \in Nat /\ rlStep < RowsOf(rlTest) - 1 /\ rlTest \in BOOLEAN
  BY DEF StepEnv, EnvInv, TrainingInv
<1>3. RowsOf(rlTest) \in Int /\ RowsOf(rlTest) <= Rows
  BY <1>2, RowsAreSplit
<1>4. ~Done(rlStep') => rlStep' < RowsOf(rlTest) - 1
  BY <1>2, <1>3, DoneAtTheLast
<1> QED  BY <1>1, <1>2, <1>3, <1>4, RlAssumption DEF EnvInv

LEMMA TrainingStarts == RlInit => TrainingInv /\ EnvInv /\ NetInv
<1> SUFFICES ASSUME RlInit PROVE TrainingInv /\ EnvInv /\ NetInv  OBVIOUS
<1>1. TrainingInv
  <2>1. rlTest \in BOOLEAN /\ ~rlTest
    BY DEF RlInit
  <2>2. rlPhase = "idle" /\ rlAgent = "dqn" /\ rlEpisode = 0 /\ rlSaved = {}
    BY DEF RlInit
  <2> QED  BY <2>1, <2>2, RlAssumption DEF TrainingInv, Agents
<1>2. rlData \in [0 .. Rows - 1 -> Nat \ {0}]
  BY RlAssumption DEF RlInit
<1>3. EnvInv
  BY <1>2, RlAssumption DEF RlInit, EnvInv
<1>4. 0 % TargetFreq = 0
  BY RlAssumption
<1> QED  BY <1>1, <1>3, <1>4, RlAssumption DEF RlInit, NetInv

\* A gradient step, and the copy of the target at every multiple of the frequency.
LEMMA ReplayKeeps ==
    ASSUME NetInv, Replay, rlAgent = "dqn", UNCHANGED <<rlAgent, rlRollout>>
    PROVE  NetInv'
<1> DEFINE F == TargetFreq
           net == rlNet'
<1>1. F \in Nat \ {0} /\ rlNet \in Nat /\ rlTarget \in Nat /\ rlTarget <= rlNet
      /\ rlNet - rlTarget < F /\ rlTarget % F = 0 /\ rlRollout = <<>>
  BY RlAssumption DEF NetInv
<1>2. net \in {rlNet, rlNet + 1} /\ rlTarget' = IF net > rlNet THEN SyncTarget(net) ELSE rlTarget
  BY DEF Replay
<1>3. rlMemory' \in 0 .. ReplayCapacity
  <2>1. rlMemory' = Min({ReplayCapacity, rlMemory + 1}) /\ rlMemory \in Nat
    BY DEF Replay, NetInv
  <2> QED  BY <2>1, SmallerInt, RlAssumption
<1>4. net \in Nat /\ rlTarget' \in Nat /\ rlTarget' <= net /\ net - rlTarget' < F /\ rlTarget' % F = 0
  <2>1. CASE net = rlNet
    BY <1>1, <1>2, <2>1
  <2>2. CASE net = rlNet + 1 /\ net % F = 0
    BY <1>1, <1>2, <2>2 DEF SyncTarget
  <2>3. CASE net = rlNet + 1 /\ net % F # 0
    <3>1. rlTarget' = rlTarget
      BY <1>1, <1>2, <2>3 DEF SyncTarget
    <3>2. (rlTarget + F) % F = 0
      BY <1>1, NextMultiple
    <3>3. net # rlTarget + F
      BY <2>3, <3>2
    <3> QED  BY <1>1, <2>3, <3>1, <3>3
  <2> QED  BY <1>2, <2>1, <2>2, <2>3
<1> QED  BY <1>1, <1>3, <1>4 DEF NetInv

LEMMA TrainingKeeps ==
    ASSUME RolloutInv, TrainingInv, EnvInv, NetInv, [RlNext]_rlVars
    PROVE  (TrainingInv /\ EnvInv /\ NetInv)'
<1> USE DEF Agents
<1>0. rlTest \in BOOLEAN /\ rlEpisode \in Nat /\ rlAgent \in Agents /\ rlSaved \subseteq Agents
  BY DEF TrainingInv
<1>1. ASSUME NEW agent \in Agents, TrainAgent(agent) PROVE (TrainingInv /\ EnvInv /\ NetInv)'
  <2>1. /\ rlAgent' = agent /\ rlEpisode' = 0 /\ rlSaved' = rlSaved
        /\ rlPhase' = IF RowsOf(FALSE) < 2 THEN "raised" ELSE "reset"
    BY <1>1 DEF TrainAgent
  <2>2. rlTest' \in BOOLEAN /\ ~rlTest'
    BY <1>1 DEF TrainAgent
  <2>3. TrainingInv'
    <3>1. RowsOf(FALSE) = TrainRows
      BY DEF RowsOf
    <3>2. rlPhase' = IF TrainRows < 2 THEN "raised" ELSE "reset"
      BY <2>1, <3>1, Zenon
    <3>3. rlPhase' \in {"raised", "reset"} /\ (rlPhase' = "reset" => TrainRows >= 2)
      BY <3>2, RlAssumption
    <3>4. rlAgent' \in Agents /\ rlEpisode' = 0 /\ rlSaved' \subseteq Agents
      BY <1>0, <2>1
    <3>5. 0 < Episodes /\ 0 <= Episodes
      BY RlAssumption
    <3> QED  BY <2>2, <3>3, <3>4, <3>5 DEF TrainingInv
  <2>4. EnvInv'
    <3>1. UNCHANGED <<rlData, rlBalance, rlPosition, rlStep>> /\ rlPhase' # "step"
      BY <1>1, <2>1 DEF TrainAgent, envVars
    <3> QED  BY <3>1 DEF EnvInv
  <2>5. NetInv'
    <3>1. rlMemory' = 0 /\ rlNet' = 0 /\ rlTarget' = 0 /\ rlRollout' = <<>>
      BY <1>1 DEF TrainAgent
    <3>2. 0 % TargetFreq = 0
      BY RlAssumption
    <3> QED  BY <3>1, <3>2, RlAssumption DEF NetInv
  <2> QED  BY <2>3, <2>4, <2>5
<1>2. CASE ResetEnv
  <2>1. /\ rlPhase = "reset" /\ rlPhase' = "step" /\ UNCHANGED <<rlData, rlAgent, rlTest, rlEpisode, rlSaved>>
        /\ rlStep' \in 0 .. Max({0, RowsOf(rlTest) - EpisodeLength - StartMargin})
        /\ rlBalance' = RlBalance0 /\ rlPosition' = 0
    BY <1>2 DEF ResetEnv
  <2>2. RowsOf(rlTest) >= 2 /\ RowsOf(rlTest) \in Int /\ RowsOf(rlTest) <= Rows
    BY <1>0, <2>1, RowsAreSplit DEF TrainingInv, RowsOf
  <2>3. rlStep' \in 0 .. Rows - 1 /\ rlStep' < RowsOf(rlTest) - 1
    <3>1. PICK room \in Int : room = RowsOf(rlTest) - EpisodeLength - StartMargin
      BY <2>2, RlAssumption
    <3>2. Max({0, room}) = IF 0 >= room THEN 0 ELSE room
      BY SmallerInt
    <3> QED  BY <2>1, <2>2, <3>1, <3>2, RlAssumption
  <2>4. EnvInv'
    BY <2>1, <2>3, RlAssumption DEF EnvInv, RowsOf
  <2>5. TrainingInv'
    BY <2>1 DEF TrainingInv, RowsOf
  <2>6. NetInv'
    BY <1>2 DEF ResetEnv, dqnVars, ppoVars, NetInv
  <2> QED  BY <2>4, <2>5, <2>6
<1>3. ASSUME NEW a \in Actions, DqnStep(a) PROVE (TrainingInv /\ EnvInv /\ NetInv)'
  <2>1. /\ rlPhase = "step" /\ ~rlTest /\ rlAgent = "dqn" /\ StepEnv(a) /\ Replay
        /\ rlPhase' = IF Done(rlStep') THEN "update" ELSE "step"
        /\ UNCHANGED <<rlData, rlAgent, rlTest, rlEpisode, rlRollout, rlSaved>>
    BY <1>3 DEF DqnStep, ppoVars
  <2>2. EnvInv'
    BY <2>1, StepMoves DEF EnvInv, RowsOf
  <2>3. TrainingInv'
    BY <2>1 DEF TrainingInv, RowsOf
  <2> QED  BY <2>1, <2>2, <2>3, ReplayKeeps
<1>4. ASSUME NEW a \in Actions, PpoStep(a) PROVE (TrainingInv /\ EnvInv /\ NetInv)'
  <2>1. /\ rlPhase = "step" /\ ~rlTest /\ rlAgent = "ppo" /\ StepEnv(a)
        /\ rlPhase' = IF Done(rlStep') THEN "update" ELSE "step"
        /\ UNCHANGED <<rlData, rlAgent, rlTest, rlEpisode, rlMemory, rlTarget, rlSaved>>
        /\ rlNet' \in {rlNet, rlNet + 1}
    BY <1>4 DEF PpoStep, dqnVars, Learn
  <2>2. EnvInv'
    BY <2>1, StepMoves DEF EnvInv, RowsOf
  <2>3. TrainingInv'
    BY <2>1 DEF TrainingInv, RowsOf
  <2>4. NetInv'
    BY <2>1 DEF NetInv
  <2> QED  BY <2>2, <2>3, <2>4
<1>5. ASSUME NEW a \in Actions, Evaluated(a) PROVE (TrainingInv /\ EnvInv /\ NetInv)'
  <2>1. /\ rlPhase = "step" /\ rlTest /\ StepEnv(a)
        /\ rlEpisode' = IF Done(rlStep') THEN rlEpisode + 1 ELSE rlEpisode
        /\ rlPhase' = IF ~Done(rlStep') THEN "step"
                      ELSE IF rlEpisode + 1 = EvalEpisodes THEN "scored" ELSE "reset"
        /\ UNCHANGED <<rlData, rlAgent, rlTest, rlMemory, rlTarget, rlRollout, rlNet, rlSaved>>
    BY <1>5 DEF Evaluated, dqnVars, ppoVars
  <2>2. EnvInv'
    BY <2>1, StepMoves DEF EnvInv, RowsOf
  <2>3. TrainingInv'
    <3>1. rlEpisode < EvalEpisodes /\ Rows - TrainRows >= 2
      BY <2>1 DEF TrainingInv
    <3>2. rlEpisode' \in Nat /\ rlEpisode' <= EvalEpisodes
          /\ (rlPhase' \in {"reset", "step"} => rlEpisode' < EvalEpisodes)
          /\ rlPhase' \in {"step", "scored", "reset"}
      BY <1>0, <2>1, <3>1, RlAssumption
    <3> QED  BY <1>0, <2>1, <3>1, <3>2 DEF TrainingInv, RowsOf
  <2>4. NetInv'
    BY <2>1 DEF NetInv
  <2> QED  BY <2>2, <2>3, <2>4
<1>6. CASE EndEpisode
  <2> DEFINE last == rlEpisode + 1 = Episodes
  <2>1. /\ rlPhase = "update" /\ rlEpisode' = IF last THEN 0 ELSE rlEpisode + 1
        /\ rlPhase' = IF last /\ RowsOf(TRUE) < 2 THEN "raised" ELSE "reset"
        /\ UNCHANGED <<rlData, rlAgent, rlSaved, rlMemory, rlTarget, rlBalance, rlPosition, rlStep>>
    BY <1>6 DEF EndEpisode, envVars, dqnVars
  <2>2. rlTest' = last
    BY <1>6 DEF EndEpisode
  <2>3. ~rlTest /\ rlEpisode < Episodes
    BY <2>1 DEF TrainingInv
  <2>4. RowsOf(TRUE) \in Int /\ RowsOf(FALSE) \in Int
    BY RowsAreSplit
  <2>5. TrainingInv'
    <3>1. rlAgent' \in Agents /\ rlSaved' \subseteq Agents /\ rlTest' \in BOOLEAN
      BY <1>0, <2>1, <2>2
    <3>2. CASE last
      <4>1. rlPhase' = IF Rows - TrainRows < 2 THEN "raised" ELSE "reset"
        BY <2>1, <3>2, Zenon DEF RowsOf
      <4>2. rlPhase' \in {"raised", "reset"} /\ (rlPhase' = "reset" => Rows - TrainRows >= 2)
        BY <4>1, RlAssumption
      <4>3. rlTest'
        BY <2>2, <3>2
      <4>4. rlEpisode' = 0 /\ 0 < EvalEpisodes /\ 0 <= EvalEpisodes
        BY <2>1, <3>2, RlAssumption
      <4> QED  BY <3>1, <4>2, <4>3, <4>4 DEF TrainingInv
    <3>3. CASE ~last
      <4>1. rlPhase' = "reset" /\ ~rlTest'
        BY <2>1, <2>2, <3>3
      <4>2. rlEpisode' = rlEpisode + 1 /\ rlEpisode' \in Nat /\ rlEpisode' < Episodes /\ rlEpisode' <= Episodes
        BY <1>0, <2>1, <2>3, <3>3, RlAssumption
      <4>3. TrainRows >= 2
        BY <2>1, <2>3 DEF TrainingInv
      <4> QED  BY <3>1, <4>1, <4>2, <4>3 DEF TrainingInv
    <3> QED  BY <3>2, <3>3
  <2>6. EnvInv'
    BY <2>1 DEF EnvInv
  <2>7. NetInv'
    <3>1. CASE rlAgent = "dqn"
      <4>1. UNCHANGED <<rlRollout, rlNet>>
        BY <1>6, <3>1 DEF EndEpisode, NetInv
      <4> QED  BY <2>1, <4>1 DEF NetInv
    <3>2. CASE rlAgent # "dqn"
      <4>1. rlNet' \in {rlNet, rlNet + 1}
        BY <1>6 DEF EndEpisode, Learn
      <4> QED  BY <2>1, <3>2, <4>1 DEF NetInv
    <3> QED  BY <3>1, <3>2
  <2> QED  BY <2>5, <2>6, <2>7
<1>7. CASE SaveAgent
  <2>1. /\ rlPhase' = "saved" /\ rlSaved' = rlSaved \union {rlAgent}
        /\ UNCHANGED <<rlData, rlAgent, rlTest, rlEpisode, rlMemory, rlTarget, rlBalance, rlPosition, rlStep,
                       rlRollout, rlNet>>
    BY <1>7 DEF SaveAgent, envVars, dqnVars, ppoVars
  <2> QED  BY <1>0, <2>1 DEF TrainingInv, EnvInv, NetInv
<1>8. CASE UNCHANGED rlVars
  <2>1. UNCHANGED <<rlPhase, rlSaved, rlData, rlAgent, rlTest, rlEpisode, rlMemory, rlTarget, rlBalance, rlPosition,
                    rlStep, rlRollout, rlNet>>
    BY <1>8 DEF rlVars, envVars, dqnVars, ppoVars
  <2> QED  BY <2>1 DEF TrainingInv, EnvInv, NetInv, RowsOf
<1> QED  BY <1>1, <1>2, <1>3, <1>4, <1>5, <1>6, <1>7, <1>8 DEF RlNext

\* The target network is never further behind than its update frequency, positions, memory
\* and episodes keep to their limits, and no step leaves the rows of its environment, for
\* any data, lengths and frequencies (rl_agent.py:60-330, 380-520, 700-1077).
THEOREM TrainingTypes == RlSpec => []RlTypeOK
<1> DEFINE Inv == RolloutInv /\ TrainingInv /\ EnvInv /\ NetInv
<1>1. RlInit => Inv
  BY TrainingStarts, RolloutsStart
<1>2. Inv /\ [RlNext]_rlVars => Inv'
  BY TrainingKeeps, RolloutsKeep
<1>3. Inv => RlTypeOK
  <2> SUFFICES ASSUME Inv PROVE RlTypeOK
    OBVIOUS
  <2>1. Max({Episodes, EvalEpisodes}) = IF Episodes >= EvalEpisodes THEN Episodes ELSE EvalEpisodes
    BY SmallerInt, RlAssumption
  <2>2. rlEpisode \in 0 .. Max({Episodes, EvalEpisodes})
    BY <2>1, RlAssumption DEF TrainingInv
  <2>3. TargetFollows
    BY DEF NetInv, TargetFollows
  <2> QED  BY <2>2, <2>3 DEF RlTypeOK, TrainingInv, EnvInv, NetInv
<1> QED  BY <1>1, <1>2, <1>3, PTL DEF RlSpec

-----------------------------------------------------------------------------
(* Online learning (ml/online_learning.py, ml/auto_retrain.py).             *)

\* The last values of a list are no more than asked for, and in their order.
LEMMA LastAreKept ==
    ASSUME NEW S, NEW s \in Seq(S), NEW n \in Nat
    PROVE  /\ KeepLast(s, n) \in Seq(S)
           /\ Len(KeepLast(s, n)) = IF Len(s) > n THEN n ELSE Len(s)
           /\ \A i \in 1 .. Len(KeepLast(s, n)) : KeepLast(s, n)[i] = s[Len(s) - Len(KeepLast(s, n)) + i]
<1>1. PICK k \in Nat : k = Len(s) /\ \A i \in 1 .. k : s[i] \in S
  OBVIOUS
<1>2. CASE k > n
  <2>1. KeepLast(s, n) = SubSeq(s, k - n + 1, k)
    BY <1>1, <1>2 DEF KeepLast
  <2>2. k - n + 1 \in Int /\ k \in Int /\ \A i \in k - n + 1 .. k : s[i] \in S
    BY <1>1, <1>2
  <2>3. /\ SubSeq(s, k - n + 1, k) \in Seq(S)
        /\ Len(SubSeq(s, k - n + 1, k)) = IF k - n + 1 <= k THEN k - (k - n + 1) + 1 ELSE 0
        /\ \A i \in 1 .. k - (k - n + 1) + 1 : SubSeq(s, k - n + 1, k)[i] = s[k - n + 1 + i - 1]
    BY <2>2, SubSeqProperties, SMTT(30)
  <2> DEFINE kept == SubSeq(s, k - n + 1, k)
  <2>4. kept \in Seq(S) /\ Len(kept) = n /\ \A i \in 1 .. n : kept[i] = s[k - n + 1 + i - 1]
    BY <1>2, <2>3
  <2> HIDE DEF kept
  <2>5. \A i \in 1 .. n : k - n + 1 + i - 1 = k - n + i
    BY <1>2
  <2>6. kept \in Seq(S) /\ Len(kept) = n /\ \A i \in 1 .. n : kept[i] = s[k - n + i]
    BY <2>4, <2>5
  <2>7. KeepLast(s, n) = kept
    BY <2>1 DEF kept
  <2> QED  BY <1>1, <1>2, <2>6, <2>7
<1>3. CASE ~(k > n)
  <2>1. KeepLast(s, n) = s
    BY <1>1, <1>3 DEF KeepLast
  <2>2. \A i \in 1 .. k : s[i] = s[k - k + i]
    BY <1>1
  <2> QED  BY <1>1, <1>3, <2>1, <2>2
<1> QED  BY <1>2, <1>3

\* The learner keeps a bounded number of predictions.
LearnerInv ==
    /\ olRecent \in Seq({0, 1}) /\ Len(olRecent) <= RecentMax
    /\ Len(olReference) <= 1
    /\ olAlert \in {"none", "low", "medium", "high", "critical"}

LEMMA LearnerKeeps ==
    ASSUME LearnerInv, LearnerNext
    PROVE  LearnerInv'
<1>0. RecentMax \in Nat
  BY LearningAssumption
<1>1. ASSUME NEW p \in Seq({0, 1})
      PROVE  KeepLast(olRecent \o p, RecentMax) \in Seq({0, 1}) /\ Len(KeepLast(olRecent \o p, RecentMax)) <= RecentMax
  <2>1. olRecent \o p \in Seq({0, 1})
    BY DEF LearnerInv
  <2>2. PICK k \in Nat : k = Len(olRecent \o p)
    BY <2>1
  <2>3. /\ KeepLast(olRecent \o p, RecentMax) \in Seq({0, 1})
        /\ Len(KeepLast(olRecent \o p, RecentMax)) = IF k > RecentMax THEN RecentMax ELSE k
    BY <1>0, <2>1, <2>2, LastAreKept
  <2> QED  BY <1>0, <2>3
<1>2. Batches \union {<<>>} \subseteq Seq({0, 1})
  <2>1. <<>> \in Seq({0, 1}) /\ <<0>> \in Seq({0, 1}) /\ <<1>> \in Seq({0, 1}) /\ <<0, 1>> \in Seq({0, 1})
    OBVIOUS
  <2> QED  BY <2>1 DEF Batches
<1>3. ASSUME NEW p \in Batches, NEW ok \in BOOLEAN, PartialFit(p, ok)
      PROVE  LearnerInv'
  <2>1. p \in Seq({0, 1})
    BY <1>2
  <2> QED  BY <1>1, <1>3, <2>1 DEF PartialFit, LearnerInv
<1>4. ASSUME NEW w, NEW found \in BOOLEAN, DetectDrift(w, found)
      PROVE  LearnerInv'
  <2>1. olRecent' = olRecent
    BY <1>4 DEF DetectDrift
  <2>2. (\E r : olReference' = <<r>>) \/ olReference' = olReference
    BY <1>4, Zenon DEF DetectDrift
  <2>3. olAlert' \in {"none", "low", "medium", "high", "critical"}
    BY <1>4, Zenon DEF DetectDrift, Severity
  <2>4. Len(olReference') <= 1
    <3>1. CASE olReference' = olReference
      BY <3>1 DEF LearnerInv
    <3>2. ASSUME NEW r, olReference' = <<r>> PROVE Len(olReference') <= 1
      BY <3>2
    <3> QED  BY <2>2, <3>1, <3>2
  <2> QED  BY <2>1, <2>3, <2>4 DEF LearnerInv
<1>5. ASSUME NEW a \in Batches \union {<<>>}, NEW b \in Batches \union {<<>>}, RetrainBatches(a, b)
      PROVE  LearnerInv'
  <2>1. a \in Seq({0, 1}) /\ b \in Seq({0, 1}) /\ olRecent \in Seq({0, 1})
    BY <1>2 DEF LearnerInv
  <2>2. a \o b \in Seq({0, 1}) /\ (olRecent \o a) \o b = olRecent \o (a \o b)
    BY <2>1, ConcatAssociative
  <2> QED  BY <1>1, <1>5, <2>2 DEF RetrainBatches, LearnerInv
<1> QED  BY <1>3, <1>4, <1>5 DEF LearnerNext

\* The samples added, and those of them a training has seen.
SamplesInv == swTotal \in Nat /\ swTrained \in 0 .. swTotal /\ WindowKnowsNew

LEMMA SamplesKeep ==
    ASSUME SamplesInv, WindowNext
    PROVE  SamplesInv'
<1>1. PICK total, trained, size \in Nat : total = swTotal /\ trained = swTrained /\ size = WindowSize /\ trained <= total
  BY LearningAssumption DEF SamplesInv
<1>2. ASSUME NEW a \in Nat PROVE Min({a, size}) = IF a <= size THEN a ELSE size
  <2>1. CASE a <= size
    <3>1. \A x \in {a, size} : x <= x /\ ((\A y \in {a, size} : x <= y) => x = a)
      BY <2>1
    <3>2. \A y \in {a, size} : a <= y
      BY <2>1
    <3> QED  BY <2>1, <3>1, <3>2 DEF Min
  <2>2. CASE ~(a <= size)
    <3>1. \A x \in {a, size} : (\A y \in {a, size} : x <= y) => x = size
      BY <2>2
    <3>2. \A y \in {a, size} : size <= y
      BY <2>2
    <3> QED  BY <2>2, <3>1, <3>2 DEF Min
  <2> QED  BY <2>1, <2>2
<1>3. ASSUME NEW n \in 1 .. 3, AddSamples(n)
      PROVE  SamplesInv'
  <2>1. PICK span \in Nat : span = Min({total, size}) /\ span <= total /\ span = IF total <= size THEN total ELSE size
    BY <1>2
  <2>2. PICK later \in Nat : later = total + n
    BY <1>1
  <2>3. PICK keeps \in Nat : keeps = Min({later, size}) /\ keeps <= later /\ keeps = IF later <= size THEN later ELSE size
    BY <1>2
  <2>4. swWindow = [i \in 1 .. span |-> total - span + i]
    BY <1>1, <2>1 DEF SamplesInv, WindowKnowsNew
  <2> DEFINE added == [i \in 1 .. n |-> total + i]
  <2> DEFINE grown == swWindow \o added
  <2>5. added \in Seq(Int) /\ Len(added) = n /\ \A i \in 1 .. n : added[i] = total + i
    BY <1>1
  <2>6. swWindow \in Seq(Int) /\ Len(swWindow) = span /\ \A i \in 1 .. span : swWindow[i] = total - span + i
    <3> DEFINE w == [i \in 1 .. span |-> total - span + i]
    <3>1. w \in Seq(Int) /\ Len(w) = span /\ \A i \in 1 .. span : w[i] = total - span + i
      OBVIOUS
    <3> HIDE DEF w
    <3> QED  BY <2>4, <3>1 DEF w
  <2> HIDE DEF added
  <2>7. /\ grown \in Seq(Int) /\ Len(grown) = span + n
        /\ \A i \in 1 .. span + n : grown[i] = IF i <= span THEN swWindow[i] ELSE added[i - span]
    BY <2>5, <2>6, ConcatProperties
  <2>8. \A i \in 1 .. span + n : grown[i] = total - span + i
    <3> HIDE DEF grown
    <3>1. ASSUME NEW i \in 1 .. span + n PROVE grown[i] = total - span + i
      <4>1. CASE i <= span
        BY <2>6, <2>7, <4>1
      <4>2. CASE ~(i <= span)
        <5>1. i - span \in 1 .. n
          BY <4>2
        <5>2. added[i - span] = total + (i - span)
          BY <2>5, <5>1
        <5>3. grown[i] = added[i - span]
          BY <2>7, <4>2
        <5> QED  BY <5>2, <5>3
      <4> QED  BY <4>1, <4>2
    <3> QED  BY <3>1
  <2> HIDE DEF grown
  <2> DEFINE kept == KeepLast(grown, size)
  <2>9. /\ kept \in Seq(Int) /\ Len(kept) = IF span + n > size THEN size ELSE span + n
        /\ \A i \in 1 .. Len(kept) : kept[i] = grown[Len(grown) - Len(kept) + i]
    BY <2>7, LastAreKept
  <2> HIDE DEF kept
  <2>10. Len(kept) = keeps
    BY <2>1, <2>2, <2>3, <2>9
  <2>11. ASSUME NEW i \in 1 .. keeps PROVE kept[i] = later - keeps + i
    <3>1. keeps <= span + n /\ span + n - keeps + i \in 1 .. span + n
      BY <2>1, <2>2, <2>3
    <3>2. kept[i] = grown[span + n - keeps + i]
      <4>1. i \in 1 .. Len(kept) /\ Len(grown) = span + n
        BY <2>7, <2>10
      <4>2. kept[i] = grown[Len(grown) - Len(kept) + i]
        BY <2>9, <4>1
      <4> QED  BY <2>10, <4>1, <4>2
    <3>3. grown[span + n - keeps + i] = total - span + (span + n - keeps + i)
      BY <2>8, <3>1
    <3> QED  BY <2>2, <3>2, <3>3
  <2>12. kept = [i \in 1 .. keeps |-> later - keeps + i]
    <3>1. DOMAIN kept = 1 .. keeps /\ kept = [i \in DOMAIN kept |-> kept[i]]
      BY <2>9, <2>10
    <3> QED  BY <2>11, <3>1
  <2>13. swWindow' = kept /\ swTotal' = later /\ swSince' = swSince + n /\ swTrained' = trained
    BY <1>1, <1>3, <2>2, Zenon DEF AddSamples, kept, grown, added
  <2>14. swWindow' = [i \in 1 .. Min({swTotal', WindowSize}) |-> swTotal' - Min({swTotal', WindowSize}) + i]
    BY <1>1, <2>3, <2>12, <2>13, Zenon
  <2>15. swSince' = swTotal' - swTrained'
    BY <1>1, <2>2, <2>13 DEF SamplesInv, WindowKnowsNew
  <2>16. swTotal' \in Nat /\ swTrained' \in 0 .. swTotal'
    BY <1>1, <2>2, <2>13
  <2> QED  BY <2>14, <2>15, <2>16, Zenon DEF SamplesInv, WindowKnowsNew
<1>4. ASSUME NEW ok \in BOOLEAN, TrainIfNeeded(ok)
      PROVE  SamplesInv'
  <2>1. swWindow' = swWindow /\ swTotal' = swTotal
    BY <1>4 DEF TrainIfNeeded
  <2>2. swTrained' \in {swTrained, swTotal} /\ swSince' = swTotal - swTrained'
    BY <1>1, <1>4 DEF TrainIfNeeded, Trained, SamplesInv, WindowKnowsNew
  <2> QED  BY <1>1, <2>1, <2>2 DEF SamplesInv, WindowKnowsNew
<1> QED  BY <1>3, <1>4 DEF WindowNext

\* The comparisons of a pair of models are kept in two lists of one length.
TesterInv ==
    /\ {abA, abB} \subseteq OlModels \union {NoModel}
    /\ abHistoryA \in Seq({0, 1}) /\ abHistoryB \in Seq({0, 1})
    /\ HistoriesPair

LEMMA TesterKeeps ==
    ASSUME TesterInv, TesterNext
    PROVE  TesterInv'
<1>1. ASSUME NEW a \in OlModels, NEW b \in OlModels, SetModels(a, b)
      PROVE  TesterInv'
  BY <1>1 DEF SetModels, TesterInv, HistoriesPair
<1>2. ASSUME NEW x \in {0, 1}, NEW y \in {0, 1}, CompareModels(x, y)
      PROVE  TesterInv'
  <2>1. /\ abHistoryA \in Seq({0, 1}) /\ abHistoryB \in Seq({0, 1}) /\ Len(abHistoryA) = Len(abHistoryB)
        /\ abHistoryA' = Append(abHistoryA, x) /\ abHistoryB' = Append(abHistoryB, y)
        /\ abA' = abA /\ abB' = abB
    BY <1>2 DEF CompareModels, TesterInv, HistoriesPair
  <2>2. abHistoryA' \in Seq({0, 1}) /\ abHistoryB' \in Seq({0, 1}) /\ Len(abHistoryA') = Len(abHistoryB')
    BY <2>1, AppendProperties
  <2> QED  BY <2>1, <2>2 DEF TesterInv, HistoriesPair
<1>3. ASSUME NEW m \in OlModels, PromoteModel(m)
      PROVE  TesterInv'
  BY <1>3 DEF PromoteModel, TesterInv, HistoriesPair
<1>4. CASE DemoteModel
  BY <1>4 DEF DemoteModel, TesterInv, HistoriesPair
<1> QED  BY <1>1, <1>2, <1>3, <1>4 DEF TesterNext

\* Multiplying by a positive number keeps the order.
LEMMA Cancelled ==
    ASSUME NEW a \in Int, NEW b \in Int, NEW t \in Nat \ {0}, t * a <= t * b
    PROVE  a <= b
OBVIOUS

\* A quotient rounded down.
LEMMA Quotient ==
    ASSUME NEW a \in Int, NEW t \in Nat \ {0}
    PROVE  a \div t \in Int /\ t * (a \div t) <= a /\ a <= t * (a \div t) + (t - 1)
OBVIOUS

\* The weights of the models are a distribution, as far as rounding allows.
EnsembleInv ==
    /\ enWeights \in [Members -> Int] /\ enFlags \subseteq Members
    /\ \A i \in Members : 5 * enWeights[i] >= 4 * MinWeight
    /\ SumOver(enWeights, Members) \in WeightUnit - EnsembleSize .. WeightUnit

LEMMA MembersAreCounted == IsFiniteSet(Members) /\ Cardinality(Members) = EnsembleSize
<1>1. EnsembleSize \in Nat \ {0}
  BY LearningAssumption
<1>2. IsFiniteSet(1 .. EnsembleSize) /\ Cardinality(1 .. EnsembleSize) = EnsembleSize - 1 + 1
  BY <1>1, FS_Interval
<1> QED  BY <1>1, <1>2 DEF Members

LEMMA EnsembleStarts == OlInit => EnsembleInv
<1> SUFFICES ASSUME OlInit PROVE EnsembleInv
  OBVIOUS
<1>1. PICK unit, least \in Nat, n \in Nat \ {0} :
        unit = WeightUnit /\ least = MinWeight /\ n = EnsembleSize /\ n * least <= unit
  BY LearningAssumption
<1>2. PICK share \in Int : share = unit \div n /\ n * share <= unit /\ unit <= n * share + (n - 1)
  BY Quotient
<1>3. enWeights = [i \in Members |-> share] /\ enFlags = {}
  BY <1>1, <1>2 DEF OlInit
<1>4. least <= share
  <2>1. CASE least >= share + 1
    <3>1. n * (share + 1) <= n * least
      BY <2>1
    <3>2. n * (share + 1) = n * share + n
      BY <1>1
    <3> QED  BY <1>1, <1>2, <3>1, <3>2
  <2> QED  BY <2>1
<1>5. PICK sum \in Int : sum = SumOver(enWeights, Members)
  <2>1. \A i \in Members : enWeights[i] \in Int
    BY <1>3
  <2> QED  BY <2>1, MembersAreCounted, SumType
<1>6. sum <= n * share
  <2>1. 1 \in Int /\ 0 \in Int /\ share \in Int
    OBVIOUS
  <2>2. \A i \in Members : enWeights[i] \in Int /\ enWeights[i] \in Int /\ 1 * enWeights[i] <= 0 * enWeights[i] + share
    BY <1>3
  <2>3. 1 * SumOver(enWeights, Members) <= 0 * SumOver(enWeights, Members) + share * Cardinality(Members)
    BY <2>1, <2>2, MembersAreCounted, SumsCompare
  <2> QED  BY <1>1, <1>5, <2>3, MembersAreCounted
<1>7. n * share <= sum
  <2>1. -1 \in Int /\ 0 \in Int /\ -share \in Int
    OBVIOUS
  <2>2. \A i \in Members : /\ enWeights[i] \in Int /\ enWeights[i] \in Int
                           /\ (-1) * enWeights[i] <= 0 * enWeights[i] + (-share)
    BY <1>3
  <2>3. (-1) * SumOver(enWeights, Members) <= 0 * SumOver(enWeights, Members) + (-share) * Cardinality(Members)
    BY <2>1, <2>2, MembersAreCounted, SumsCompare
  <2> QED  BY <1>1, <1>5, <2>3, MembersAreCounted
<1>8. \A i \in Members : 5 * enWeights[i] >= 4 * MinWeight
  BY <1>1, <1>3, <1>4
<1>9. SumOver(enWeights, Members) \in WeightUnit - EnsembleSize .. WeightUnit
  BY <1>1, <1>2, <1>5, <1>6, <1>7
<1>10. enWeights \in [Members -> Int]
  BY <1>3
<1> QED  BY <1>3, <1>8, <1>9, <1>10 DEF EnsembleInv

\* A weight is at least the minimum before it is normalised, and grows by at most a quarter.
LEMMA AdjustedIsBounded ==
    ASSUME EnsembleInv, NEW i \in Members, NEW score \in {40, 90}
    PROVE  /\ Adjusted(i, score) \in Int /\ MinWeight <= Adjusted(i, score)
           /\ 4 * Adjusted(i, score) <= 5 * enWeights[i]
<1>1. PICK w \in Int, least \in Nat \ {0} : w = enWeights[i] /\ least = MinWeight /\ 4 * least <= 5 * w
  BY LearningAssumption DEF EnsembleInv
<1>2. PICK lost, gained, poor \in Int :
        /\ lost = (enWeights[i] * 45) \div 100 /\ gained = (enWeights[i] * (1000 + score)) \div 1000
        /\ poor = (enWeights[i] * 90) \div 100
        /\ 4 * lost <= 5 * w /\ 4 * gained <= 5 * w /\ 4 * poor <= 5 * w
  <2>1. w > 0
    BY <1>1
  <2>2. /\ (w * 45) \div 100 \in Int /\ 4 * ((w * 45) \div 100) <= 5 * w
        /\ (w * 90) \div 100 \in Int /\ 4 * ((w * 90) \div 100) <= 5 * w
    BY <2>1
  <2>3. (w * (1000 + score)) \div 1000 \in Int /\ 4 * ((w * (1000 + score)) \div 1000) <= 5 * w
    <3>1. CASE score = 40
      BY <2>1, <3>1
    <3>2. CASE score = 90
      BY <2>1, <3>2
    <3> QED  BY <3>1, <3>2
  <2> QED  BY <1>1, <2>2, <2>3
<1>3. PICK moved \in Int :
        moved = (IF i \in enFlags THEN lost ELSE IF score > 50 THEN gained ELSE poor) /\ 4 * moved <= 5 * w
  BY <1>2
<1>4. Adjusted(i, score) = Max({least, moved})
  <2>1. Adjusted(i, score) = Max({MinWeight, IF i \in enFlags THEN lost ELSE IF score > 50 THEN gained ELSE poor})
    <3> DEFINE weight == IF i \in enFlags THEN (enWeights[i] * 45) \div 100
                         ELSE IF score > 50 THEN (enWeights[i] * (1000 + score)) \div 1000 ELSE (enWeights[i] * 90) \div 100
    <3>1. weight = IF i \in enFlags THEN lost ELSE IF score > 50 THEN gained ELSE poor
      BY <1>2
    <3>2. Adjusted(i, score) = Max({MinWeight, weight})
      BY DEF Adjusted
    <3> HIDE DEF weight
    <3> QED  BY <3>1, <3>2
  <2> QED  BY <1>1, <1>3, <2>1, Zenon
<1>5. Max({least, moved}) \in {least, moved} /\ least <= Max({least, moved})
  <2>1. \E x \in {least, moved} : \A y \in {least, moved} : x >= y
    BY <1>1, <1>3
  <2>2. Max({least, moved}) = CHOOSE x \in {least, moved} : \A y \in {least, moved} : x >= y
    BY DEF Max
  <2> QED  BY <2>1, <2>2
<1> QED  BY <1>1, <1>3, <1>4, <1>5

LEMMA NormalisedStaysABalance ==
    ASSUME EnsembleInv, NEW scores \in [Members -> {40, 90}], UpdateWeights(scores)
    PROVE  EnsembleInv'
<1> DEFINE adjusted == [i \in Members |-> Adjusted(i, scores[i])]
<1>1. PICK unit, least \in Nat, n \in Nat \ {0} :
        unit = WeightUnit /\ least = MinWeight /\ n = EnsembleSize /\ least > 0 /\ least % 5 = 0
  BY LearningAssumption
<1>2. \A i \in Members : adjusted[i] \in Int /\ least <= adjusted[i] /\ 4 * adjusted[i] <= 5 * enWeights[i]
  BY <1>1, AdjustedIsBounded
<1>3. enWeights' = [i \in Members |-> IF SumOver(adjusted, Members) > 0
                                      THEN (adjusted[i] * WeightUnit) \div SumOver(adjusted, Members) ELSE adjusted[i]]
  BY Zenon DEF UpdateWeights, SumOver
<1>4. enFlags' = enFlags
  BY DEF UpdateWeights
<1> HIDE DEF adjusted
<1>5. \A i \in Members : enWeights[i] \in Int
  BY DEF EnsembleInv
<1>6. PICK total \in Int : total = SumOver(adjusted, Members)
  BY <1>2, MembersAreCounted, SumType
<1>7. PICK before \in Int : before = SumOver(enWeights, Members) /\ before <= unit
  <2>1. SumOver(enWeights, Members) \in WeightUnit - EnsembleSize .. WeightUnit
    BY DEF EnsembleInv
  <2> QED  BY <1>1, <2>1
<1>8. 4 * total <= 5 * before
  <2>1. \A i \in Members : adjusted[i] \in Int /\ enWeights[i] \in Int /\ 4 * adjusted[i] <= 5 * enWeights[i] + 0
    BY <1>2, <1>5
  <2>2. PICK four, five, none \in Int : four = 4 /\ five = 5 /\ none = 0
    OBVIOUS
  <2>4. \A i \in Members : adjusted[i] \in Int /\ enWeights[i] \in Int
                           /\ four * adjusted[i] <= five * enWeights[i] + none
    BY <2>1, <2>2
  <2>5. four * SumOver(adjusted, Members) <= five * SumOver(enWeights, Members) + none * Cardinality(Members)
    BY <2>4, MembersAreCounted, SumsCompare
  <2>3. 4 * SumOver(adjusted, Members) <= 5 * SumOver(enWeights, Members) + 0 * Cardinality(Members)
    BY <2>2, <2>5
  <2> QED  BY <1>1, <1>6, <1>7, <2>3, MembersAreCounted
<1>9. total > 0
  <2>1. \A i \in Members : adjusted[i] \in Int /\ adjusted[i] \in Int /\ (-1) * adjusted[i] <= 0 * adjusted[i] + (-1)
    BY <1>1, <1>2
  <2>2. -1 \in Int /\ 0 \in Int
    OBVIOUS
  <2>3. (-1) * SumOver(adjusted, Members) <= 0 * SumOver(adjusted, Members) + (-1) * Cardinality(Members)
    BY <2>1, <2>2, MembersAreCounted, SumsCompare
  <2> QED  BY <1>1, <1>6, <2>3, MembersAreCounted
<1>10. 4 * total <= 5 * unit
  BY <1>7, <1>8
<1> DEFINE portion(i) == (adjusted[i] * unit) \div total
<1>11. enWeights' = [i \in Members |-> portion(i)]
  BY <1>1, <1>3, <1>6, <1>9, Zenon
<1>12. ASSUME NEW i \in Members
       PROVE  /\ portion(i) \in Int /\ total * portion(i) <= unit * adjusted[i]
              /\ unit * adjusted[i] <= total * portion(i) + (total - 1)
  <2>1. PICK a \in Int, t \in Nat \ {0} : a = adjusted[i] * unit /\ t = total /\ a = unit * adjusted[i]
    <3>1. PICK g \in Int : g = adjusted[i]
      BY <1>2
    <3>2. g * unit \in Int /\ g * unit = unit * g /\ total \in Nat \ {0}
      BY <1>1, <1>9
    <3> QED  BY <3>1, <3>2
  <2>2. a \div t \in Int /\ t * (a \div t) <= a /\ a <= t * (a \div t) + (t - 1)
    BY Quotient
  <2> QED  BY <2>1, <2>2
<1>13. \A i \in Members : /\ enWeights'[i] \in Int /\ total * enWeights'[i] <= unit * adjusted[i]
                          /\ unit * adjusted[i] <= total * enWeights'[i] + (total - 1)
  BY <1>11, <1>12, Zenon
<1> HIDE DEF portion
<1>14. PICK after \in Int : after = SumOver(enWeights', Members)
  BY <1>13, MembersAreCounted, SumType
<1>15. after <= unit
  <2>1. \A i \in Members : enWeights'[i] \in Int /\ adjusted[i] \in Int /\ total * enWeights'[i] <= unit * adjusted[i] + 0
    BY <1>1, <1>2, <1>13
  <2>2. total \in Int /\ unit \in Int /\ 0 \in Int
    BY <1>1
  <2>3. total * SumOver(enWeights', Members) <= unit * SumOver(adjusted, Members) + 0 * Cardinality(Members)
    BY <2>1, <2>2, MembersAreCounted, SumsCompare
  <2>4. total * after <= total * unit
    BY <1>1, <1>6, <1>14, <2>3, MembersAreCounted
  <2> QED  BY <1>9, <2>4, Cancelled
<1>16. unit - n <= after
  <2>1. \A i \in Members : adjusted[i] \in Int /\ enWeights'[i] \in Int
                           /\ unit * adjusted[i] <= total * enWeights'[i] + (total - 1)
    BY <1>2, <1>13
  <2>2. total \in Int /\ unit \in Int /\ total - 1 \in Int
    BY <1>1
  <2>3. unit * SumOver(adjusted, Members) <= total * SumOver(enWeights', Members) + (total - 1) * Cardinality(Members)
    BY <2>1, <2>2, MembersAreCounted, SumsCompare
  <2>4. unit * total <= total * after + (total - 1) * n
    BY <1>1, <1>6, <1>14, <2>3, MembersAreCounted
  <2>5. total * (unit - n) <= total * after
    <3>1. (total - 1) * n = total * n - n /\ total * (unit - n) = unit * total - total * n
      BY <1>1
    <3> QED  BY <1>1, <2>4, <3>1
  <2> QED  BY <1>1, <1>9, <2>5, Cancelled
<1>17. ASSUME NEW i \in Members PROVE 5 * enWeights'[i] >= 4 * MinWeight
  <2>1. PICK fifth \in Nat : least = 5 * fifth
    BY <1>1
  <2>2. PICK w, a \in Int : w = enWeights'[i] /\ a = adjusted[i] /\ unit * a <= total * w + (total - 1) /\ least <= a
    BY <1>2, <1>13
  <2>3. CASE w + 1 <= 4 * fifth
    <3>1. total * (w + 1) <= total * (4 * fifth)
      BY <1>9, <2>3
    <3>2. total * (w + 1) = total * w + total
      BY <1>9
    <3>3. unit * a < total * (4 * fifth)
      BY <2>2, <3>1, <3>2
    <3>4. unit * (5 * fifth) <= unit * a
      BY <1>1, <2>1, <2>2
    <3>5. (4 * total) * fifth <= (5 * unit) * fifth
      BY <1>10, <2>1
    <3>6. (4 * total) * fifth = total * (4 * fifth) /\ (5 * unit) * fifth = unit * (5 * fifth)
      BY <1>1, <2>1
    <3> QED  BY <3>3, <3>4, <3>5, <3>6
  <2>4. CASE ~(w + 1 <= 4 * fifth)
    BY <1>1, <2>1, <2>2, <2>4
  <2> QED  BY <2>3, <2>4
<1>18. enWeights' \in [Members -> Int]
  BY <1>11, <1>13
<1>19. SumOver(enWeights', Members) \in WeightUnit - EnsembleSize .. WeightUnit
  BY <1>1, <1>14, <1>15, <1>16
<1>20. enFlags' \subseteq Members
  BY <1>4 DEF EnsembleInv
<1> QED  BY <1>17, <1>18, <1>19, <1>20, Zenon DEF EnsembleInv, Members

LEMMA EnsembleKeeps ==
    ASSUME EnsembleInv, EnsembleNext
    PROVE  EnsembleInv'
<1>1. ASSUME NEW i \in Members, NEW d \in BOOLEAN, FlagDrift(i, d)
      PROVE  EnsembleInv'
  <2>1. enWeights' = enWeights /\ enFlags' \subseteq Members
    BY <1>1 DEF FlagDrift, EnsembleInv
  <2> QED  BY <2>1, Zenon DEF EnsembleInv, Members
<1>2. ASSUME NEW s \in [Members -> {40, 90}], UpdateWeights(s)
      PROVE  EnsembleInv'
  BY <1>2, NormalisedStaysABalance
<1> QED  BY <1>1, <1>2 DEF EnsembleNext

\* What is kept of the outcomes, in Redis and in memory.
OutcomesInv ==
    /\ arRedisOk \in {"untested", "yes", "no"} /\ arClock \in Int
    /\ \A s \in {arRedis, arMemory} : s \in [outcomes : Seq({0, 1}), weekly : Int] /\ Len(s.outcomes) <= OutcomeWindow + 1

LEMMA OutcomesKeep ==
    ASSUME OutcomesInv, RetrainNext
    PROVE  OutcomesInv'
<1> DEFINE Store == [outcomes : Seq({0, 1}), weekly : Int]
           Good(s) == s \in Store /\ Len(s.outcomes) <= OutcomeWindow + 1
<1>1. Good(arRedis) /\ Good(arMemory) /\ Good(NoStore)
  <2>1. NoStore \in Store /\ Len(NoStore.outcomes) = 0 /\ OutcomeWindow \in Nat
    <3>1. <<>> \in Seq({0, 1}) /\ Len(<<>>) = 0 /\ MaxClock \in Nat /\ OutcomeWindow \in Nat
      BY LearningAssumption
    <3>2. -MaxClock \in Int
      BY <3>1
    <3> QED  BY <3>1, <3>2 DEF NoStore
  <2> QED  BY <2>1 DEF OutcomesInv
<1>2. ASSUME NEW s, Good(s), NEW wrong \in Seq({0, 1})
      PROVE  Good(WithOutcomes(s, wrong))
  <2>1. PICK bound \in Nat : bound = OutcomeWindow + 1
    BY LearningAssumption
  <2>2. s.outcomes \o wrong \in Seq({0, 1})
    BY <1>2, ConcatProperties
  <2>3. PICK k \in Nat : k = Len(s.outcomes \o wrong)
    BY <2>2
  <2>4. /\ KeepLast(s.outcomes \o wrong, bound) \in Seq({0, 1})
        /\ Len(KeepLast(s.outcomes \o wrong, bound)) = IF k > bound THEN bound ELSE k
    BY <2>2, <2>3, LastAreKept
  <2>5. PICK kept \in Seq({0, 1}) : kept = KeepLast(s.outcomes \o wrong, bound) /\ Len(kept) <= bound
    BY <2>4
  <2>6. WithOutcomes(s, wrong) = [s EXCEPT !.outcomes = kept]
    BY <2>1, <2>5 DEF WithOutcomes
  <2> QED  BY <1>2, <2>1, <2>5, <2>6
<1>3. ASSUME NEW s, Good(s)
      PROVE  Good([s EXCEPT !.weekly = arClock])
  BY <1>3 DEF OutcomesInv
<1>4. arClock \in Int /\ arRedisOk \in {"untested", "yes", "no"}
  BY DEF OutcomesInv
<1> HIDE DEF Good
<1>5. Probed => arRedisOk' \in {"untested", "yes", "no"}
  BY DEF Probed
<1>6. ASSUME NEW wrong \in Seq({0, 1}), Record(wrong)
      PROVE  Good(arRedis') /\ Good(arMemory') /\ arClock' = arClock /\ Probed
  <2>1. arRedis' = arRedis \/ arRedis' = WithOutcomes(arRedis, wrong)
    BY <1>6, Zenon DEF Record
  <2>2. arMemory' = arMemory \/ arMemory' = WithOutcomes(arMemory, wrong)
    BY <1>6, Zenon DEF Record
  <2>3. arClock' = arClock /\ Probed
    BY <1>6, Zenon DEF Record
  <2> QED  BY <1>1, <1>2, <2>1, <2>2, <2>3
<1>7. /\ Good(arRedis') /\ Good(arMemory') /\ arClock' \in Int
      /\ arRedisOk' \in {"untested", "yes", "no"}
  <2>1. ASSUME NEW o \in {0, 1}, Record(<<o>>) PROVE Good(arRedis') /\ Good(arMemory') /\ arClock' \in Int /\ arRedisOk' \in {"untested", "yes", "no"}
    <3>1. <<o>> \in Seq({0, 1})
      OBVIOUS
    <3> QED  BY <1>4, <1>5, <1>6, <2>1, <3>1
  <2>2. CASE CheckDataDrift
    <3>1. [i \in 1 .. Injected |-> 0] \in Seq({0, 1})
      BY LearningAssumption
    <3> QED  BY <1>4, <1>5, <1>6, <2>2, <3>1 DEF CheckDataDrift
  <2>3. CASE RetrainWeekly
    <3>1. arRedis' = arRedis \/ arRedis' = [arRedis EXCEPT !.weekly = arClock]
      BY <2>3, Zenon DEF RetrainWeekly
    <3>2. arMemory' = arMemory \/ arMemory' = [arMemory EXCEPT !.weekly = arClock]
      BY <2>3, Zenon DEF RetrainWeekly
    <3>3. arClock' = arClock /\ Probed
      BY <2>3, Zenon DEF RetrainWeekly
    <3> QED  BY <1>1, <1>3, <1>4, <1>5, <3>1, <3>2, <3>3
  <2>4. CASE RetrainRedisTurns
    BY <1>1, <1>4, <2>4 DEF RetrainRedisTurns
  <2>5. CASE RestartLearner
    BY <1>1, <1>4, <2>5 DEF RestartLearner
  <2>6. CASE HalfDay
    BY <1>1, <1>4, <2>6 DEF HalfDay
  <2> QED  BY <2>1, <2>2, <2>3, <2>4, <2>5, <2>6 DEF RetrainNext
<1> QED  BY <1>7 DEF OutcomesInv, Good

LearningInv == LearnerInv /\ SamplesInv /\ TesterInv /\ EnsembleInv /\ OutcomesInv

LEMMA LearningKeeps ==
    ASSUME LearningInv, [OlNext]_olVars
    PROVE  LearningInv'
<1>1. UNCHANGED learnerVars => LearnerInv'
  BY DEF LearningInv, LearnerInv, learnerVars
<1>2. UNCHANGED windowVars => SamplesInv'
  BY Zenon DEF LearningInv, SamplesInv, WindowKnowsNew, windowVars
<1>3. UNCHANGED testerVars => TesterInv'
  BY DEF LearningInv, TesterInv, HistoriesPair, testerVars
<1>4. UNCHANGED ensembleVars => EnsembleInv'
  BY Zenon DEF LearningInv, EnsembleInv, ensembleVars, Members
<1>5. UNCHANGED retrainVars => OutcomesInv'
  BY Zenon DEF LearningInv, OutcomesInv, retrainVars
<1>6. \/ LearnerNext \/ UNCHANGED learnerVars
  BY Zenon DEF OlNext, olVars
<1>7. \/ WindowNext \/ UNCHANGED windowVars
  BY Zenon DEF OlNext, olVars
<1>8. \/ TesterNext \/ UNCHANGED testerVars
  BY Zenon DEF OlNext, olVars
<1>9. \/ EnsembleNext \/ UNCHANGED ensembleVars
  BY Zenon DEF OlNext, olVars
<1>10. \/ RetrainNext \/ UNCHANGED retrainVars
  BY Zenon DEF OlNext, olVars
<1>11. LearnerInv'
  BY <1>1, <1>6, LearnerKeeps, Zenon DEF LearningInv
<1>12. SamplesInv'
  BY <1>2, <1>7, SamplesKeep, Zenon DEF LearningInv
<1>13. TesterInv'
  BY <1>3, <1>8, TesterKeeps, Zenon DEF LearningInv
<1>14. EnsembleInv'
  BY <1>4, <1>9, EnsembleKeeps, Zenon DEF LearningInv
<1>15. OutcomesInv'
  BY <1>5, <1>10, OutcomesKeep, Zenon DEF LearningInv
<1> QED  BY <1>11, <1>12, <1>13, <1>14, <1>15, Zenon DEF LearningInv

\* The window ends with the samples no training has seen, however many trainings failed; the
\* lists of the two compared models pair up; and no model of an ensemble of any size is
\* silenced, however often it is flagged (online_learning.py:468-775).
THEOREM LearningTypes == OlSpec => []OlTypeOK
<1>1. OlInit => LearningInv
  <2> SUFFICES ASSUME OlInit PROVE LearningInv
    OBVIOUS
  <2>1. <<>> \in Seq({0, 1}) /\ Len(<<>>) = 0
    OBVIOUS
  <2>2. LearnerInv
    BY <2>1, LearningAssumption DEF OlInit, LearnerInv
  <2>3. SamplesInv
    <3>1. Min({0, WindowSize}) = 0
      <4>1. \A x \in {0, WindowSize} : (\A y \in {0, WindowSize} : x <= y) => x = 0
        BY LearningAssumption
      <4>2. \A y \in {0, WindowSize} : 0 <= y
        BY LearningAssumption
      <4> QED  BY <4>1, <4>2 DEF Min
    <3>2. [i \in 1 .. 0 |-> 0 - 0 + i] = <<>>
      OBVIOUS
    <3>3. swTotal = 0 /\ swTrained = 0 /\ swSince = 0 /\ swWindow = <<>>
      BY DEF OlInit
    <3>4. swWindow = [i \in 1 .. Min({swTotal, WindowSize}) |-> swTotal - Min({swTotal, WindowSize}) + i]
      BY <3>1, <3>2, <3>3, Zenon
    <3>5. swSince = swTotal - swTrained /\ swTotal \in Nat /\ swTrained \in 0 .. swTotal
      BY <3>3
    <3> QED  BY <3>4, <3>5 DEF SamplesInv, WindowKnowsNew
  <2>4. TesterInv
    BY <2>1 DEF OlInit, TesterInv, HistoriesPair
  <2>5. OutcomesInv
    <3>1. MaxClock \in Nat /\ OutcomeWindow \in Nat
      BY LearningAssumption
    <3>2. -MaxClock \in Int
      BY <3>1
    <3> QED  BY <2>1, <3>1, <3>2 DEF OlInit, OutcomesInv, NoStore
  <2> QED  BY <2>2, <2>3, <2>4, <2>5, EnsembleStarts DEF LearningInv
<1>2. LearningInv /\ [OlNext]_olVars => LearningInv'
  BY LearningKeeps
<1>3. LearningInv => OlTypeOK
  <2> SUFFICES ASSUME LearningInv PROVE OlTypeOK
    OBVIOUS
  <2>1. Len(olRecent) <= RecentMax /\ Len(olReference) <= 1 /\ olAlert \in {"none", "low", "medium", "high", "critical"}
    BY DEF LearningInv, LearnerInv
  <2>2. Len(swWindow) <= WindowSize /\ swTrained \in 0 .. swTotal /\ WindowKnowsNew
    <3>1. PICK total, size \in Nat : total = swTotal /\ size = WindowSize
      BY LearningAssumption DEF LearningInv, SamplesInv
    <3>2. Min({total, size}) \in Nat /\ Min({total, size}) <= size
      <4>1. \E x \in {total, size} : \A y \in {total, size} : x <= y
        OBVIOUS
      <4>2. Min({total, size}) = CHOOSE x \in {total, size} : \A y \in {total, size} : x <= y
        BY DEF Min
      <4> QED  BY <4>1, <4>2
    <3>3. PICK span \in Nat : span = Min({total, size}) /\ span <= size
      BY <3>2
    <3>4. swWindow = [i \in 1 .. span |-> total - span + i]
      BY <3>1, <3>3 DEF LearningInv, SamplesInv, WindowKnowsNew
    <3>5. Len(swWindow) = span
      BY <3>4
    <3> QED  BY <3>1, <3>3, <3>5 DEF LearningInv, SamplesInv
  <2>3. {abA, abB} \subseteq OlModels \union {NoModel} /\ HistoriesPair
    BY DEF LearningInv, TesterInv
  <2>4. enFlags \subseteq Members /\ NeverSilenced
    BY Zenon DEF LearningInv, EnsembleInv, NeverSilenced, SumOver
  <2>5. arRedisOk \in {"untested", "yes", "no"} /\ \A s \in {arRedis, arMemory} : Len(s.outcomes) <= OutcomeWindow + 1
    BY DEF LearningInv, OutcomesInv
  <2> QED  BY <2>1, <2>2, <2>3, <2>4, <2>5, Zenon DEF OlTypeOK
<1> QED  BY <1>1, <1>2, <1>3, PTL DEF OlSpec
=============================================================================
