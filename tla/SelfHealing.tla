---------------------------- MODULE SelfHealing ----------------------------
(***************************************************************************)
(* infrastructure/self_healing.py: the circuit breaker of a service, which *)
(* the orchestrator and the REST view force half open; the restarts of a   *)
(* crashed service; and the reconnects of a failed connection.  Nothing    *)
(* but registration is atomic: a restart checks its limit under the lock   *)
(* and counts after it has started the service, without it.                *)
(***************************************************************************)
EXTENDS Integers, FiniteSets

CONSTANTS
    Healers,          \* threads that use the service, restart or reconnect it
    HealThreshold,    \* failure_threshold (5)
    MaxRestarts,      \* max_restarts (5)
    MaxReconnects     \* max_retries of a reconnect (10)

ASSUME HealAssumption ==
    /\ IsFiniteSet(Healers)
    /\ {HealThreshold, MaxRestarts, MaxReconnects} \subseteq Nat \ {0}

VARIABLES
    circuit,       \* CircuitState: "closed", "open" or "half_open"
    healFails,     \* failure_count, counted to the threshold
    healCool,      \* recovery_timeout has passed since the last failure
    serviceUp,     \* whether the service works
    using,         \* of each thread: "none", or the outcome of its use: "ok" or "bad"
    restarts,      \* restart_count
    restarting,    \* threads between the check and the count of a restart
    serviceState,  \* status of the registered service
    reconnects,    \* of each thread: attempts its reconnect has left, 0 when in none
    connection     \* status of the registered connection

circuitVars == <<circuit, healFails, healCool>>
restartVars == <<restarts, restarting, serviceState>>
connectVars == <<reconnects, connection>>
healVars == <<circuitVars, serviceUp, using, restartVars, connectVars>>

HealInit ==
    /\ circuit = "closed" /\ healFails = 0 /\ healCool = FALSE
    /\ serviceUp \in BOOLEAN
    /\ using = [t \in Healers |-> "none"]
    /\ restarts = 0 /\ restarting = {} /\ serviceState = "stopped"
    /\ reconnects = [t \in Healers |-> 0] /\ connection = "disconnected"

Idle(t) == using[t] = "none" /\ t \notin restarting /\ reconnects[t] = 0

-----------------------------------------------------------------------------
(* The circuit breaker *)

CanExecute == circuit \in {"closed", "half_open"} \/ healCool

\* should_allow.
Use(t) ==
    /\ Idle(t) /\ CanExecute
    /\ circuit' = IF circuit = "open" THEN "half_open" ELSE circuit
    /\ using' = [using EXCEPT ![t] = IF serviceUp THEN "ok" ELSE "bad"]
    /\ UNCHANGED <<healFails, healCool, serviceUp, restartVars, connectVars>>

\* Variant: a success says nothing about the breaker.
HealSuccessIgnored == healFails' = 0 /\ UNCHANGED circuit

\* record_success closes the breaker only from half open.
HealSuccess ==
    /\ healFails' = 0
    /\ circuit' = IF circuit = "half_open" THEN "closed" ELSE circuit

\* record_failure.
HealFailure ==
    /\ healFails' = IF healFails < HealThreshold THEN healFails + 1 ELSE healFails
    /\ circuit' = IF healFails + 1 >= HealThreshold THEN "open" ELSE circuit
    /\ healCool' = FALSE

RecordResult(t) ==
    /\ \/ using[t] = "ok" /\ HealSuccess /\ UNCHANGED healCool
       \/ using[t] = "bad" /\ HealFailure
    /\ using' = [using EXCEPT ![t] = "none"]
    /\ UNCHANGED <<serviceUp, restartVars, connectVars>>

\* attempt_recovery: the orchestrator's round, or the REST view at any time.
AttemptRecovery ==
    /\ circuit = "open"
    /\ circuit' = "half_open"
    /\ UNCHANGED <<healFails, healCool, serviceUp, using, restartVars, connectVars>>

HealCoolDown ==
    /\ circuit = "open" /\ ~healCool
    /\ healCool' = TRUE
    /\ UNCHANGED <<circuit, healFails, serviceUp, using, restartVars, connectVars>>

ServiceTurns ==
    /\ serviceUp' = ~serviceUp
    /\ UNCHANGED <<circuitVars, using, restartVars, connectVars>>

-----------------------------------------------------------------------------
(* Restarts and reconnects *)

MayRestart == restarts < MaxRestarts

\* restart_service: the check, under the lock.
BeginRestart(t) ==
    /\ Idle(t) /\ MayRestart
    /\ restarting' = restarting \union {t}
    /\ UNCHANGED <<circuitVars, serviceUp, using, restarts, serviceState, connectVars>>

\* stop_fn and start_fn have run; an attempt that raised is not counted.
EndRestart(t) ==
    /\ t \in restarting
    /\ restarting' = restarting \ {t}
    /\ \/ restarts' = restarts + 1 /\ serviceState' = "running"
       \/ restarts' = restarts /\ serviceState' = "failed"
    /\ UNCHANGED <<circuitVars, serviceUp, using, connectVars>>

BeginReconnect(t) ==
    /\ Idle(t)
    /\ reconnects' = [reconnects EXCEPT ![t] = MaxReconnects]
    /\ UNCHANGED <<circuitVars, serviceUp, using, restartVars, connection>>

\* One attempt; the last one that fails marks the connection.
TryReconnect(t) ==
    /\ reconnects[t] > 0
    /\ \/ connection' = "connected" /\ reconnects' = [reconnects EXCEPT ![t] = 0]
       \/ /\ reconnects' = [reconnects EXCEPT ![t] = @ - 1]
          /\ connection' = IF reconnects[t] = 1 THEN "failed" ELSE connection
    /\ UNCHANGED <<circuitVars, serviceUp, using, restartVars>>

HealNext ==
    \/ \E t \in Healers :
         \/ Use(t) \/ RecordResult(t)
         \/ BeginRestart(t) \/ EndRestart(t)
         \/ BeginReconnect(t) \/ TryReconnect(t)
    \/ AttemptRecovery \/ HealCoolDown
    \/ ServiceTurns

\* The orchestrator's round, the passing of time, and calls that end.
HealFairness ==
    /\ WF_healVars(AttemptRecovery) /\ WF_healVars(HealCoolDown)
    /\ \A t \in Healers : /\ SF_healVars(Use(t)) /\ WF_healVars(RecordResult(t))
                          /\ WF_healVars(EndRestart(t)) /\ WF_healVars(TryReconnect(t))

HealSpec == HealInit /\ [][HealNext]_healVars /\ HealFairness

-----------------------------------------------------------------------------

\* A service is restarted at most max_restarts times, and once more for each further
\* thread that passed the check before the last restart was counted
\* (self_healing.py:163-190).
RestartsBounded == restarts + Cardinality(restarting) <= MaxRestarts + Cardinality(Healers) - 1

\* A service that works again and keeps working is used again for good, though the
\* orchestrator forces the breaker half open before its time (self_healing.py:50-60, 504-517).
CircuitRecovers == <>[]serviceUp => <>[](circuit = "closed")

HealTypeOK ==
    /\ circuit \in {"closed", "open", "half_open"}
    /\ healFails \in 0..HealThreshold
    /\ healCool \in BOOLEAN /\ serviceUp \in BOOLEAN
    /\ using \in [Healers -> {"none", "ok", "bad"}]
    /\ restarts \in Nat /\ restarting \subseteq Healers
    /\ serviceState \in {"stopped", "running", "failed"}
    /\ reconnects \in [Healers -> 0..MaxReconnects]
    /\ connection \in {"disconnected", "connected", "failed"}
    /\ RestartsBounded
=============================================================================
