---------------------------- MODULE HealthAlerts ----------------------------
(***************************************************************************)
(* infrastructure/health_monitor.py, alert_system.py and the callbacks of  *)
(* orchestrator.py between them.  The monitor runs its checks one by one,  *)
(* takes the overall level from the results, and fires an event when the   *)
(* level changed; the callback sends an alert, which is limited to one a   *)
(* minute by subject, and may fail on every channel.                       *)
(***************************************************************************)
EXTENDS Integers, FiniteSets

CONSTANTS
    Checks,
    CriticalChecks,   \* checks registered as critical
    Channels          \* channels enabled in the configuration

ASSUME HealthAssumption == IsFiniteSet(Checks) /\ CriticalChecks \subseteq Checks

AlertLevels == <<"INFO", "WARNING", "ERROR", "CRITICAL">>
MinLevel == 2   \* _min_level

VARIABLES
    failing,      \* checks whose subject is in trouble
    results,      \* last result of each check: "none", "ok" or "bad"
    checkTodo,    \* checks of this round that have not run
    level,        \* overall_level
    limited,      \* subjects whose last alert is less than a minute old
    deliver,      \* channels that deliver
    told,         \* subjects delivered in the last minute or since their trouble began
    healthPc      \* the monitor: "round", "checks", or "alert" with an event to handle

healthVars == <<failing, results, checkTodo, level, limited, deliver, told, healthPc>>

HealthLevels == {"healthy", "degraded", "unhealthy", "critical"}
Subjects == {"System Health Critical", "Health Degradation"}

HealthInit ==
    /\ failing = {}
    /\ results = [c \in Checks |-> "none"]
    /\ checkTodo = {}
    /\ level = "healthy"
    /\ limited = {} /\ told = {}
    /\ deliver \in SUBSET Channels
    /\ healthPc = "round"

-----------------------------------------------------------------------------
(* The monitor *)

Trouble(c) ==
    /\ failing' = IF c \in failing THEN failing \ {c} ELSE failing \union {c}
    /\ UNCHANGED <<results, checkTodo, level, limited, deliver, told, healthPc>>

BeginChecks ==
    /\ healthPc = "round"
    /\ healthPc' = "checks" /\ checkTodo' = Checks
    /\ UNCHANGED <<failing, results, level, limited, deliver, told>>

RunCheck(c) ==
    /\ healthPc = "checks" /\ c \in checkTodo
    /\ results' = [results EXCEPT ![c] = IF c \in failing THEN "bad" ELSE "ok"]
    /\ checkTodo' = checkTodo \ {c}
    /\ UNCHANGED <<failing, level, limited, deliver, told, healthPc>>

Bad == {c \in Checks : results[c] = "bad"}
Ran == {c \in Checks : results[c] # "none"}

\* _update_overall_level: any critical failure, more than half failing, any failing.
LevelOf ==
    IF Bad \intersect CriticalChecks # {} THEN "critical"
    ELSE IF 2 * Cardinality(Bad) > Cardinality(Ran) THEN "unhealthy"
    ELSE IF Bad # {} THEN "degraded" ELSE "healthy"

Grave == {"critical", "unhealthy"}

\* The subject the callback of the level's event alerts about, if it has one.
SubjectOf(l) ==
    CASE l \in Grave -> {"System Health Critical"}
      [] l = "degraded" -> {"Health Degradation"}
      [] OTHER -> {}

\* A subject counts as told until a minute has passed and its trouble is over.
StillTold(l) == told \ {s \in Subjects : s \notin limited /\ s \notin SubjectOf(l)}

UpdateLevel ==
    /\ healthPc = "checks" /\ checkTodo = {}
    /\ level' = LevelOf
    /\ told' = StillTold(LevelOf)
    /\ healthPc' = IF LevelOf # level THEN "alert" ELSE "round"
    /\ UNCHANGED <<failing, results, checkTodo, limited, deliver>>

-----------------------------------------------------------------------------
(* Alerts *)

\* Variant: alerts must be above the minimum level.
ShouldSendAbove(l) == \E i \in DOMAIN AlertLevels : AlertLevels[i] = l /\ i > MinLevel

ShouldSend(l) == \E i \in DOMAIN AlertLevels : AlertLevels[i] = l /\ i >= MinLevel

AlertLevel(s) == IF s = "System Health Critical" THEN "CRITICAL" ELSE "WARNING"

\* send_alert takes the subject's slot, then tries each channel; a failure is logged.
SendAlert(s) ==
    IF ShouldSend(AlertLevel(s)) /\ s \notin limited
    THEN /\ limited' = limited \union {s}
         /\ told' = IF deliver # {} THEN told \union {s} ELSE told
    ELSE UNCHANGED <<limited, told>>

HandleLevelChange ==
    /\ healthPc = "alert"
    /\ IF SubjectOf(level) = {} THEN UNCHANGED <<limited, told>>
       ELSE \E s \in SubjectOf(level) : SendAlert(s)
    /\ healthPc' = "round"
    /\ UNCHANGED <<failing, results, checkTodo, level, deliver>>

\* A minute has passed since the subject's last alert.
SlotEnds(s) ==
    /\ s \in limited
    /\ limited' = limited \ {s}
    /\ told' = IF s \in SubjectOf(level) THEN told ELSE told \ {s}
    /\ UNCHANGED <<failing, results, checkTodo, level, deliver, healthPc>>

MonitorHealth ==
    \/ BeginChecks
    \/ \E c \in Checks : RunCheck(c)
    \/ UpdateLevel
    \/ HandleLevelChange

HealthNext ==
    \/ \E c \in Checks : Trouble(c)
    \/ MonitorHealth
    \/ \E s \in Subjects : SlotEnds(s)

\* The monitor thread loops.
HealthFairness == WF_healthVars(MonitorHealth)

HealthSpec == HealthInit /\ [][HealthNext]_healthVars /\ HealthFairness

-----------------------------------------------------------------------------

HealthTypeOK ==
    /\ failing \subseteq Checks /\ checkTodo \subseteq Checks
    /\ results \in [Checks -> {"none", "ok", "bad"}]
    /\ level \in HealthLevels
    /\ limited \subseteq Subjects /\ told \subseteq Subjects
    /\ deliver \subseteq Channels
    /\ healthPc \in {"round", "checks", "alert"}

\* With a channel that delivers, trouble the monitor has settled on was told of: an alert
\* that the limit suppressed followed one of its subject within the minute
\* (health_monitor.py:186-202, alert_system.py:187-194).
TroubleIsTold ==
    deliver # {} /\ healthPc # "alert" => SubjectOf(level) \subseteq told
=============================================================================
