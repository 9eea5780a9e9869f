------------------------------ MODULE MCInfra ------------------------------
(***************************************************************************)
(* The infrastructure services for TLC, side by side.  They share no       *)
(* state, so instead of their product each behaviour moves one of them,    *)
(* which "part" names; the others keep their initial state.                *)
(***************************************************************************)
EXTENDS MT5Pool, BrokerFailover, InternetFailover, PowerProtection, StateSync, MT5Breaker,
        SelfHealing, HealthAlerts

CONSTANTS b1, b2, i1, i2, p1, k1, k2, h1, h2, h3

SamePriority == [b \in Brokers |-> 1]
WiredFirst == [i \in Isps |-> IF i = i1 THEN 1 ELSE 0]
SyncRound == <<"positions", "account">>

VARIABLE part
Parts == {"pool", "broker", "isp", "power", "sync", "mt5", "heal", "health"}

InfraInit ==
    /\ part \in Parts
    /\ Init
    /\ BrokerInit /\ (part # "broker" => ~brokersByHand)
    /\ IspInit
    /\ PowerInit /\ (part # "power" => canShutdown)
    /\ SyncInit /\ (part # "sync" => syncRedisUp /\ ~drained)
    /\ BreakerInit /\ (part # "mt5" => bridgeUp)
    /\ HealInit /\ (part # "heal" => serviceUp)
    /\ HealthInit /\ (part # "health" => deliver = Channels)

InfraNext ==
    \/ /\ part = "pool" /\ Next
       /\ UNCHANGED <<part, brokerVars, ispVars, powerVars, syncVars, mt5Vars, healVars, healthVars>>
    \/ /\ part = "broker" /\ BrokerNext
       /\ UNCHANGED <<part, vars, ispVars, powerVars, syncVars, mt5Vars, healVars, healthVars>>
    \/ /\ part = "isp" /\ IspNext
       /\ UNCHANGED <<part, vars, brokerVars, powerVars, syncVars, mt5Vars, healVars, healthVars>>
    \/ /\ part = "power" /\ PowerNext
       /\ UNCHANGED <<part, vars, brokerVars, ispVars, syncVars, mt5Vars, healVars, healthVars>>
    \/ /\ part = "sync" /\ SyncNext
       /\ UNCHANGED <<part, vars, brokerVars, ispVars, powerVars, mt5Vars, healVars, healthVars>>
    \/ /\ part = "mt5" /\ BreakerNext
       /\ UNCHANGED <<part, vars, brokerVars, ispVars, powerVars, syncVars, healVars, healthVars>>
    \/ /\ part = "heal" /\ HealNext
       /\ UNCHANGED <<part, vars, brokerVars, ispVars, powerVars, syncVars, mt5Vars, healthVars>>
    \/ /\ part = "health" /\ HealthNext
       /\ UNCHANGED <<part, vars, brokerVars, ispVars, powerVars, syncVars, mt5Vars, healVars>>

infraVars == <<part, vars, brokerVars, ispVars, powerVars, syncVars, mt5Vars, healVars, healthVars>>

\* The fairness of each service, while it is the one that moves.
InfraFairness ==
    /\ WF_vars(part = "pool" /\ Reconnect)
    /\ WF_brokerVars(part = "broker" /\ CheckBrokers)
    /\ WF_brokerVars(part = "broker" /\ ActOnBrokers)
    /\ \A b \in Brokers : /\ WF_brokerVars(part = "broker" /\ ConnectEnd(b))
                          /\ WF_brokerVars(part = "broker" /\ BrokerHeartbeat(b))
                          /\ WF_brokerVars(part = "broker" /\ BrokerSilent(b))
    /\ WF_ispVars(part = "isp" /\ MonitorIsps)
    /\ WF_powerVars(part = "power" /\ MonitorPower)
    /\ WF_powerVars(part = "power" /\ ShutdownWorker)
    /\ WF_syncVars(part = "sync" /\ (DrainTake \/ DrainSync))
    /\ WF_mt5Vars(part = "mt5" /\ CoolDown)
    /\ \A c \in Callers : /\ SF_mt5Vars(part = "mt5" /\ Answer(c))
                          /\ WF_mt5Vars(part = "mt5" /\ CallTool(c))
                          /\ WF_mt5Vars(part = "mt5" /\ TryConnect(c))
    /\ WF_healVars(part = "heal" /\ AttemptRecovery)
    /\ WF_healVars(part = "heal" /\ HealCoolDown)
    /\ \A t \in Healers : /\ SF_healVars(part = "heal" /\ Use(t))
                          /\ WF_healVars(part = "heal" /\ RecordResult(t))
                          /\ WF_healVars(part = "heal" /\ EndRestart(t))
                          /\ WF_healVars(part = "heal" /\ TryReconnect(t))
    /\ WF_healthVars(part = "health" /\ MonitorHealth)

InfraSpec == InfraInit /\ [][InfraNext]_infraVars /\ InfraFairness

\* The type invariants of all services.
InfraTypeOK ==
    /\ part \in Parts
    /\ TypeOK
    /\ BrokerTypeOK /\ IspTypeOK /\ PowerTypeOK /\ SyncTypeOK
    /\ BreakerTypeOK /\ HealTypeOK /\ HealthTypeOK
=============================================================================
