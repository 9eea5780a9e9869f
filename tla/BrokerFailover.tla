--------------------------- MODULE BrokerFailover ---------------------------
(***************************************************************************)
(* infrastructure/broker_failover.py: which broker trades, and the monitor *)
(* that moves trading when the active one is unhealthy.  Every operation   *)
(* runs under one lock, but connect_broker lets go of it while it          *)
(* connects, and the monitor checks and acts in two steps.                 *)
(***************************************************************************)
EXTENDS Integers, FiniteSets

CONSTANTS
    Brokers,
    NoBroker,
    BrokerPriority   \* priority each broker registers with

ASSUME BrokerAssumption ==
    /\ NoBroker \notin Brokers
    /\ BrokerPriority \in [Brokers -> Int]

VARIABLES
    brokerStatus,    \* BrokerStatus, "absent" before register_broker
    activeBroker,    \* active_broker_id
    brokerUp,        \* whether the broker's heartbeats arrive
    brokerFresh,     \* the last heartbeat is less than 30 seconds old
    connecting,      \* brokers with a connect_broker between its two locked parts
    brokerMonitor,   \* "check", or "act" once the active broker was found unhealthy
    brokersByHand    \* whether operators and the orchestrator move trading as well

brokerVars == <<brokerStatus, activeBroker, brokerUp, brokerFresh, connecting,
                brokerMonitor, brokersByHand>>

\* Statuses the code can reach: connecting never raises, so nothing becomes FAILED.
BrokerStatuses == {"absent", "connected", "disconnected", "reconnecting"}

BrokerInit ==
    /\ brokerStatus = [b \in Brokers |-> "absent"]
    /\ activeBroker = NoBroker
    /\ brokerUp = [b \in Brokers |-> TRUE]
    /\ brokerFresh = [b \in Brokers |-> FALSE]
    /\ connecting = {}
    /\ brokerMonitor = "check"
    /\ brokersByHand \in BOOLEAN

KnownBrokers == {b \in Brokers : brokerStatus[b] # "absent"}

\* Registering again replaces the record; a connect under way finishes on the old one.
RegisterBroker(b) ==
    /\ b \in KnownBrokers => brokersByHand
    /\ brokerStatus' = [brokerStatus EXCEPT ![b] = "disconnected"]
    /\ brokerFresh' = [brokerFresh EXCEPT ![b] = TRUE]
    /\ connecting' = connecting \ {b}
    /\ UNCHANGED <<activeBroker, brokerUp, brokerMonitor, brokersByHand>>

ConnectBegin(b) ==
    /\ b \in KnownBrokers
    /\ brokerStatus' = [brokerStatus EXCEPT ![b] = "reconnecting"]
    /\ connecting' = connecting \union {b}
    /\ UNCHANGED <<activeBroker, brokerUp, brokerFresh, brokerMonitor, brokersByHand>>

\* Nothing is asked of the broker: its heartbeat time is simply renewed.
ConnectEnd(b) ==
    /\ b \in connecting
    /\ brokerStatus' = [brokerStatus EXCEPT ![b] = "connected"]
    /\ brokerFresh' = [brokerFresh EXCEPT ![b] = TRUE]
    /\ connecting' = connecting \ {b}
    /\ UNCHANGED <<activeBroker, brokerUp, brokerMonitor, brokersByHand>>

DisconnectBroker(b) ==
    /\ brokersByHand
    /\ b \in KnownBrokers
    /\ brokerStatus' = [brokerStatus EXCEPT ![b] = "disconnected"]
    /\ UNCHANGED <<activeBroker, brokerUp, brokerFresh, connecting, brokerMonitor, brokersByHand>>

SetActiveBroker(b) ==
    /\ brokersByHand \/ activeBroker = NoBroker
    /\ brokerStatus[b] = "connected"
    /\ brokerStatus' = [c \in Brokers |-> IF c = activeBroker /\ c # b THEN "disconnected"
                                          ELSE brokerStatus[c]]
    /\ activeBroker' = b
    /\ UNCHANGED <<brokerUp, brokerFresh, connecting, brokerMonitor, brokersByHand>>

BrokerHeartbeat(b) ==
    /\ brokerUp[b] /\ b \in KnownBrokers
    /\ brokerFresh' = [brokerFresh EXCEPT ![b] = TRUE]
    /\ brokerStatus' = [brokerStatus EXCEPT ![b] = IF @ = "disconnected" THEN "connected" ELSE @]
    /\ UNCHANGED <<activeBroker, brokerUp, connecting, brokerMonitor, brokersByHand>>

\* A broker stops or starts answering.
BrokerTurns(b) ==
    /\ brokerUp' = [brokerUp EXCEPT ![b] = ~@]
    /\ UNCHANGED <<brokerStatus, activeBroker, brokerFresh, connecting, brokerMonitor, brokersByHand>>

\* Thirty seconds go by without a heartbeat.
BrokerSilent(b) ==
    /\ ~brokerUp[b] /\ b \in KnownBrokers
    /\ brokerFresh' = [brokerFresh EXCEPT ![b] = FALSE]
    /\ UNCHANGED <<brokerStatus, activeBroker, brokerUp, connecting, brokerMonitor, brokersByHand>>

-----------------------------------------------------------------------------

\* Variant: a broker that is connected counts as healthy.
ConnectedBroker(b) == brokerStatus[b] = "connected"

HealthyBroker(b) == brokerFresh[b] /\ brokerStatus[b] = "connected"

\* check_broker_health, and the monitor's decision.
CheckBrokers ==
    /\ brokerMonitor = "check"
    /\ activeBroker # NoBroker /\ ~HealthyBroker(activeBroker)
    /\ brokerMonitor' = "act"
    /\ UNCHANGED <<brokerStatus, activeBroker, brokerUp, brokerFresh, connecting, brokersByHand>>

\* _select_backup_broker passes over FAILED brokers only, and there are none.
BackupBrokers(s) ==
    LET C == {b \in KnownBrokers \ {s} : BrokerPriority[b] > -1}
    IN  {b \in C : \A c \in C : BrokerPriority[c] <= BrokerPriority[b]}

\* Variant: the target is looked up after trading has moved to it.
MoveTradingUnchecked(s, b) ==
    /\ brokerStatus' = [brokerStatus EXCEPT ![s] = "disconnected"]
    /\ activeBroker' = b

MoveTrading(s, b) ==
    /\ b \in KnownBrokers
    /\ brokerStatus' = [brokerStatus EXCEPT ![s] = "disconnected", ![b] = "connected"]
    /\ activeBroker' = b

\* trigger_failover, one locked section, given its source and target or NoBroker.
TriggerBrokerFailover(s, g) ==
    \E b \in IF g = NoBroker THEN BackupBrokers(s) ELSE {g} : MoveTrading(s, b)

ActOnBrokers ==
    /\ brokerMonitor = "act"
    /\ IF BackupBrokers(activeBroker) # {} THEN TriggerBrokerFailover(activeBroker, NoBroker)
       ELSE UNCHANGED <<brokerStatus, activeBroker>>
    /\ brokerMonitor' = "check"
    /\ UNCHANGED <<brokerUp, brokerFresh, connecting, brokersByHand>>

\* The orchestrator names no broker, the REST view may name either.
RequestBrokerFailover(s, g) ==
    /\ brokersByHand
    /\ LET source == IF s # NoBroker THEN s ELSE activeBroker IN
         source \in KnownBrokers /\ TriggerBrokerFailover(source, g)
    /\ UNCHANGED <<brokerUp, brokerFresh, connecting, brokerMonitor, brokersByHand>>

BrokerNext ==
    \/ \E b \in Brokers :
         \/ RegisterBroker(b) \/ ConnectBegin(b) \/ ConnectEnd(b) \/ DisconnectBroker(b)
         \/ SetActiveBroker(b) \/ BrokerHeartbeat(b) \/ BrokerTurns(b) \/ BrokerSilent(b)
    \/ CheckBrokers
    \/ ActOnBrokers
    \/ \E s, g \in Brokers \union {NoBroker} : RequestBrokerFailover(s, g)

\* The monitor loops, a connect under way finishes, a broker that is up sends
\* heartbeats and time passes for one that is not.
BrokerFairness ==
    /\ WF_brokerVars(CheckBrokers) /\ WF_brokerVars(ActOnBrokers)
    /\ \A b \in Brokers : /\ WF_brokerVars(ConnectEnd(b))
                          /\ WF_brokerVars(BrokerHeartbeat(b))
                          /\ WF_brokerVars(BrokerSilent(b))

BrokerSpec == BrokerInit /\ [][BrokerNext]_brokerVars /\ BrokerFairness

-----------------------------------------------------------------------------

\* Types; the active broker is always one that was registered.
BrokerTypeOK ==
    /\ brokerStatus \in [Brokers -> BrokerStatuses]
    /\ activeBroker \in KnownBrokers \union {NoBroker}
    /\ brokerUp \in [Brokers -> BOOLEAN]
    /\ brokerFresh \in [Brokers -> BOOLEAN]
    /\ connecting \subseteq KnownBrokers
    /\ brokerMonitor \in {"check", "act"}
    /\ brokersByHand \in BOOLEAN

\* If one broker stays up and the other stays down, trading settles on the one that
\* is up, although the choice never looks at health (broker_failover.py:55-62, 289-303).
SettlesOnHealthy ==
    \A b \in Brokers :
      <>[](/\ brokerUp[b] /\ b \in KnownBrokers /\ activeBroker # NoBroker
           /\ connecting = {} /\ ~brokersByHand
           /\ \A c \in Brokers \ {b} : ~brokerUp[c])
        => <>[](activeBroker = b)
=============================================================================
