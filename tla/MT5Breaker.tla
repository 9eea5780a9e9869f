---------------------------- MODULE MT5Breaker ----------------------------
(***************************************************************************)
(* mcp_integration/services.py: the circuit breaker every request to the   *)
(* MT5 bridge goes through, with requests of several coroutines in flight. *)
(* The breaker changes between awaits only; an answer may come after the   *)
(* breaker has changed, and a cancelled request records nothing.           *)
(***************************************************************************)
EXTENDS Integers, FiniteSets

CONSTANTS
    Callers,            \* coroutines that use the service
    BreakerThreshold,   \* failure_threshold (5)
    ConnectRetries      \* max_retries of connect (5)

ASSUME BreakerAssumption ==
    /\ BreakerThreshold \in Nat \ {0}
    /\ ConnectRetries \in Nat \ {0}

VARIABLES
    breaker,        \* "closed", "open" or "half_open"
    breakerFails,   \* failure_count, counted to the threshold
    breakerCool,    \* recovery_timeout has passed since the last failure
    bridgeUp,       \* whether the bridge answers
    request,        \* of each caller: "none", or the outcome under way: "ok" or "bad"
    triesLeft,      \* attempts its connect() has left; 0 for a single request
    isConnected     \* _is_connected

breakerVars == <<breaker, breakerFails, breakerCool>>
mt5Vars == <<breakerVars, bridgeUp, request, triesLeft, isConnected>>

BreakerInit ==
    /\ breaker = "closed" /\ breakerFails = 0 /\ breakerCool = FALSE
    /\ bridgeUp \in BOOLEAN
    /\ request = [c \in Callers |-> "none"]
    /\ triesLeft = [c \in Callers |-> 0]
    /\ isConnected = FALSE

-----------------------------------------------------------------------------

RecordSuccess ==
    /\ breaker' = "closed"
    /\ breakerFails' = 0
    /\ UNCHANGED breakerCool

RecordFailure ==
    /\ breakerFails' = IF breakerFails < BreakerThreshold THEN breakerFails + 1 ELSE breakerFails
    /\ breaker' = IF breakerFails + 1 >= BreakerThreshold THEN "open" ELSE breaker
    /\ breakerCool' = FALSE

\* Variant: an open breaker stays so.
AllowedNever == breaker \in {"closed", "half_open"}

Allowed == breaker \in {"closed", "half_open"} \/ breakerCool

\* allow_request and the request it lets through; one that is refused raises.
Send(c) ==
    /\ Allowed
    /\ breaker' = IF breaker = "open" THEN "half_open" ELSE breaker
    /\ request' = [request EXCEPT ![c] = IF bridgeUp THEN "ok" ELSE "bad"]
    /\ UNCHANGED <<breakerFails, breakerCool, bridgeUp, isConnected>>

CallTool(c) ==
    /\ request[c] = "none" /\ triesLeft[c] = 0
    /\ Send(c)
    /\ UNCHANGED triesLeft

BeginConnect(c) ==
    /\ request[c] = "none" /\ triesLeft[c] = 0
    /\ triesLeft' = [triesLeft EXCEPT ![c] = ConnectRetries]
    /\ UNCHANGED <<breakerVars, bridgeUp, request, isConnected>>

\* One turn of connect's loop; a request the breaker refuses uses the attempt up.
TryConnect(c) ==
    /\ request[c] = "none" /\ triesLeft[c] > 0
    /\ IF Allowed THEN Send(c) /\ UNCHANGED triesLeft
       ELSE /\ triesLeft' = [triesLeft EXCEPT ![c] = @ - 1]
            /\ UNCHANGED <<breakerVars, bridgeUp, request, isConnected>>

\* An answer that came in: connect ends if the bridge says it is connected.
AnswerOk(c) ==
    /\ request[c] = "ok"
    /\ RecordSuccess
    /\ request' = [request EXCEPT ![c] = "none"]
    /\ \/ triesLeft[c] = 0 /\ UNCHANGED <<triesLeft, isConnected>>
       \/ /\ triesLeft[c] > 0
          /\ \/ triesLeft' = [triesLeft EXCEPT ![c] = 0] /\ isConnected' = TRUE
             \/ triesLeft' = [triesLeft EXCEPT ![c] = @ - 1] /\ UNCHANGED isConnected
    /\ UNCHANGED bridgeUp

AnswerBad(c) ==
    /\ request[c] = "bad"
    /\ RecordFailure
    /\ request' = [request EXCEPT ![c] = "none"]
    /\ triesLeft' = [triesLeft EXCEPT ![c] = IF @ > 0 THEN @ - 1 ELSE 0]
    /\ UNCHANGED <<bridgeUp, isConnected>>

\* Cancellation is no Exception: neither a success nor a failure is recorded.
Cancel(c) ==
    /\ request[c] # "none"
    /\ request' = [request EXCEPT ![c] = "none"]
    /\ triesLeft' = [triesLeft EXCEPT ![c] = 0]
    /\ UNCHANGED <<breakerVars, bridgeUp, isConnected>>

\* disconnect() ends so whatever became of its request, which is a CallTool.
MarkDisconnected ==
    /\ isConnected /\ isConnected' = FALSE
    /\ UNCHANGED <<breakerVars, bridgeUp, request, triesLeft>>

BridgeTurns ==
    /\ bridgeUp' = ~bridgeUp
    /\ UNCHANGED <<breakerVars, request, triesLeft, isConnected>>

CoolDown ==
    /\ breaker = "open" /\ ~breakerCool
    /\ breakerCool' = TRUE
    /\ UNCHANGED <<breaker, breakerFails, bridgeUp, request, triesLeft, isConnected>>

Answer(c) == AnswerOk(c) \/ AnswerBad(c)

BreakerNext ==
    \/ \E c \in Callers :
         \/ CallTool(c) \/ BeginConnect(c) \/ TryConnect(c) \/ Cancel(c)
         \/ AnswerOk(c) \/ AnswerBad(c)
    \/ MarkDisconnected
    \/ BridgeTurns
    \/ CoolDown

\* Time passes, a request is answered unless it is cancelled, not every one is
\* cancelled, and the periodic tasks call again and again.
BreakerFairness ==
    /\ WF_mt5Vars(CoolDown)
    /\ \A c \in Callers : /\ SF_mt5Vars(Answer(c))
                          /\ WF_mt5Vars(CallTool(c))
                          /\ WF_mt5Vars(TryConnect(c))

BreakerSpec == BreakerInit /\ [][BreakerNext]_mt5Vars /\ BreakerFairness

-----------------------------------------------------------------------------

\* Types; an open breaker has counted to the threshold.
BreakerTypeOK ==
    /\ breaker \in {"closed", "open", "half_open"}
    /\ breakerFails \in 0..BreakerThreshold
    /\ breaker # "closed" => breakerFails = BreakerThreshold
    /\ breakerCool \in BOOLEAN /\ bridgeUp \in BOOLEAN /\ isConnected \in BOOLEAN
    /\ request \in [Callers -> {"none", "ok", "bad"}]
    /\ triesLeft \in [Callers -> 0..ConnectRetries]

\* The breaker follows the bridge, whatever late answers and half-open trials come in
\* between: one that is up for good is used for good, and one that is down for good is
\* shielded, with the breaker open or half open (mcp_integration/services.py:14-41).
BreakerFollowsBridge ==
    /\ <>[]bridgeUp => <>[](breaker = "closed")
    /\ <>[]~bridgeUp => <>[](breaker # "closed")
=============================================================================
