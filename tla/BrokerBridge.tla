---------------------------- MODULE BrokerBridge ----------------------------
(***************************************************************************)
(* The way of a trade to the terminal: the client                          *)
(* (mcp_integration/services.py, views.py) posts to a bridge on port 8082, *)
(* which is either the MCP server the paths /tools/... are made for, or    *)
(* mt5-bridge/bridge_server.py, which the deployment guide puts in its     *)
(* place and which knows none of them.  The bridge serves one request at a *)
(* time.  The client waits ten seconds; a request it gave up on is served  *)
(* all the same.  The breaker of the client is in MT5Breaker.              *)
(***************************************************************************)
EXTENDS Integers, Sequences, FiniteSets

CONSTANTS
    MaxTickets,      \* BOUND: positions opened
    MaxQueue,        \* BOUND: requests the bridge has not served
    ConnectTries,    \* max_retries of connect, 5
    OrderPrices      \* stop and target prices; 0 is no level

ASSUME BridgeAssumption ==
    /\ {MaxTickets, MaxQueue} \subseteq Nat /\ ConnectTries \in Nat \ {0}
    /\ 0 \in OrderPrices

VARIABLES
    brKind,          \* the bridge on the port: "native" or "mcp"
    brUp,            \* the terminal can be initialised
    brFlag,          \* MT5_CONNECTED of the native bridge
    brNext,          \* next ticket
    brOpen,          \* tickets open in the terminal
    brLevels,        \* their stop and target
    brQueue,         \* requests not served yet
    clWaits,         \* what a caller waits for, the last of them; "none"
    clConnected,     \* _is_connected
    clTries,         \* attempts the connect in progress has left, 0 for none
    clKnown,         \* tickets callers were told of
    clClosed,        \* tickets callers were told are closed
    clHeard,         \* whether health_check was healthy or a list of positions not empty
    bkLevels,        \* the levels the callers believe in
    bkOff            \* tickets whose levels a partial, refused or unanswered change left apart

terminalVars == <<brKind, brUp, brFlag, brNext, brOpen, brLevels>>
clientVars == <<clConnected, clTries, clKnown, clClosed, clHeard, bkLevels, bkOff>>
bridgeVars == <<terminalVars, brQueue, clWaits, clientVars>>

AllTickets == 1 .. MaxTickets
PricePair == [sl : OrderPrices, tp : OrderPrices]
NoPrices == [sl |-> 0, tp |-> 0]

BridgeInit ==
    /\ brKind \in {"native", "mcp"} /\ brUp \in BOOLEAN
    /\ brFlag = brUp /\ brNext = 1 /\ brOpen = {}
    /\ brLevels = [t \in AllTickets |-> NoPrices]
    /\ brQueue = <<>> /\ clWaits = "none" /\ clConnected = FALSE /\ clTries = 0
    /\ clKnown = {} /\ clClosed = {} /\ clHeard = FALSE
    /\ bkLevels = [t \in AllTickets |-> NoPrices] /\ bkOff = {}

-----------------------------------------------------------------------------
(* Requests of the client.                                                 *)

Request(op, ticket, levels) == [op |-> op, ticket |-> ticket, levels |-> levels]

Post(request) ==
    /\ clWaits = "none" /\ Len(brQueue) < MaxQueue
    /\ brQueue' = Append(brQueue, request) /\ clWaits' = request.op
    /\ UNCHANGED terminalVars

SendConnect ==
    /\ Post(Request("connect", 0, NoPrices))
    /\ clTries' = IF clTries = 0 THEN ConnectTries - 1 ELSE clTries - 1
    /\ UNCHANGED <<clConnected, clKnown, clClosed, clHeard, bkLevels, bkOff>>

SendPlain(op) ==
    /\ clTries = 0
    /\ Post(Request(op, 0, NoPrices))
    /\ UNCHANGED clientVars

\* A market order with its stop and target.
SendOpen(levels) ==
    /\ clTries = 0 /\ brNext <= MaxTickets
    /\ Post(Request("open", 0, levels))
    /\ UNCHANGED clientVars

SendClose(t) ==
    /\ clTries = 0 /\ t \in clKnown \ clClosed
    /\ Post(Request("close", t, NoPrices))
    /\ UNCHANGED clientVars

\* A caller that changes one level leaves out the other, which is sent as 0.
SendModify(t, levels) ==
    /\ clTries = 0 /\ t \in clKnown \ clClosed /\ levels # NoPrices
    /\ Post(Request("modify", t, levels))
    /\ bkOff' = bkOff \cup {t}
    /\ UNCHANGED <<clConnected, clTries, clKnown, clClosed, clHeard, bkLevels>>

-----------------------------------------------------------------------------
(* What the terminal does.                                                 *)

\* modify_trade writes the levels that were named into the book and keeps the others.
Believed(t, levels) ==
    [sl |-> IF levels.sl = 0 THEN bkLevels[t].sl ELSE levels.sl,
     tp |-> IF levels.tp = 0 THEN bkLevels[t].tp ELSE levels.tp]

Opens(levels) ==
    /\ brNext <= MaxTickets
    /\ brOpen' = brOpen \cup {brNext} /\ brNext' = brNext + 1
    /\ brLevels' = [brLevels EXCEPT ![brNext] = levels]
    /\ UNCHANGED <<brKind, brUp, brFlag>>

Closes(t) ==
    /\ t \in brOpen
    /\ brOpen' = brOpen \ {t}
    /\ UNCHANGED <<brKind, brUp, brFlag, brNext, brLevels>>

Modifies(t, levels) ==
    /\ t \in brOpen
    /\ brLevels' = [brLevels EXCEPT ![t] = levels]
    /\ UNCHANGED <<brKind, brUp, brFlag, brNext, brOpen>>

\* The answer of the bridge is handed to the caller, unless it is lost or nobody waits.
Tells(told) ==
    /\ brQueue' = Tail(brQueue)
    /\ clWaits' = IF told THEN "none" ELSE clWaits
    /\ told => clWaits # "none" /\ Len(brQueue) = 1

Serving(op) == brQueue # <<>> /\ Head(brQueue).op = op

\* A failed initialisation leaves MT5_CONNECTED as it was.
ServeConnect(told) ==
    /\ Serving("connect") /\ Tells(told)
    /\ brFlag' = (brFlag \/ brUp)
    /\ clConnected' = (clConnected \/ (told /\ brUp))
    /\ clTries' = IF told /\ brUp THEN 0 ELSE clTries
    /\ UNCHANGED <<brKind, brUp, brNext, brOpen, brLevels, clKnown, clClosed, clHeard, bkLevels, bkOff>>

\* Whatever comes back the client is disconnected afterwards.
ServeDisconnect(told) ==
    /\ Serving("disconnect") /\ Tells(told)
    /\ brFlag' = FALSE
    /\ clConnected' = IF told THEN FALSE ELSE clConnected
    /\ UNCHANGED <<brKind, brUp, brNext, brOpen, brLevels, clTries, clKnown, clClosed, clHeard, bkLevels, bkOff>>

\* The client looks for "success", which the native bridge does not send.
ServeHealth(told) ==
    /\ Serving("health") /\ Tells(told)
    /\ clHeard' = (clHeard \/ (told /\ brKind = "mcp" /\ brUp))
    /\ UNCHANGED <<terminalVars, clConnected, clTries, clKnown, clClosed, bkLevels, bkOff>>

\* An answer without positions, an error for one, is an empty list.
ServePositions(told) ==
    /\ Serving("positions") /\ Tells(told)
    /\ clHeard' = (clHeard \/ (told /\ brKind = "mcp" /\ brUp /\ brOpen # {}))
    /\ UNCHANGED <<terminalVars, clConnected, clTries, clKnown, clClosed, bkLevels, bkOff>>

\* An order without a ticket in its answer has failed.
ServeOpen(told, accepted) ==
    /\ Serving("open") /\ Tells(told)
    /\ IF accepted THEN brKind = "mcp" /\ brUp /\ Opens(Head(brQueue).levels) ELSE UNCHANGED terminalVars
    /\ clKnown' = IF told /\ accepted THEN clKnown \cup {brNext} ELSE clKnown
    /\ bkLevels' = IF told /\ accepted THEN [bkLevels EXCEPT ![brNext] = Head(brQueue).levels] ELSE bkLevels
    /\ UNCHANGED <<clConnected, clTries, clClosed, clHeard, bkOff>>

\* Any answer to a close or a change is a success.
ServeClose(told, accepted) ==
    /\ Serving("close") /\ Tells(told)
    /\ IF accepted THEN brKind = "mcp" /\ brUp /\ Closes(Head(brQueue).ticket) ELSE UNCHANGED terminalVars
    /\ clClosed' = IF told THEN clClosed \cup {Head(brQueue).ticket} ELSE clClosed
    /\ UNCHANGED <<clConnected, clTries, clKnown, clHeard, bkLevels, bkOff>>

\* The levels agree again when a change of both of them was accepted and answered.
ServeModify(told, accepted) ==
    /\ Serving("modify") /\ Tells(told)
    /\ LET t == Head(brQueue).ticket
           levels == Head(brQueue).levels IN
       /\ IF accepted THEN brKind = "mcp" /\ brUp /\ Modifies(t, levels) ELSE UNCHANGED terminalVars
       /\ bkLevels' = IF told THEN [bkLevels EXCEPT ![t] = Believed(t, levels)] ELSE bkLevels
       /\ bkOff' = IF told /\ accepted /\ levels.sl # 0 /\ levels.tp # 0 THEN bkOff \ {t} ELSE bkOff
    /\ UNCHANGED <<clConnected, clTries, clKnown, clClosed, clHeard>>

\* The client gives up on its request; a connect tries again while it has attempts, and
\* disconnect ends disconnected all the same.
GiveUp ==
    /\ clWaits # "none" /\ clWaits' = "none"
    /\ clConnected' = (clConnected /\ clWaits # "disconnect")
    /\ UNCHANGED <<terminalVars, brQueue, clTries, clKnown, clClosed, clHeard, bkLevels, bkOff>>

\* Paths of the native bridge nothing in the repository calls: an operator may.
DirectOpen(levels) ==
    /\ brKind = "native" /\ brUp /\ Opens(levels)
    /\ UNCHANGED <<brQueue, clWaits, clientVars>>

DirectClose(t) ==
    /\ brKind = "native" /\ brUp /\ Closes(t)
    /\ UNCHANGED <<brQueue, clWaits, clientVars>>

\* A level that is not named keeps its value here.
DirectModify(t, named) ==
    /\ brKind = "native" /\ brUp
    /\ \E levels \in PricePair :
         /\ \A side \in {"sl", "tp"} \ named : levels[side] = brLevels[t][side]
         /\ Modifies(t, levels)
    /\ UNCHANGED <<brQueue, clWaits, clientVars>>

\* The terminal goes or comes; a stop or target closes a position.
TerminalTurns ==
    /\ brUp' = ~brUp
    /\ UNCHANGED <<brKind, brFlag, brNext, brOpen, brLevels, brQueue, clWaits, clientVars>>

TerminalCloses(t) ==
    /\ brLevels[t] # NoPrices /\ Closes(t)
    /\ UNCHANGED <<brQueue, clWaits, clientVars>>

BridgeNext ==
    \/ SendConnect
    \/ \E op \in {"disconnect", "health", "positions"} : SendPlain(op)
    \/ \E levels \in PricePair : SendOpen(levels) \/ DirectOpen(levels)
    \/ \E t \in AllTickets : SendClose(t) \/ DirectClose(t) \/ TerminalCloses(t)
    \/ \E t \in AllTickets, levels \in PricePair : SendModify(t, levels)
    \/ \E t \in AllTickets, named \in SUBSET {"sl", "tp"} : DirectModify(t, named)
    \/ \E told \in BOOLEAN :
         \/ ServeConnect(told) \/ ServeDisconnect(told) \/ ServeHealth(told) \/ ServePositions(told)
         \/ \E accepted \in BOOLEAN :
              ServeOpen(told, accepted) \/ ServeClose(told, accepted) \/ ServeModify(told, accepted)
    \/ GiveUp \/ TerminalTurns

BridgeSpec == BridgeInit /\ [][BridgeNext]_bridgeVars

-----------------------------------------------------------------------------
(* Correctness.                                                            *)

\* With the native bridge no call of the client trades: it is told of no position, lists
\* none and never calls the bridge healthy (bridge_server.py:361-400,
\* mcp_integration/services.py:185-216, 254-278).
NativeTradesNothing ==
    brKind = "native" => clKnown = {} /\ clClosed = {} /\ ~clHeard

\* The levels the book holds of an open position are those of the terminal, until a change
\* names one level only (the other is removed), is refused, or is not answered
\* (mcp_integration/services.py:288-297, trading/services.py:384-408).
LevelsAgree ==
    \A t \in (clKnown \cap brOpen) \ bkOff : bkLevels[t] = brLevels[t]

BridgeTypeOK ==
    /\ brKind \in {"native", "mcp"} /\ brUp \in BOOLEAN /\ brFlag \in BOOLEAN
    /\ brNext \in 1 .. MaxTickets + 1 /\ brOpen \subseteq 1 .. brNext - 1
    /\ brLevels \in [AllTickets -> PricePair] /\ bkLevels \in [AllTickets -> PricePair]
    /\ clHeard \in BOOLEAN
    /\ clWaits \in {"none", "connect", "disconnect", "health", "positions", "open", "close", "modify"}
    /\ Len(brQueue) <= MaxQueue /\ clTries \in 0 .. ConnectTries
    /\ clClosed \subseteq clKnown /\ clKnown \subseteq 1 .. brNext - 1 /\ bkOff \subseteq clKnown
    /\ NativeTradesNothing /\ LevelsAgree
=============================================================================
