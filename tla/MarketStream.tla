---------------------------- MODULE MarketStream ----------------------------
(***************************************************************************)
(* The live prices: the WebSocket consumers of market_data/consumers.py    *)
(* with their limit of connections per user and the tick subscriptions     *)
(* they share, the price service that polls the bridge and broadcasts      *)
(* (market_data/services.py), and the buffer of candles on their way to    *)
(* InfluxDB (ingestion.py, influxdb_client.py).  One user is followed.     *)
(***************************************************************************)
EXTENDS Integers, Sequences, FiniteSets, SequencesExt

CONSTANTS
    Sockets,         \* connections of the user
    StreamSymbols,
    MaxSockets,      \* connections a user may have, 5
    CountLife,       \* how long the count lives in the cache, 300 seconds
    BufferLimit,     \* _buffer_limit, 100
    MaxCandles       \* BOUND: candles taken in

ASSUME StreamAssumption ==
    /\ IsFiniteSet(Sockets) /\ {MaxSockets, MaxCandles} \subseteq Nat
    /\ {CountLife, BufferLimit} \subseteq Nat \ {0}

VARIABLES
    wsMapping,       \* whether the user in the scope is a mapping: the auth middleware's is not
    wsState,         \* of each socket: "new", "counting", "closing", "open", "gone" or "failed"
    wsRead,          \* the count a connecting socket has read
    wsCount,         \* ws_connections of the user in the cache, 0 for none
    wsLeft,          \* what is left of its life
    wsSlipped,       \* whether the count has been off: an expiry, a rejection, two at once
    wsBridge,        \* whether MT5 is connected
    wsFeed,          \* symbols whose ticks the one connection to the bridge is subscribed to
    psLast,          \* of each symbol: its last price, "none" before the first
    psShown,         \* of each symbol: the last price the watchers were sent
    inBuffer,        \* candles in the buffer
    inStored,        \* candles in InfluxDB
    inLost,          \* candles whose batch was not written
    inTaken          \* candles taken in so far

socketVars == <<wsMapping, wsState, wsRead, wsCount, wsLeft, wsSlipped, wsBridge, wsFeed>>
priceVars == <<psLast, psShown>>
ingestVars == <<inBuffer, inStored, inLost, inTaken>>
streamVars == <<socketVars, priceVars, ingestVars>>

StreamInit ==
    /\ wsMapping \in BOOLEAN
    /\ wsState = [c \in Sockets |-> "new"] /\ wsRead = [c \in Sockets |-> 0]
    /\ wsCount = 0 /\ wsLeft = 0 /\ wsSlipped = FALSE
    /\ wsBridge \in BOOLEAN /\ wsFeed = {}
    /\ psLast = [s \in StreamSymbols |-> "none"] /\ psShown = psLast
    /\ inBuffer = <<>> /\ inStored = {} /\ inLost = {} /\ inTaken = 0

-----------------------------------------------------------------------------
(* Connections.                                                            *)

Open == {c \in Sockets : wsState[c] = "open"}

\* connect reads the count of the user; a scope whose user is not a mapping raises there.
\* Two processes may read before either of them writes.
Connect1(c) ==
    /\ wsState[c] = "new"
    /\ wsState' = [wsState EXCEPT ![c] =
                     CASE ~wsMapping -> "failed"
                       [] wsMapping /\ wsCount >= MaxSockets -> "closing"
                       [] OTHER -> "counting"]
    /\ wsRead' = [wsRead EXCEPT ![c] = wsCount]
    /\ UNCHANGED <<wsMapping, wsCount, wsLeft, wsSlipped, wsBridge, wsFeed>>

\* The count and its life are written, the socket is accepted and the symbol subscribed.
Connect2(c, s) ==
    /\ wsState[c] = "counting"
    /\ wsCount' = wsRead[c] + 1 /\ wsLeft' = CountLife
    /\ wsSlipped' = (wsSlipped \/ wsRead[c] # wsCount)
    /\ wsState' = [wsState EXCEPT ![c] = "open"]
    /\ wsRead' = [wsRead EXCEPT ![c] = 0]
    /\ wsFeed' = IF wsBridge THEN wsFeed \cup {s} ELSE wsFeed
    /\ UNCHANGED <<wsMapping, wsBridge>>

\* disconnect, of a socket that was refused as well: the count goes down by one, and the
\* symbol is unsubscribed for everybody.
Disconnect(c, s) ==
    /\ wsState[c] \in {"open", "closing"}
    /\ IF wsCount > 0 THEN wsCount' = wsCount - 1 /\ wsLeft' = CountLife
       ELSE UNCHANGED <<wsCount, wsLeft>>
    /\ wsSlipped' = (wsSlipped \/ wsState[c] = "closing")
    /\ wsState' = [wsState EXCEPT ![c] = "gone"]
    /\ wsRead' = [wsRead EXCEPT ![c] = 0]
    /\ wsFeed' = IF wsBridge THEN wsFeed \ {s} ELSE wsFeed
    /\ UNCHANGED <<wsMapping, wsBridge>>

\* A subscribe or unsubscribe message of an open socket.
Subscribe(c, symbols, on) ==
    /\ wsState[c] = "open" /\ wsBridge
    /\ wsFeed' = IF on THEN wsFeed \cup symbols ELSE wsFeed \ symbols
    /\ UNCHANGED <<wsMapping, wsState, wsRead, wsCount, wsLeft, wsSlipped, wsBridge>>

\* The count runs out of the cache.
CountSecond ==
    /\ wsLeft > 0
    /\ wsLeft' = wsLeft - 1
    /\ wsCount' = IF wsLeft = 1 THEN 0 ELSE wsCount
    /\ wsSlipped' = (wsSlipped \/ (wsLeft = 1 /\ wsCount > 0))
    /\ UNCHANGED <<wsMapping, wsState, wsRead, wsBridge, wsFeed>>

\* MT5 is connected or lost; the subscriptions of a lost connection are not made again.
StreamBridgeTurns ==
    /\ wsBridge' = ~wsBridge
    /\ wsFeed' = {}
    /\ UNCHANGED <<wsMapping, wsState, wsRead, wsCount, wsLeft, wsSlipped>>

SocketsNext ==
    \/ \E c \in Sockets :
         \/ Connect1(c)
         \/ \E s \in StreamSymbols : Connect2(c, s) \/ Disconnect(c, s)
         \/ \E on \in BOOLEAN : Subscribe(c, StreamSymbols, on)
    \/ CountSecond \/ StreamBridgeTurns

-----------------------------------------------------------------------------
(* Prices.                                                                 *)

\* fetch_and_broadcast_prices, one symbol: an answer that holds anything is a price, an
\* error of the bridge one of zero; storing it raises inside the event loop, which is
\* logged, and the watchers are sent it unless the channel layer fails.
PriceTick(s, answer, sent) ==
    /\ wsBridge
    /\ answer \in {"quote", "error", "empty"}
    /\ psLast' = [psLast EXCEPT ![s] =
                    CASE answer = "quote" -> "price" [] answer = "error" -> "zero" [] answer = "empty" -> @]
    /\ psShown' = IF sent /\ answer # "empty" THEN [psShown EXCEPT ![s] = psLast'[s]] ELSE psShown
    /\ UNCHANGED <<socketVars, ingestVars>>

PricesNext ==
    \E s \in StreamSymbols, answer \in {"quote", "error", "empty"}, sent \in BOOLEAN :
        PriceTick(s, answer, sent)

-----------------------------------------------------------------------------
(* Candles.                                                                *)

\* flush takes the candles out of the buffer and writes one batch, whose result it does
\* not look at.
Written(candles, ok) ==
    /\ inStored' = IF ok THEN inStored \cup Range(candles) ELSE inStored
    /\ inLost' = IF ok THEN inLost ELSE inLost \cup Range(candles)

\* ingest_candle: at the limit the buffer is flushed.
IngestCandle(ok) ==
    /\ inTaken < MaxCandles
    /\ inTaken' = inTaken + 1
    /\ LET candles == Append(inBuffer, inTaken + 1) IN
       IF Len(candles) >= BufferLimit
       THEN inBuffer' = <<>> /\ Written(candles, ok)
       ELSE inBuffer' = candles /\ UNCHANGED <<inStored, inLost>>
    /\ UNCHANGED <<socketVars, priceVars>>

Flush(ok) ==
    /\ inBuffer # <<>>
    /\ inBuffer' = <<>> /\ Written(inBuffer, ok)
    /\ UNCHANGED <<inTaken, socketVars, priceVars>>

\* The process ends with candles in its buffer.
IngestCrash ==
    /\ inBuffer # <<>>
    /\ inLost' = inLost \cup Range(inBuffer) /\ inBuffer' = <<>>
    /\ UNCHANGED <<inStored, inTaken, socketVars, priceVars>>

IngestNext ==
    \/ \E ok \in BOOLEAN : IngestCandle(ok) \/ Flush(ok)
    \/ IngestCrash

StreamNext ==
    \/ SocketsNext /\ UNCHANGED <<priceVars, ingestVars>>
    \/ PricesNext
    \/ IngestNext

StreamSpec == StreamInit /\ [][StreamNext]_streamVars

-----------------------------------------------------------------------------
(* Correctness.                                                            *)

\* A user has more connections than are counted, or than are allowed, only after a count
\* ran out, a refused socket was counted off, or two counted at once
\* (consumers.py:24-29, 54-60).
CountIsOpen == ~wsSlipped => wsCount = Cardinality(Open) /\ Cardinality(Open) <= MaxSockets

\* Behind the auth middleware no price socket is ever open, and nothing is subscribed
\* (consumers.py:24, config/asgi.py).
NoneBehindMiddleware == ~wsMapping => Open = {} /\ wsFeed = {} /\ wsCount = 0

\* Every candle taken in is in the buffer, stored or in a batch that was lost: in one
\* place only (ingestion.py:15-37).
CandlesAccounted ==
    /\ Range(inBuffer) \cup inStored \cup inLost = 1 .. inTaken
    /\ Len(inBuffer) + Cardinality(inStored) + Cardinality(inLost) = inTaken
    /\ Len(inBuffer) < BufferLimit

StreamTypeOK ==
    /\ wsState \in [Sockets -> {"new", "counting", "closing", "open", "gone", "failed"}]
    /\ wsCount \in 0 .. MaxSockets /\ wsLeft \in 0 .. CountLife /\ wsFeed \subseteq StreamSymbols
    /\ psLast \in [StreamSymbols -> {"none", "price", "zero"}]
    /\ psShown \in [StreamSymbols -> {"none", "price", "zero"}]
    /\ CountIsOpen /\ NoneBehindMiddleware /\ CandlesAccounted
=============================================================================
