-------------------------- MODULE PerformanceCache --------------------------
(***************************************************************************)
(* calculate_performance of config/tasks.py, which caches what the closed  *)
(* trades add up to, and the performance view of analytics/views.py, which *)
(* computes it afresh.  Each reads the trades in several queries, outside  *)
(* any transaction, while trades are closed, and while a modification      *)
(* that was under way at the time saves a closed one as OPEN again.  A     *)
(* closed trade is a win, a loss or neither.                               *)
(***************************************************************************)
EXTENDS Integers, Sequences, FiniteSets, Functions

CONSTANTS
    PcUsers,         \* the active users, in the order the task visits them
    PcSymbols,
    MaxClosed,       \* BOUND: the trades of a user
    Profits          \* what a trade brings when it is closed: 1, -1 or 0

ASSUME CacheAssumption ==
    /\ Len(PcUsers) \in Nat \ {0} /\ MaxClosed \in Nat /\ Profits \subseteq {-1, 0, 1}
    /\ PcSymbols \intersect {"idle", "today", "wins", "losses", "daily", "symbol"} = {}

VARIABLES
    pcTrades,        \* of each user: the trades, their symbol, whether closed, and the profit
    pcTask,          \* the task: "idle", "today", "wins", "losses", "daily", "symbol", or the symbol it is at
    pcUser,          \* the user it is at
    pcTodo,          \* the symbols it has still to do
    pcRead,          \* the counts it has read so far
    pcDaily, pcSymbol,    \* the cached rows; of the summaries there is never one
    pcView,          \* the view: "idle", "trades", "wins" or "losses"
    pcResponse       \* what it has computed

taskState == <<pcTask, pcUser, pcTodo, pcRead>>
cacheVars == <<pcDaily, pcSymbol>>
viewVars == <<pcView, pcResponse>>
pcVars == <<pcTrades, taskState, cacheVars, viewVars>>

Users == Range(PcUsers)
Slots == 1 .. MaxClosed
AnyProfit == {-1, 0, 1}

\* What is read of a user's trades; "moved" is a history: which way trades went between
\* the queries, to "closed" or back to open, "reopened".
Nothing == [user |-> PcUsers[1], total |-> 0, wins |-> 0, losses |-> 0, moved |-> {}]

ClosedOf(u, profits) == {i \in Slots : pcTrades[u][i].closed /\ pcTrades[u][i].profit \in profits}
Count(u, profits) == Cardinality(ClosedOf(u, profits))
OfSymbol(u, s, profits) == Cardinality({i \in ClosedOf(u, profits) : pcTrades[u][i].symbol = s})

PcInit ==
    /\ pcTrades \in [Users -> [Slots -> [symbol : PcSymbols, closed : {FALSE}, profit : {0}]]]
    /\ pcTask = "idle" /\ pcUser = 0 /\ pcTodo = {} /\ pcRead = Nothing
    /\ pcDaily = [u \in Users |-> Nothing]
    /\ pcSymbol = [u \in Users |-> [s \in PcSymbols |-> Nothing]]
    /\ pcView = "idle" /\ pcResponse = Nothing

-----------------------------------------------------------------------------

\* A trade goes one way between two queries of the row, or of the response, that counts it.
Moved(u, i, way) ==
    /\ pcRead' = IF pcRead.user = u /\ pcTask \in {"wins", "losses", pcTrades[u][i].symbol}
                 THEN [pcRead EXCEPT !.moved = @ \union {way}] ELSE pcRead
    /\ pcResponse' = IF pcResponse.user = u /\ pcView \in {"wins", "losses"}
                     THEN [pcResponse EXCEPT !.moved = @ \union {way}] ELSE pcResponse
    /\ UNCHANGED <<pcTask, pcUser, pcTodo, cacheVars, pcView>>

CloseTrade(u, i, profit) ==
    /\ ~pcTrades[u][i].closed
    /\ pcTrades' = [pcTrades EXCEPT ![u][i].closed = TRUE, ![u][i].profit = profit]
    /\ Moved(u, i, "closed")

\* modify_trade saves the whole row as it read it before it asked the broker: a trade that
\* was closed in the meantime is OPEN again, without a profit.  A modification may be under
\* way for any trade.
ReopenTrade(u, i) ==
    /\ pcTrades[u][i].closed
    /\ pcTrades' = [pcTrades EXCEPT ![u][i].closed = FALSE, ![u][i].profit = 0]
    /\ Moved(u, i, "reopened")

StartPass ==
    /\ pcTask = "idle"
    /\ pcTask' = "today" /\ pcUser' = 1 /\ pcRead' = Nothing /\ pcTodo' = {}
    /\ UNCHANGED <<pcTrades, cacheVars, viewVars>>

\* The daily row: the trades of the day are read for their profit, which also fixes their
\* number; the wins and the losses are queries of their own.
ReadToday ==
    /\ pcTask = "today"
    /\ pcRead' = [Nothing EXCEPT !.user = PcUsers[pcUser], !.total = Count(PcUsers[pcUser], AnyProfit)]
    /\ pcTask' = "wins"
    /\ UNCHANGED <<pcTrades, pcUser, pcTodo, cacheVars, viewVars>>

ReadWins ==
    /\ pcTask = "wins"
    /\ pcRead' = [pcRead EXCEPT !.wins = Count(PcUsers[pcUser], {1})]
    /\ pcTask' = "losses"
    /\ UNCHANGED <<pcTrades, pcUser, pcTodo, cacheVars, viewVars>>

ReadLosses ==
    /\ pcTask = "losses"
    /\ pcRead' = [pcRead EXCEPT !.losses = Count(PcUsers[pcUser], {-1})]
    /\ pcTask' = "daily"
    /\ UNCHANGED <<pcTrades, pcUser, pcTodo, cacheVars, viewVars>>

\* Then the symbols traded so far, one after the other.
WriteDaily ==
    LET u == PcUsers[pcUser] IN
    /\ pcTask = "daily"
    /\ pcDaily' = [pcDaily EXCEPT ![u] = pcRead]
    /\ pcTodo' = {s \in PcSymbols : OfSymbol(u, s, AnyProfit) > 0}
    /\ pcTask' = "symbol"
    /\ UNCHANGED <<pcTrades, pcUser, pcRead, pcSymbol, viewVars>>

\* Variant: the number of trades is the one read for the day.
SymbolRowOfDay(u, s) == [pcRead EXCEPT !.total = pcDaily[u].total]

SymbolRow(u, s) == [pcRead EXCEPT !.total = OfSymbol(u, s, AnyProfit)]

\* The row of a symbol: the wins, then the trades, which may be more or less by then.
ReadSymbol(s) ==
    /\ pcTask = "symbol" /\ s \in pcTodo
    /\ pcRead' = [Nothing EXCEPT !.user = PcUsers[pcUser], !.wins = OfSymbol(PcUsers[pcUser], s, {1})]
    /\ pcTodo' = pcTodo \ {s} /\ pcTask' = s
    /\ UNCHANGED <<pcTrades, pcUser, cacheVars, viewVars>>

WriteSymbol(s) ==
    /\ pcTask = s
    /\ pcSymbol' = [pcSymbol EXCEPT ![PcUsers[pcUser]][s] = SymbolRow(PcUsers[pcUser], s)]
    /\ pcTask' = "symbol"
    /\ UNCHANGED <<pcTrades, pcUser, pcTodo, pcRead, pcDaily, viewVars>>

\* The summaries of the periods follow.  The function imports timedelta in one branch of
\* their loop, which makes it a local name that the first period, today, uses before it is
\* bound: the task raises here at the first user, and no summary is ever cached.
SummariesRaise ==
    /\ pcTask = "symbol" /\ pcTodo = {}
    /\ pcTask' = "idle" /\ pcUser' = 0 /\ pcRead' = Nothing
    /\ UNCHANGED <<pcTrades, pcTodo, cacheVars, viewVars>>

-----------------------------------------------------------------------------

\* The view asks whether there is a trade, then reads the trades, the wins and the losses;
\* the numbers are those of the queries.
ViewExists(u) ==
    /\ pcView = "idle"
    /\ pcResponse' = [Nothing EXCEPT !.user = u]
    /\ pcView' = IF Count(u, AnyProfit) = 0 THEN "idle" ELSE "trades"
    /\ UNCHANGED <<pcTrades, taskState, cacheVars>>

ViewTrades ==
    /\ pcView = "trades"
    /\ pcResponse' = [pcResponse EXCEPT !.total = Count(pcResponse.user, AnyProfit)]
    /\ pcView' = "wins"
    /\ UNCHANGED <<pcTrades, taskState, cacheVars>>

ViewWins ==
    /\ pcView = "wins"
    /\ pcResponse' = [pcResponse EXCEPT !.wins = Count(pcResponse.user, {1})]
    /\ pcView' = "losses"
    /\ UNCHANGED <<pcTrades, taskState, cacheVars>>

\* If the trades that there were have all been reopened before they were read, the best of
\* them is the maximum of an empty list: the view raises and answers nothing.
ViewLosses ==
    /\ pcView = "losses"
    /\ pcResponse' = IF pcResponse.total = 0 THEN Nothing
                     ELSE [pcResponse EXCEPT !.losses = Count(pcResponse.user, {-1})]
    /\ pcView' = "idle"
    /\ UNCHANGED <<pcTrades, taskState, cacheVars>>

PcNext ==
    \/ \E u \in Users, i \in Slots : ReopenTrade(u, i) \/ \E p \in Profits : CloseTrade(u, i, p)
    \/ StartPass \/ ReadToday \/ ReadWins \/ ReadLosses \/ WriteDaily
    \/ \E s \in PcSymbols : ReadSymbol(s) \/ WriteSymbol(s)
    \/ SummariesRaise
    \/ \E u \in Users : ViewExists(u)
    \/ ViewTrades \/ ViewWins \/ ViewLosses

PcSpec == PcInit /\ [][PcNext]_pcVars

-----------------------------------------------------------------------------

PcTypeOK ==
    /\ pcTask \in {"idle", "today", "wins", "losses", "daily", "symbol"} \union PcSymbols
    /\ pcUser \in 0 .. Len(PcUsers) /\ pcTodo \subseteq PcSymbols
    /\ pcView \in {"idle", "trades", "wins", "losses"}
    /\ \A u \in Users, i \in Slots : pcTrades[u][i].profit \in AnyProfit

Overcounted(row) == row.wins + row.losses > row.total

\* Nothing keeps figures read in several queries from contradicting each other; but the
\* order of the queries says what it takes.  The total of a day is read first: its wins and
\* losses exceed it only if a trade was closed between the queries, and none that is
\* reopened and closed again may hide.  The wins of a symbol are read first: they exceed
\* its trades only if one was reopened in between.  The response of the view is like the
\* day (tasks.py:447-487, views.py:38-71).
MismatchMeansMoved ==
    /\ \A u \in Users :
          /\ Overcounted(pcDaily[u]) => "closed" \in pcDaily[u].moved
          /\ \A s \in PcSymbols : pcSymbol[u][s].wins > pcSymbol[u][s].total => "reopened" \in pcSymbol[u][s].moved
    /\ Overcounted(pcResponse) => "closed" \in pcResponse.moved
=============================================================================
