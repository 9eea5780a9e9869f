------------------------------ MODULE Backtest ------------------------------
(***************************************************************************)
(* The two replay engines of config/tasks.py: run_backtest over a strategy *)
(* and run_gold_edge_backtest over the Gold Edge matrix.  A bar brings a   *)
(* close with a high and a low around it, the verdict of the strategy on   *)
(* the bars so far, and the ATR.  Amounts are whole numbers, lots are      *)
(* multiples of the smallest one.                                          *)
(***************************************************************************)
EXTENDS Integers, Sequences, SequencesExt, FiniteSetsExt

CONSTANTS
    InitialBalance,
    Prices,          \* the prices of the candles
    Bars,            \* BOUND: the number of bars replayed
    WarmUp,          \* replayed bars before the strategy engine may enter
    MaxBars,         \* after how many bars a position is closed
    RiskPercent,     \* what a trade may lose, in percent of the balance
    SlDistance, TpDistance   \* distances of the levels, in ATR

ASSUME BacktestAssumption ==
    /\ InitialBalance \in Int /\ Prices \subseteq Int /\ RiskPercent \in Nat
    /\ Bars \in Nat /\ WarmUp \in Nat /\ MaxBars \in Nat
    /\ SlDistance \in Nat /\ TpDistance \in Nat

Engines == {"strategy", "gold"}

VARIABLES
    btEngine,        \* the task that runs
    btStatus,        \* the row: "none", "PENDING", "RUNNING", "COMPLETED" or "FAILED"
    btPc,            \* the task: "idle", "queued", "replay", "ended" or "raised"
    btBar,           \* bars replayed
    btClose,         \* the close of the last one
    btPosition,      \* the open position, <<>> when flat
    btBalance, btPeak, btDrawdown,   \* the running account; the drawdown in percent
    btTrades,        \* the closed trades
    btCurve          \* the equity curve

btAccount == <<btBalance, btPeak, btDrawdown>>
btVars == <<btEngine, btStatus, btPc, btBar, btClose, btPosition, btAccount, btTrades, btCurve>>

BtInit ==
    /\ btEngine = "strategy" /\ btStatus = "none" /\ btPc = "idle"
    /\ btBar = 0 /\ btClose = 0 /\ btPosition = <<>>
    /\ btBalance = InitialBalance /\ btPeak = InitialBalance /\ btDrawdown = 0
    /\ btTrades = <<>> /\ btCurve = <<InitialBalance>>

-----------------------------------------------------------------------------

\* The view creates the row and queues the task.  A queue that refuses leaves a Gold
\* Edge row FAILED, and an error to the caller of the other view.
Submit(engine, queued) ==
    /\ btPc = "idle"
    /\ btEngine' = engine
    /\ btStatus' = IF ~queued /\ engine = "gold" THEN "FAILED" ELSE "PENDING"
    /\ btPc' = IF queued THEN "queued" ELSE "ended"
    /\ UNCHANGED <<btBar, btClose, btPosition, btAccount, btTrades, btCurve>>

\* The task fetches the candles.  Too few end it with an empty result; a fetch that
\* fails raises, and nothing catches it.
FetchCandles(engine, outcome) ==
    /\ btPc = "queued" /\ btEngine = engine
    /\ btPc' = CASE outcome = "enough" -> "replay" [] outcome = "short" -> "ended"
                 [] outcome = "error" -> "raised"
    /\ UNCHANGED <<btEngine, btBar, btClose, btPosition, btAccount, btTrades, btCurve>>

FetchForStrategy(outcome) == FetchCandles("strategy", outcome) /\ UNCHANGED btStatus

\* The Gold Edge row is marked running first, and stays so when the fetch raises.
FetchForGold(outcome) ==
    /\ FetchCandles("gold", outcome)
    /\ btStatus' = IF outcome = "short" THEN "COMPLETED" ELSE "RUNNING"

Pnl(position, price) == (price - position.entry) * position.dir * position.lots

StopHit(position, high, low) ==
    IF position.dir = 1 THEN low <= position.sl ELSE high >= position.sl

TargetHit(position, high, low) ==
    IF position.dir = 1 THEN high >= position.tp ELSE low <= position.tp

\* Whether the bar closes the position, and where: at the stop before the target.
Exits(position, bar, high, low) ==
    StopHit(position, high, low) \/ TargetHit(position, high, low) \/ bar - position.bar >= MaxBars

ExitPrice(position, close, high, low) ==
    IF StopHit(position, high, low) THEN position.sl
    ELSE IF TargetHit(position, high, low) THEN position.tp ELSE close

Trade(position, bar, price) ==
    [from |-> position.bar, to |-> bar, dir |-> position.dir, pnl |-> Pnl(position, price)]

\* The amount at risk over the distance to the stop, rounded, and never below one lot.
Lots(balance, distance) ==
    IF distance = 0 THEN 1
    ELSE Max({1, (2 * balance * RiskPercent + 100 * distance) \div (200 * distance)})

\* A strategy enters after the warm-up and only with an ATR; the matrix may enter with
\* none, and then both levels are the price.
MayEnter(engine, bar, signal, atr) ==
    /\ signal # "NONE"
    /\ engine = "strategy" => bar >= WarmUp /\ atr > 0

Opened(balance, bar, close, signal, atr) ==
    LET dir == IF signal = "LONG" THEN 1 ELSE -1 IN
    [dir |-> dir, entry |-> close, sl |-> close - dir * SlDistance * atr,
     tp |-> close + dir * TpDistance * atr, lots |-> Lots(balance, SlDistance * atr), bar |-> bar]

Equity(balance, position, close) ==
    IF position = <<>> THEN balance ELSE balance + Pnl(position[1], close)

DrawdownPercent(peak, equity) ==
    IF peak > 0 THEN ((peak - equity) * 100) \div peak ELSE 0

Peak(equity) == Max({btPeak, equity})

\* One bar: the open position is managed, then an entry looked for, then the equity kept.
ReplayBar(close, high, low, signal, atr) ==
    LET bar == btBar + 1
        leaves == btPosition # <<>> /\ Exits(btPosition[1], bar, high, low)
        trade == Trade(btPosition[1], bar, ExitPrice(btPosition[1], close, high, low))
        balance == IF leaves THEN btBalance + trade.pnl ELSE btBalance
        kept == IF leaves THEN <<>> ELSE btPosition
        position == IF kept = <<>> /\ MayEnter(btEngine, bar, signal, atr)
                      THEN <<Opened(balance, bar, close, signal, atr)>> ELSE kept
        equity == Equity(balance, position, close)
        peak == Peak(equity) IN
    /\ btPc = "replay" /\ btBar < Bars
    /\ btBar' = bar /\ btClose' = close
    /\ btPosition' = position
    /\ btBalance' = balance /\ btPeak' = peak
    /\ btDrawdown' = Max({btDrawdown, DrawdownPercent(peak, equity)})
    /\ btTrades' = IF leaves THEN Append(btTrades, trade) ELSE btTrades
    /\ btCurve' = Append(btCurve, equity)
    /\ UNCHANGED <<btEngine, btStatus, btPc>>

\* Variant: a position that is still open is counted but not realised.
RestCountedOnly ==
    /\ UNCHANGED btBalance
    /\ btTrades' = IF btPosition = <<>> THEN btTrades
                   ELSE Append(btTrades, Trade(btPosition[1], btBar, btClose))

\* What is still open is closed at the last close.
CloseRest ==
    LET trade == Trade(btPosition[1], btBar, btClose) IN
    IF btPosition = <<>> THEN UNCHANGED <<btBalance, btTrades>>
    ELSE btBalance' = btBalance + trade.pnl /\ btTrades' = Append(btTrades, trade)

\* After the last bar the result is stored.
FinishBacktest ==
    /\ btPc = "replay" /\ btBar = Bars
    /\ CloseRest
    /\ btPosition' = <<>>
    /\ btPc' = "ended"
    /\ btStatus' = IF btEngine = "gold" THEN "COMPLETED" ELSE btStatus
    /\ UNCHANGED <<btEngine, btBar, btClose, btPeak, btDrawdown, btCurve>>

BtNext ==
    \/ \E e \in Engines, q \in BOOLEAN : Submit(e, q)
    \/ \E o \in {"enough", "short", "error"} : FetchForStrategy(o) \/ FetchForGold(o)
    \/ \E c, h, l \in Prices, s \in {"LONG", "SHORT", "NONE"}, a \in {0, 1} :
          l <= c /\ c <= h /\ ReplayBar(c, h, l, s, a)
    \/ FinishBacktest

BtSpec == BtInit /\ [][BtNext]_btVars

-----------------------------------------------------------------------------

\* Types; the strategy engine's row has no status, which "PENDING" stands for.
BtTypeOK ==
    /\ btEngine \in Engines
    /\ btStatus \in {"none", "PENDING", "RUNNING", "COMPLETED", "FAILED"}
    /\ btPc \in {"idle", "queued", "replay", "ended", "raised"}
    /\ btBar \in 0 .. Bars
    /\ btPosition # <<>> => btPosition[1].bar \in 1 .. btBar /\ btPosition[1].lots >= 1
    /\ Len(btTrades) <= Bars
    /\ Len(btCurve) = btBar + 1

Realised(trades) ==
    LET pnl == [i \in DOMAIN trades |-> trades[i].pnl] IN MapThenSumSet(LAMBDA i : pnl[i], DOMAIN trades)

\* No point of the curve up to bar j is above point i.
IsHighUpTo(curve, i, j) == i \in 1 .. j /\ \A k \in 1 .. j : curve[k] <= curve[i]

\* A finished replay reconciles: the initial balance and the trades give the final
\* balance, which is where the equity curve ends, whatever was open when the candles
\* ran out; trades follow each other; and the drawdown that is stored covers every fall of
\* the equity curve from its highest point until then (tasks.py:638-679, 737-759, 1091-1165).
BacktestReconciles ==
    /\ btPc = "ended" =>
         /\ btBalance = InitialBalance + Realised(btTrades)
         /\ btBalance = Last(btCurve)
         /\ \A i, j \in DOMAIN btTrades : i < j => btTrades[i].to <= btTrades[j].from
    /\ \A i, j \in DOMAIN btCurve :
         IsHighUpTo(btCurve, i, j) => DrawdownPercent(btCurve[i], btCurve[j]) <= btDrawdown
=============================================================================
