------------------------------ MODULE RiskRules ------------------------------
(***************************************************************************)
(* risk_management/models.py and views.py with ml/enhancements/            *)
(* profit_target_manager.py: the circuit breakers and recovery tiers of a  *)
(* DrawdownMonitor, the sizes given to positions, the metrics of a day,    *)
(* the profit targets and the one active TradingSettings row.  Which task  *)
(* writes the monitor when is OrderExecution's; here are the rules.        *)
(***************************************************************************)
EXTENDS Integers, Sequences, FiniteSetsExt, Functions

CONSTANTS
    GoldEnabled,    \* gold_edge_enabled of the risk parameters
    Standard,       \* limits [drawdown, loss] in hundredths of a percent
    Gold,           \* the Gold Edge ones
    MaxTrades,      \* max_daily_trades
    MaxStreak,      \* gold_edge_circuit_breaker_consecutive_losses
    TargetLock,     \* daily_target_lock, in hundredths of a percent
    StartEquity,    \* starting_equity_today
    Results,        \* what a trade gains or loses
    Drawdowns,      \* values of drawdown_percent, in hundredths of a percent
    WinRates,       \* win rates, in percent
    EquityScales,   \* _equity_scale, in hundredths: 90 .. 110
    Workers,        \* processes that ask for the active settings
    MaxCount,       \* BOUND: trades of a day
    MaxDays         \* BOUND: days

ASSUME RiskAssumption ==
    /\ GoldEnabled \in BOOLEAN /\ StartEquity \in Nat /\ Results \subseteq Int
    /\ Standard.drawdown \in Nat /\ Gold.drawdown \in Nat
    /\ MaxStreak \in Nat /\ MaxCount \in Nat /\ MaxDays \in Nat \ {0} /\ IsFiniteSet(Workers)
    /\ Drawdowns \subseteq 0 .. 10000 /\ WinRates \subseteq 0 .. 100 /\ EquityScales \subseteq 90 .. 110

VARIABLES
    rrDrawdown,   \* drawdown_percent
    rrPnl,        \* daily_pnl
    rrLoss,       \* daily_loss_percent: the last loss, kept when the day recovers
    rrCount,      \* daily_trades_count
    rrClosed,     \* results of the user's trades closed today
    rrRisk,       \* the risk amount of the last PositionSizing row
    rrStreak,     \* gold_edge_consecutive_losses
    rrFlags,      \* the flags that are set: daily_loss, drawdown, target, max_trades, breaker
    rrDay,        \* the date
    rrTargets,    \* the cached targets: {} or {[day, daily]}, daily in ten-thousandths of a percent
    rrSettings,   \* TradingSettings rows with is_active
    rrSaw         \* of each worker: what its get_active is about to do

riskVars == <<rrDrawdown, rrPnl, rrLoss, rrCount, rrClosed, rrRisk, rrStreak, rrFlags, rrDay, rrTargets>>
settingsVars == <<rrSettings, rrSaw>>
rrVars == <<riskVars, settingsVars>>

RiskInit ==
    /\ rrDrawdown = 0 /\ rrPnl = 0 /\ rrLoss = 0 /\ rrCount = 0 /\ rrClosed = <<>> /\ rrRisk = 0 /\ rrStreak = 0
    /\ rrFlags = {} /\ rrDay = 1 /\ rrTargets = {}
    /\ rrSettings = 0 /\ rrSaw = [w \in Workers |-> "nothing"]

-----------------------------------------------------------------------------
(* The tables, by drawdown in hundredths of a percent                      *)

\* DRAWDOWN_TIERS and get_drawdown_recovery_tier: the number, the size in percent, the
\* trades allowed in a day and whether automated trading is.
Tier(dd) ==
    IF dd < 500 \/ dd >= 99900 THEN [tier |-> 0, size |-> 100, trades |-> 999, auto |-> TRUE]
    ELSE IF dd < 1000 THEN [tier |-> 1, size |-> 50, trades |-> 5, auto |-> TRUE]
    ELSE IF dd < 1500 THEN [tier |-> 2, size |-> 25, trades |-> 3, auto |-> TRUE]
    ELSE IF dd < 2000 THEN [tier |-> 3, size |-> 0, trades |-> 0, auto |-> FALSE]
    ELSE [tier |-> 4, size |-> 0, trades |-> 0, auto |-> FALSE]

\* get_recovery_protocol and apply_recovery_protocol; the normal number of trades is that
\* of the risk parameters.
Protocol(dd) ==
    IF dd >= 2000 THEN [size |-> 0, trades |-> 0, gold |-> FALSE, manual |-> TRUE]
    ELSE IF dd >= 1500 THEN [size |-> 0, trades |-> 0, gold |-> FALSE, manual |-> TRUE]
    ELSE IF dd >= 1000 THEN [size |-> 25, trades |-> 3, gold |-> TRUE, manual |-> FALSE]
    ELSE IF dd >= 500 THEN [size |-> 50, trades |-> 5, gold |-> TRUE, manual |-> FALSE]
    ELSE [size |-> 100, trades |-> MaxTrades, gold |-> TRUE, manual |-> FALSE]

\* DRAWDOWN_SCALERS, in tenths.
DrawdownScale(dd) ==
    IF dd < 500 THEN 10 ELSE IF dd < 1000 THEN 6 ELSE IF dd < 1500 THEN 3 ELSE 0

\* WINRATE_TARGET_MAP, in ten-thousandths of a percent.
BaseTarget(rate) ==
    IF rate < 30 THEN 500 ELSE IF rate < 40 THEN 800 ELSE IF rate < 50 THEN 1200
    ELSE IF rate < 55 THEN 1500 ELSE IF rate < 60 THEN 1800 ELSE IF rate < 70 THEN 2200 ELSE 2500

\* REGIME_SCALERS, in tenths.
RegimeScale == [TRENDING |-> 12, BREAKOUT |-> 11, RANGING |-> 7, VOLATILE |-> 8, NORMAL |-> 10]

MinTarget == 300
MaxTarget == 5000

Clamped(n) == IF n < MinTarget THEN MinTarget ELSE IF n > MaxTarget THEN MaxTarget ELSE n

DailyTarget(rate, regime, dd, scale) ==
    Clamped((BaseTarget(rate) * RegimeScale[regime] * DrawdownScale(dd) * scale) \div 10000)

-----------------------------------------------------------------------------
(* The monitor                                                             *)

Halving(n, d) == IF n >= 0 THEN n \div d ELSE -((-n) \div d)

\* daily_pnl_percent, in hundredths.
PnlPercent(pnl) == IF StartEquity > 0 THEN Halving(10000 * pnl, StartEquity) ELSE 0

\* update_daily_pnl; a positive day leaves the loss of before.
UpdateDailyPnl(result) ==
    /\ rrCount < MaxCount
    /\ rrPnl' = rrPnl + result /\ rrCount' = rrCount + 1 /\ rrClosed' = Append(rrClosed, result)
    /\ rrLoss' = IF StartEquity > 0 /\ rrPnl' < 0 THEN -PnlPercent(rrPnl') ELSE rrLoss
    /\ UNCHANGED <<rrDrawdown, rrRisk, rrStreak, rrFlags, rrDay, rrTargets, settingsVars>>

RecordGoldEdgeTrade(result) ==
    /\ rrStreak < MaxStreak + 1
    /\ rrStreak' = IF result < 0 THEN rrStreak + 1 ELSE 0
    /\ UNCHANGED <<rrDrawdown, rrPnl, rrLoss, rrCount, rrClosed, rrRisk, rrFlags, rrDay, rrTargets, settingsVars>>

\* The equity moves and with it the drawdown.
MoveDrawdown(dd) ==
    /\ rrDrawdown' = dd
    /\ UNCHANGED <<rrPnl, rrLoss, rrCount, rrClosed, rrRisk, rrStreak, rrFlags, rrDay, rrTargets, settingsVars>>

IsGold(strategy) == strategy = "gold_edge" /\ GoldEnabled
Limits(strategy) == IF IsGold(strategy) THEN Gold ELSE Standard

Raised(strategy, dd) ==
    (IF rrLoss >= Limits(strategy).loss THEN {"daily_loss", "breaker"} ELSE {})
    \union (IF dd >= Limits(strategy).drawdown THEN {"drawdown", "breaker"} ELSE {})
    \union (IF "target" \notin rrFlags /\ PnlPercent(rrPnl) >= TargetLock THEN {"target", "breaker"} ELSE {})
    \union (IF rrCount >= MaxTrades THEN {"max_trades", "breaker"} ELSE {})
    \union (IF IsGold(strategy) /\ rrStreak >= MaxStreak THEN {"breaker"} ELSE {})

CheckCircuitBreaker(strategy) ==
    /\ rrFlags' = rrFlags \union Raised(strategy, rrDrawdown)
    /\ UNCHANGED <<rrDrawdown, rrPnl, rrLoss, rrCount, rrClosed, rrRisk, rrStreak, rrDay, rrTargets, settingsVars>>

\* Flags that apply_drawdown_recovery adds; from tier 3 on no number of trades is checked.
Recovery(strategy, dd) ==
    LET t == Tier(dd) IN
    (IF t.tier # 0 /\ t.trades > 0 /\ rrCount >= t.trades THEN {"max_trades", "breaker"} ELSE {})
    \union (IF t.tier # 0 /\ ~t.auto THEN {"breaker"} ELSE {})
    \union (IF t.tier >= 2 /\ strategy # "gold_edge" THEN {"breaker"} ELSE {})

ApplyDrawdownRecovery(strategy) ==
    /\ rrFlags' = rrFlags \union Recovery(strategy, rrDrawdown)
    /\ UNCHANGED <<rrDrawdown, rrPnl, rrLoss, rrCount, rrClosed, rrRisk, rrStreak, rrDay, rrTargets, settingsVars>>

\* reset_daily: the streak and the drawdown flag stay.
ResetDaily ==
    /\ rrDay < MaxDays /\ rrDay' = rrDay + 1
    /\ rrPnl' = 0 /\ rrLoss' = 0 /\ rrCount' = 0 /\ rrClosed' = <<>>
    /\ rrFlags' = rrFlags \intersect {"drawdown"}
    /\ UNCHANGED <<rrDrawdown, rrRisk, rrStreak, rrTargets, settingsVars>>

-----------------------------------------------------------------------------
(* Profit targets                                                          *)

Today == {t \in rrTargets : t.day = rrDay}

\* The first targets of a day are kept for it.  The amounts multiply the equity by a
\* Decimal: equity that is a float ends the call before anything is cached.
ComputeTargets(rate, regime, scale, whole) ==
    /\ rrTargets' = IF Today # {} \/ ~whole THEN rrTargets
                    ELSE {[day |-> rrDay, daily |-> DailyTarget(rate, regime, rrDrawdown, scale)]}
    /\ UNCHANGED <<rrDrawdown, rrPnl, rrLoss, rrCount, rrClosed, rrRisk, rrStreak, rrFlags, rrDay, settingsVars>>

CurrentTarget == IF Today = {} THEN 1500 ELSE (CHOOSE t \in Today : TRUE).daily

\* enforce_targets_on_drawdown_monitor sets or clears the flag; the breaker is left alone.
EnforceTargets ==
    /\ rrFlags' = IF 100 * PnlPercent(rrPnl) >= CurrentTarget THEN rrFlags \union {"target"}
                  ELSE rrFlags \ {"target"}
    /\ UNCHANGED <<rrDrawdown, rrPnl, rrLoss, rrCount, rrClosed, rrRisk, rrStreak, rrDay, rrTargets, settingsVars>>

\* should_allow_new_trade
AllowsNewTrade(dd) ==
    /\ 100 * PnlPercent(rrPnl) < CurrentTarget
    /\ PnlPercent(rrPnl) > -200
    /\ rrCount < 10
    /\ DrawdownScale(dd) # 0

-----------------------------------------------------------------------------
(* Sizes and metrics                                                       *)

\* PositionSizingView: 2% of the equity is the day's budget; what is left of it may be
\* negative, and the size with it.
Budget(equity, pnl) == 2 * equity + 100 * pnl
RiskAmount(equity, pnl, percent) ==
    IF percent * equity > Budget(equity, pnl) THEN Budget(equity, pnl) ELSE percent * equity

SizePosition(percent) ==
    /\ rrRisk' = RiskAmount(StartEquity, rrPnl, percent)
    /\ UNCHANGED <<rrDrawdown, rrPnl, rrLoss, rrCount, rrClosed, rrStreak, rrFlags, rrDay, rrTargets, settingsVars>>

\* GoldEdgeRiskParameter.calculate_position_size, in hundredths of a lot: 2% of the equity
\* over twice the ATR at 100 a lot, at most a lot per 100 of equity.
AtLeast(n, m) == IF n < m THEN m ELSE n
GoldLots(equity, atr, price) ==
    IF atr <= 0 \/ price <= 0 THEN 1
    ELSE AtLeast(IF (2 * equity) \div (2 * atr * 100) < AtLeast(equity, 1)
                 THEN (2 * equity) \div (2 * atr * 100) ELSE AtLeast(equity, 1), 1)

\* GoldEdgeRiskParameter.check_circuit_breaker: the first of four reasons.
GoldBreaker(streak, trades, dd, minutes) ==
    \/ streak >= 5 \/ trades >= 8 \/ dd >= 3000 \/ minutes < 15

\* calculate_metrics of a DailyPerformance, from the results of the day's closed trades.
DayMetrics(results) ==
    LET gains == {i \in DOMAIN results : results[i] > 0}
        losses == {i \in DOMAIN results : results[i] < 0}
        sum(trades) == MapThenSumSet(LAMBDA i : results[i], trades) IN
    [total |-> Len(results), wins |-> Cardinality(gains), losses |-> Cardinality(losses),
     profit |-> sum(gains), loss |-> -sum(losses), pnl |-> sum(gains) + sum(losses)]

-----------------------------------------------------------------------------
(* The active settings.  No constraint keeps a second active row out.      *)

\* get_or_create looks ...
GetActive(w) ==
    /\ rrSaw[w] # "create"
    /\ rrSaw' = [rrSaw EXCEPT ![w] =
           IF rrSettings = 0 THEN "create" ELSE IF rrSettings = 1 THEN "row" ELSE "raised"]
    /\ UNCHANGED <<riskVars, rrSettings>>

\* ... and creates what it did not see.
CreateActive(w) ==
    /\ rrSaw[w] = "create"
    /\ rrSettings' = rrSettings + 1
    /\ rrSaw' = [rrSaw EXCEPT ![w] = "row"]
    /\ UNCHANGED riskVars

-----------------------------------------------------------------------------

RiskNext ==
    \/ \E r \in Results : UpdateDailyPnl(r) \/ RecordGoldEdgeTrade(r)
    \/ \E dd \in Drawdowns : MoveDrawdown(dd)
    \/ \E s \in {"standard", "gold_edge"} : CheckCircuitBreaker(s) \/ ApplyDrawdownRecovery(s)
    \/ ResetDaily
    \/ \E rate \in WinRates, regime \in DOMAIN RegimeScale, scale \in EquityScales, whole \in BOOLEAN :
         ComputeTargets(rate, regime, scale, whole)
    \/ EnforceTargets
    \/ SizePosition(1)

SettingsNext == \E w \in Workers : GetActive(w) \/ CreateActive(w)

RiskSpec == RiskInit /\ [][RiskNext \/ SettingsNext]_rrVars

-----------------------------------------------------------------------------

\* The three tables of a drawdown, written apart, say the same: the tier's size is the
\* protocol's, and both stop automated trading exactly where there is no profit target to
\* reach (risk_management/models.py:539-545, 674-722, profit_target_manager.py:54-60).
TablesAgree(dd) ==
    /\ Tier(dd).size = Protocol(dd).size
    /\ Tier(dd).tier # 0 => Tier(dd).trades = Protocol(dd).trades
    /\ Tier(dd).auto <=> ~Protocol(dd).manual
    /\ Tier(dd).auto <=> DrawdownScale(dd) # 0

\* A deeper drawdown never loosens a rule: its size and its target are no larger, and what
\* stops trading at the smaller drawdown stops it at the larger one.
Stricter(d, e, strategy) ==
    d <= e =>
      /\ Tier(e).size <= Tier(d).size
      /\ DrawdownScale(e) <= DrawdownScale(d)
      /\ "breaker" \in Recovery(strategy, d) => "breaker" \in Recovery(strategy, e)
      /\ Raised(strategy, d) \subseteq Raised(strategy, e)
      /\ GoldBreaker(rrStreak, rrCount, d, 15) => GoldBreaker(rrStreak, rrCount, e, 15)
      /\ AllowsNewTrade(e) => AllowsNewTrade(d)

\* Types; the metrics computed from the day's trades are what the monitor counted one by
\* one, and targets stay within their bounds.
RiskTypeOK ==
    /\ rrDrawdown \in Drawdowns \union {0} /\ rrPnl \in Int /\ rrLoss \in Nat
    /\ rrCount \in 0 .. MaxCount /\ rrStreak \in 0 .. MaxStreak + 1
    /\ rrFlags \subseteq {"daily_loss", "drawdown", "target", "max_trades", "breaker"}
    /\ rrDay \in 1 .. MaxDays
    /\ DayMetrics(rrClosed).pnl = rrPnl /\ DayMetrics(rrClosed).total = rrCount
    /\ rrRisk <= StartEquity
    /\ \A t \in rrTargets : t.day \in 1 .. rrDay /\ t.daily \in MinTarget .. MaxTarget
    /\ rrSettings \in 0 .. Cardinality(Workers)
    /\ rrSaw \in [Workers -> {"nothing", "create", "row", "raised"}]
    /\ \A dd \in Drawdowns : TablesAgree(dd)
    /\ \A d, e \in Drawdowns, s \in {"standard", "gold_edge"} : Stricter(d, e, s)
=============================================================================
