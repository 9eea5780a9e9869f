---------------------------- MODULE SignalEngine ----------------------------
(***************************************************************************)
(* The signals of the strategies: calculate_signal on one timeframe, the   *)
(* confluence of the timeframes, the two Celery tasks that store them with *)
(* their retries, and the regime switcher.  Candles are abstracted to what *)
(* the indicators say of them: a reading.  Strengths and weights are in    *)
(* percent; a score the database refuses is one of four digits.            *)
(***************************************************************************)
EXTENDS Integers, Sequences, FiniteSets, FiniteSetsExt

CONSTANTS
    LiveTimeframes,          \* the timeframes that have candles; the others have none
    Readings,                \* what the indicators may say
    SignalRetries, IndicatorRetries,
    HistoryMax, HistoryKeep  \* when the regime history is trimmed, and to what

ASSUME SignalAssumption ==
    {SignalRetries, IndicatorRetries, HistoryMax, HistoryKeep} \subseteq Nat /\ HistoryKeep <= HistoryMax

Timeframes == {"M5", "M15", "M30", "H1", "H2", "H4"}
HigherTf == {"H2", "H4"}
MidTf == {"H1", "M30"}
Jobs == {"signals", "indicators"}

VARIABLES
    sgJob, sgPc, sgTries,            \* the task in the worker: "idle", "run", "done", "failed"
    sgScores, sgSignals, sgValues,   \* the rows it has stored: totals, signals, indicator values
    sgRegime, sgChanges,             \* the switcher: its regime and the length of its history
    sgPlan                           \* the levels last planned

taskVars == <<sgJob, sgPc, sgTries, sgScores, sgSignals, sgValues>>
regimeVars == <<sgRegime, sgChanges, sgPlan>>
sgVars == <<taskVars, regimeVars>>

Regimes == {"trending_strong", "trending_weak", "ranging", "volatile", "news", "low_liquidity"}
NoPlan == [side |-> "none", entry |-> 0, sl |-> 0, tp |-> 0]

SgInit ==
    /\ sgJob = "signals" /\ sgPc = "idle" /\ sgTries = 0
    /\ sgScores = <<>> /\ sgSignals = <<>> /\ sgValues = 0
    /\ sgRegime = "trending_weak" /\ sgChanges = 0 /\ sgPlan = NoPlan

-----------------------------------------------------------------------------
(* One timeframe                                                           *)

MinStrength ==
    [tf \in Timeframes |-> CASE tf = "M5" -> 65 [] tf = "M15" -> 60 [] tf = "H4" -> 50 [] OTHER -> 55]

\* The points of a reading for one side, of 90: RSI, the averages, MACD, the bands and
\* the place in them.  Averages that are equal count for selling, and so does MACD.
Points(r, side) ==
    (CASE r.rsi = <<side, "far">> -> 25 [] r.rsi = <<side, "near">> -> 10 [] OTHER -> 0)
    + (IF r.ema = side THEN 25 ELSE 0) + (IF r.macd = side THEN 20 ELSE 0)
    + (IF r.band = side THEN 15 ELSE 0) + (IF r.place = side THEN 5 ELSE 0)

\* The side with more points wins if it has enough of them.
CalculateSignal(tf, r) ==
    LET buy == (100 * Points(r, "BUY")) \div 90
        sell == (100 * Points(r, "SELL")) \div 90
        side == IF buy > sell /\ buy >= MinStrength[tf] THEN "BUY"
                ELSE IF sell > buy /\ sell >= MinStrength[tf] THEN "SELL" ELSE "NEUTRAL" IN
    [side |-> side, strength |-> Max({buy, sell})]

NoSignal == [side |-> "NEUTRAL", strength |-> 0]

-----------------------------------------------------------------------------
(* Confluence                                                              *)

Weight == [tf \in Timeframes |-> CASE tf = "M5" -> 10 [] tf = "M30" -> 20 [] tf = "H1" -> 25 [] OTHER -> 15]

SideOf(signals, side) == {tf \in Timeframes : signals[tf].side = side}

\* The strengths of a side, weighted: each is in percent already, and the sum is taken in
\* percent of the weights once more.
SideScore(signals, side) ==
    MapThenSumSet(LAMBDA tf : signals[tf].strength * Weight[tf], SideOf(signals, side))

Confluence(signals) ==
    LET long == SideScore(signals, "BUY")
        short == SideScore(signals, "SELL") IN
    [direction |-> IF long > short THEN "LONG" ELSE IF short > long THEN "SHORT" ELSE "NEUTRAL",
     total |-> IF long = short THEN 0 ELSE Max({long, short}),
     agreement |-> \E side \in {"BUY", "SELL"} : SideOf(signals, side) \cap HigherTf # {},
     aligned |-> \E side \in {"BUY", "SELL"} : HigherTf \union MidTf \subseteq SideOf(signals, side)]

\* Any higher timeframe will do, of either direction.
ShouldTrade(c) == c.direction # "NEUTRAL" /\ c.total >= 55 /\ c.agreement

-----------------------------------------------------------------------------
(* The tasks                                                               *)

\* What a column of five digits, two of them decimals, holds.
Fits(total) == total < 1000

Retry(limit) ==
    IF sgTries < limit THEN sgTries' = sgTries + 1 /\ UNCHANGED sgPc
    ELSE sgPc' = "failed" /\ UNCHANGED sgTries

TaskDone == sgPc' = "done" /\ UNCHANGED sgTries

StartTask(job) ==
    /\ sgPc # "run"
    /\ sgJob' = job /\ sgPc' = "run" /\ sgTries' = 0
    /\ sgScores' = <<>> /\ sgSignals' = <<>> /\ sgValues' = 0
    /\ UNCHANGED regimeVars

\* The score row comes first; a signal also needs the H1 timeframe's row.  A failure
\* retries the whole task, and the score stays.
StoreResults(c, h1) ==
    LET stored == Fits(c.total) /\ ShouldTrade(c) /\ h1 IN
    /\ sgScores' = IF Fits(c.total) THEN Append(sgScores, c.total) ELSE sgScores
    /\ sgSignals' = IF stored THEN Append(sgSignals, c.direction) ELSE sgSignals
    /\ IF Fits(c.total) /\ (ShouldTrade(c) => h1) THEN TaskDone ELSE Retry(SignalRetries)

\* A timeframe whose candles cannot be fetched counts as neutral.
SignalsFrom(readings) ==
    [tf \in Timeframes |->
        IF tf \in LiveTimeframes /\ readings[tf] # <<>> THEN CalculateSignal(tf, readings[tf][1]) ELSE NoSignal]

Fetches == [LiveTimeframes -> {<<>>} \union {<<x>> : x \in Readings}]

\* generate_signals
GenerateSignals(readings, symbol, h1) ==
    /\ sgPc = "run" /\ sgJob = "signals"
    /\ IF symbol THEN StoreResults(Confluence(SignalsFrom(readings)), h1)
       ELSE Retry(SignalRetries) /\ UNCHANGED <<sgScores, sgSignals>>
    /\ UNCHANGED <<sgJob, sgValues, regimeVars>>

\* calculate_indicators: the row is the last thing stored; candles that cannot be fetched,
\* an unknown symbol and a missing COMPOSITE indicator all retry.
CalculateIndicators(ok) ==
    /\ sgPc = "run" /\ sgJob = "indicators"
    /\ IF ok THEN TaskDone ELSE Retry(IndicatorRetries)
    /\ sgValues' = IF ok THEN sgValues + 1 ELSE sgValues
    /\ UNCHANGED <<sgJob, sgScores, sgSignals, regimeVars>>

TaskNext ==
    \/ \E j \in Jobs : StartTask(j)
    \/ \E r \in Fetches, s, h1 \in BOOLEAN : GenerateSignals(r, s, h1)
    \/ \E ok \in BOOLEAN : CalculateIndicators(ok)

-----------------------------------------------------------------------------
(* The regime switcher                                                     *)

\* The history is cut back once it has grown past its limit.
Switched(regime) ==
    /\ sgRegime' = regime
    /\ sgChanges' = IF regime = sgRegime THEN sgChanges
                    ELSE IF sgChanges + 1 > HistoryMax THEN HistoryKeep ELSE sgChanges + 1

\* A confident model decides, whatever it names; another leaves the regime.
FromModel(regime, confident) ==
    IF confident THEN Switched(regime) ELSE UNCHANGED <<sgRegime, sgChanges>>

\* The first that holds: illiquid, volatile, trending, ranging.
FromIndicators(illiquid, volatile, adx, narrow) ==
    Switched(IF illiquid THEN "low_liquidity"
             ELSE IF volatile THEN "volatile"
             ELSE IF adx > 30 THEN "trending_strong"
             ELSE IF adx < 20 /\ narrow THEN "ranging" ELSE "trending_weak")

DetectRegime ==
    /\ \/ \E r \in Regimes \union {"unknown"}, c \in BOOLEAN : FromModel(r, c)
       \/ \E i, v, n \in BOOLEAN, adx \in {19, 20, 30, 31} : FromIndicators(i, v, adx, n)
    /\ UNCHANGED <<taskVars, sgPlan>>

\* The configuration of a regime; an unknown one gets that of a weak trend.
StopMethod ==
    CASE sgRegime \in {"trending_strong", "volatile"} -> "wide" [] sgRegime = "ranging" -> "band"
      [] sgRegime = "low_liquidity" -> "tight" [] OTHER -> "medium"

\* The target in tenths of the risk.
TargetTenths ==
    CASE sgRegime = "trending_strong" -> 30 [] sgRegime = "volatile" -> 25 [] sgRegime = "ranging" -> 18
      [] sgRegime = "low_liquidity" -> 15 [] OTHER -> 20

\* calculate_stop_loss and calculate_take_profit: ten units of ATR per step of the price.
PlanOrder(side, entry, atr, lower, upper) ==
    LET distance == CASE StopMethod = "wide" -> 20 * atr [] StopMethod = "tight" -> 8 * atr [] OTHER -> 15 * atr
        sl == IF StopMethod = "band" THEN (IF side = "BUY" THEN lower ELSE upper)
              ELSE IF side = "BUY" THEN entry - distance ELSE entry + distance
        risk == IF entry > sl THEN entry - sl ELSE sl - entry
        gain == (risk * TargetTenths) \div 10 IN
    /\ sgPlan' = [side |-> side, entry |-> entry, sl |-> sl,
                  tp |-> IF side = "BUY" THEN entry + gain ELSE entry - gain]
    /\ UNCHANGED <<taskVars, sgRegime, sgChanges>>

RegimeNext ==
    \/ DetectRegime
    \/ \E s \in {"BUY", "SELL"}, a \in {0, 1} : PlanOrder(s, 100, a, 80, 120)

SgNext == TaskNext \/ RegimeNext
SgSpec == SgInit /\ [][SgNext]_sgVars

-----------------------------------------------------------------------------

\* However often a task is retried after storing part of its rows, it leaves one signal at
\* most, and that signal belongs to the last score it stored (tasks.py:171-214).
OneSignalPerTask ==
    /\ Len(sgSignals) <= 1
    /\ sgSignals # <<>> => sgPc = "done" /\ sgScores # <<>> /\ sgScores[Len(sgScores)] >= 55
    /\ Len(sgScores) <= sgTries + 1

SgTypeOK ==
    /\ sgJob \in Jobs /\ sgPc \in {"idle", "run", "done", "failed"}
    /\ sgTries \in 0 .. Max({SignalRetries, IndicatorRetries})
    /\ \A i \in DOMAIN sgSignals : sgSignals[i] \in {"LONG", "SHORT"}
    /\ sgRegime \in Regimes \union {"unknown"}
    /\ sgChanges \in 0 .. HistoryMax
    /\ OneSignalPerTask
=============================================================================
