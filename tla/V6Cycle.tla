------------------------------ MODULE V6Cycle ------------------------------
(***************************************************************************)
(* The V6 orchestrator, the fallback of V6.5: one cycle over a market,     *)
(* phase by phase (ml/v6_orchestrator.py), with the strategies, the asset  *)
(* ensembles, the sizing and the execution checks it calls.  Prices and    *)
(* spreads are in tenths, confidences and weights in percent, sizes in     *)
(* ten-thousandths of a lot.                                               *)
(***************************************************************************)
EXTENDS Integers, Sequences, FiniteSets, FiniteSetsExt, Functions

CONSTANTS
    V6Markets,       \* the markets a cycle may be given: symbol -> quotation
    V6Symbols,       \* the symbols in the order of the dictionary
    PartsOf,         \* the currencies and instruments that occur in a symbol's name
    MomentumBars,    \* closes the scalping strategy reads, 10
    FastBars,        \* closes of the short average, the bands and the range, 20
    SlowBars,        \* closes of the long average, 50
    KellyWindow,     \* trades the Kelly statistics hold, 100
    KellyLeast,      \* trades before the statistics are computed, 10
    V6Regimes,       \* what the regime detector may answer
    Reports,         \* what an operator may report of the strategies' performance
    MaxRates         \* BOUND: entries of the meta learner's history

\* A bar of the feed, and what a market says of a symbol.
PriceBars == [close : Nat \ {0}, high : Int, low : Int]
Quoted(q) == q.spread \in Nat /\ q.volume \in Nat /\ q.bars \in Seq(PriceBars)

\* The code's windows are not empty, and a feed's prices are positive.
ASSUME V6Assumption ==
    /\ {MomentumBars, FastBars, SlowBars, KellyLeast} \subseteq Nat \ {0}
    /\ FastBars <= SlowBars
    /\ {KellyWindow, MaxRates} \subseteq Nat
    /\ V6Symbols \in Seq(Range(V6Symbols))
    /\ \A market \in V6Markets : \A s \in DOMAIN market : Quoted(market[s])

TopFive == 5
DefaultWeights == [scalping |-> 30, trend |-> 25, reversion |-> 15, breakout |-> 15, news |-> 15]

VARIABLES
    v6Ready,         \* the components are loaded
    v6Weights,       \* strategy_weights
    v6Phase,         \* the phase the cycle is in, "idle" between cycles
    v6Market,        \* the market of this cycle
    v6Opps,          \* the opportunities of the scan, best first
    v6Pred,          \* the symbols this cycle has a prediction of
    v6Signal,        \* the signal, <<>> for none
    v6Size,          \* the size the risk phase chose
    v6Kelly,         \* profits in trade_history of DynamicKelly
    v6Rates          \* performance_history of the meta learner

v6Cycle == <<v6Market, v6Opps, v6Pred, v6Signal, v6Size>>
v6Kept == <<v6Weights, v6Kelly, v6Rates>>
v6Vars == <<v6Ready, v6Phase, v6Cycle, v6Kept>>

V6Init ==
    /\ v6Ready = FALSE /\ v6Weights = DefaultWeights
    /\ v6Phase = "idle" /\ v6Market = <<>> /\ v6Opps = <<>> /\ v6Pred = {}
    /\ v6Signal = <<>> /\ v6Size = 0
    /\ v6Kelly = <<>> /\ v6Rates = <<>>

Least(a, b) == IF a < b THEN a ELSE b
Most(a, b) == IF a < b THEN b ELSE a
Magnitude(n) == IF n < 0 THEN -n ELSE n
LastOf(s, n) == SubSeq(s, Most(1, Len(s) - n + 1), Len(s))
SumAt(s, S) == MapThenSumSet(LAMBDA i : s[i], S)
SumOf(s) == SumAt(s, DOMAIN s)

\* The cycle is over; nothing of it is kept by the orchestrator.
V6End ==
    /\ v6Phase' = "idle" /\ v6Market' = <<>> /\ v6Opps' = <<>> /\ v6Pred' = {}
    /\ v6Signal' = <<>> /\ v6Size' = 0

-----------------------------------------------------------------------------
(* Phase 1: the liquid symbols with a small spread, best first.            *)

Liquid(q) == q.spread <= 5 /\ q.volume >= 100

OpportunityScore(q) == 6 * Least(1000, q.volume) + 4 * (1000 - 200 * q.spread)

Scanned(market) == {s \in Range(V6Symbols) : s \in DOMAIN market /\ Liquid(market[s])}

RankOf(s) == CHOOSE i \in DOMAIN V6Symbols : V6Symbols[i] = s

\* The sort is stable: of two symbols with one score the earlier in the dictionary leads.
Precedes(market, s, t) ==
    LET a == OpportunityScore(market[s])
        b == OpportunityScore(market[t])
    IN a > b \/ (a = b /\ RankOf(s) < RankOf(t))

\* The ranking of what was scanned: no other sequence of it is in order.
Rankings(market) ==
    {order \in [1 .. Cardinality(Scanned(market)) -> Scanned(market)] :
        \A i, j \in DOMAIN order : i < j => Precedes(market, order[i], order[j])}

\* Every component is loaded once, whatever fails to import.
V6Initialize == v6Ready' = TRUE

V6Scan(market) ==
    /\ v6Phase = "idle"
    /\ V6Initialize
    /\ IF Scanned(market) = {}
       THEN UNCHANGED <<v6Phase, v6Cycle>>
       ELSE /\ v6Phase' = "analysis" /\ v6Market' = market
            /\ \E ranked \in Rankings(market) :
                  v6Opps' = SubSeq(ranked, 1, Least(TopFive, Len(ranked)))
            /\ UNCHANGED <<v6Pred, v6Signal, v6Size>>
    /\ UNCHANGED v6Kept

-----------------------------------------------------------------------------
(* Phase 2: the asset ensembles, the pipeline and the learning rate.       *)

\* Every feature set turns a key that is there into a list, and fails on a single number.
\* The scan needs the volume as a number: the prediction raises and is passed over.
FeaturesExtracted(q) == "volume" \notin DOMAIN q

AssetPredictions(market, opps) == {s \in Range(opps) : FeaturesExtracted(market[s])}

\* The pipeline's answer is nested under a key of its own: such an entry has neither
\* confidence nor direction, so it weighs one half for the learning rate and makes no
\* signal.
LearningRate(performance) == IF performance > 95 THEN 80 ELSE 120   \* percent of the base rate

V6Analyse(regime, piped) ==
    /\ v6Phase = "analysis"
    /\ piped \subseteq Range(v6Opps)
    /\ v6Phase' = "signal"
    /\ v6Pred' = piped \cup AssetPredictions(v6Market, v6Opps)
    /\ v6Rates' = IF regime = "unknown" \/ Len(v6Rates) = MaxRates THEN v6Rates
                  ELSE Append(v6Rates, <<regime, LearningRate(50)>>)
    /\ UNCHANGED <<v6Ready, v6Weights, v6Market, v6Opps, v6Signal, v6Size, v6Kelly>>

-----------------------------------------------------------------------------
(* Phase 3: the strategies, then the predictions.                          *)

NoVote == [dir |-> 0, confidence |-> 0]
Vote(dir, confidence) == [dir |-> dir, confidence |-> confidence]
CloseOf(bars) == bars[Len(bars)].close
ClosesOf(bars, n) == [i \in 1 .. n |-> bars[Len(bars) - n + i].close]

\* How sure a vote is, by a change relative to its base.
Strength(change, base) == Least(90, (10000 * Magnitude(change)) \div base)

ScalpingVote(bars) ==
    IF Len(bars) < MomentumBars THEN NoVote
    ELSE LET first == bars[Len(bars) - MomentumBars + 1].close
             move == CloseOf(bars) - first
             strength == Strength(move, first)
         IN IF 1000 * move > first THEN Vote(1, strength)
            ELSE IF 1000 * move < -first THEN Vote(-1, strength)
            ELSE NoVote

TrendVote(bars) ==
    IF Len(bars) < SlowBars THEN NoVote
    ELSE LET fast == SumOf(ClosesOf(bars, FastBars)) * SlowBars
             slow == SumOf(ClosesOf(bars, SlowBars)) * FastBars
             now == CloseOf(bars) * SlowBars * FastBars
             strength == Strength(fast - slow, slow)
         IN IF fast > slow /\ now > fast THEN Vote(1, strength)
            ELSE IF fast < slow /\ now < fast THEN Vote(-1, strength)
            ELSE NoVote

\* Outside two deviations the ratio of the confidence is above one, so it is the cap.
ReversionVote(bars) ==
    IF Len(bars) < FastBars THEN NoVote
    ELSE LET closes == ClosesOf(bars, FastBars)
             total == SumOf(closes)
             squares == SumOf([i \in 1 .. FastBars |-> closes[i] * closes[i]])
             off == FastBars * CloseOf(bars) - total
         IN IF off * off <= 4 * (FastBars * squares - total * total) THEN NoVote
            ELSE Vote(IF off < 0 THEN 1 ELSE -1, 85)

\* The range holds the last bar itself.
BreakoutVote(bars) ==
    LET window == IF Len(bars) < FastBars THEN {}
                  ELSE Len(bars) - FastBars + 1 .. Len(bars)
    IN IF window = {} THEN NoVote
       ELSE IF \A i \in window : CloseOf(bars) > bars[i].high THEN Vote(1, 75)
       ELSE IF \A i \in window : CloseOf(bars) < bars[i].low THEN Vote(-1, 75)
       ELSE NoVote

\* Takes the volume for a list, raises, and is passed over.
NewsVote == NoVote

CombinedScore(bars, weights) ==
    LET part(vote, weight) == vote.dir * vote.confidence * weight
    IN part(ScalpingVote(bars), weights.scalping)
         + part(TrendVote(bars), weights.trend)
         + part(ReversionVote(bars), weights.reversion)
         + part(BreakoutVote(bars), weights.breakout)
         + part(NewsVote, weights.news)

Agreed(bars, weights) == Magnitude(CombinedScore(bars, weights)) > 6500

\* The first opportunity the strategies agree on.  The fallback looks for a prediction
\* that is sure by more than 70%, and no entry shows a confidence.
V6Signalled ==
    LET agreed == {i \in DOMAIN v6Opps : Agreed(v6Market[v6Opps[i]].bars, v6Weights)}
    IN IF agreed = {} THEN <<>>
       ELSE LET s == v6Opps[Min(agreed)]
                q == v6Market[s]
            IN [symbol |-> s, entry |-> q.price,
                dir |-> IF CombinedScore(q.bars, v6Weights) > 0 THEN "BUY" ELSE "SELL"]

V6Generate ==
    /\ v6Phase = "signal"
    /\ IF V6Signalled = <<>> THEN V6End
       ELSE /\ v6Phase' = "risk" /\ v6Signal' = V6Signalled
            /\ UNCHANGED <<v6Market, v6Opps, v6Pred, v6Size>>
    /\ UNCHANGED <<v6Ready, v6Kept>>

\* Between cycles: no weight below 5%, and the weights add up to the whole.
AdjustWeights(report) ==
    LET floored == [n \in DOMAIN DefaultWeights |-> Most(5, report[n])]
        total == SumOf(floored)
    IN /\ v6Phase = "idle"
       /\ v6Weights' = [n \in DOMAIN DefaultWeights |-> (100 * floored[n]) \div total]
       /\ UNCHANGED <<v6Ready, v6Phase, v6Cycle, v6Kelly, v6Rates>>

-----------------------------------------------------------------------------
(* Phase 4: the size.                                                      *)

\* Statistics of the trade history: winners count against all trades.  The Kelly
\* fraction and the multiplier are in percent.
WinsOf(history) == {i \in DOMAIN history : history[i] > 0}
LossesOf(history) == {i \in DOMAIN history : history[i] < 0}

WinRate(history) ==
    IF Len(history) < KellyLeast THEN 0 ELSE (100 * Cardinality(WinsOf(history))) \div Len(history)

\* f = p - (1 - p) / b, with b the average win over the average loss.
KellyFraction(history) ==
    LET wins == WinsOf(history)
        losses == LossesOf(history)
        rate == WinRate(history)
        perWin == SumAt(history, wins) * Cardinality(losses)
        perLoss == -SumAt(history, losses) * Cardinality(wins)
    IN IF rate = 0 \/ losses = {} THEN 1
       ELSE Most(1, Least(10, rate - ((100 - rate) * perLoss) \div perWin))

KellyMultiplier(history) ==
    LET rate == WinRate(history)
        f == KellyFraction(history)
    IN IF rate > 70 THEN Least(120, 100 * f)
       ELSE IF rate > 60 THEN Least(100, 80 * f)
       ELSE Least(80, 60 * f)

VolatilityScale(ratio) ==
    IF ratio < 50 THEN 120 ELSE IF ratio < 100 THEN 100 ELSE IF ratio < 180 THEN 70 ELSE 40

\* No open position is ever registered with the correlation manager and no weight with
\* the allocation: both leave the size as it is.
SizeFor(history, ratio) ==
    Most(100, Least(200, (KellyMultiplier(history) * VolatilityScale(ratio)) \div 100))

V6Risk ==
    /\ v6Phase = "risk"
    /\ v6Phase' = "execution"
    /\ v6Size' = SizeFor(v6Kelly, v6Market[v6Signal.symbol].ratio)
    /\ UNCHANGED <<v6Ready, v6Kept, v6Market, v6Opps, v6Pred, v6Signal>>

-----------------------------------------------------------------------------
(* Phases 5 to 7: the checks, the order, and what is learned from it.      *)

\* The spread allowed, in tenths: a name with a major currency in it counts as a major.
SpreadLimit(s) ==
    IF PartsOf[s] \cap {"EUR", "GBP", "USD", "JPY"} # {} THEN 5
    ELSE IF PartsOf[s] \cap {"XAU", "XAG", "OIL"} # {} THEN 10
    ELSE IF PartsOf[s] \cap {"BTC", "ETH", "SOL"} # {} THEN 15
    ELSE 12

\* Half a pip is less than any difference of the prices here.
SlippageAccepted(signal, q) == signal.entry = 0 \/ q.price = 0 \/ signal.entry = q.price

Passed(signal, q) == q.spread <= SpreadLimit(signal.symbol) /\ SlippageAccepted(signal, q)

\* The exit phase only logs.  The trade is learned with profit 0, and no model is
\* loaded that could be tuned.
Learned(history) == LastOf(Append(history, 0), KellyWindow)

V6Execute ==
    /\ v6Phase = "execution"
    /\ v6Kelly' = IF Passed(v6Signal, v6Market[v6Signal.symbol]) THEN Learned(v6Kelly) ELSE v6Kelly
    /\ V6End
    /\ UNCHANGED <<v6Ready, v6Weights, v6Rates>>

V6Next ==
    \/ \E market \in V6Markets : V6Scan(market)
    \/ \E regime \in V6Regimes, piped \in SUBSET Range(V6Symbols) : V6Analyse(regime, piped)
    \/ \E report \in Reports : AdjustWeights(report)
    \/ V6Generate \/ V6Risk \/ V6Execute

V6Spec == V6Init /\ [][V6Next]_v6Vars

-----------------------------------------------------------------------------
(* Correctness.                                                            *)

\* With the weights it starts with, no cycle ever has a signal: trend and reversion cannot
\* vote for the same side, so the strategies are never surer than 60.75%, below the 65%
\* the signal phase asks for.
NeverDiversified ==
    v6Weights = DefaultWeights =>
        \A i \in DOMAIN v6Opps : ~Agreed(v6Market[v6Opps[i]].bars, v6Weights)

\* Every order has the smallest size, whatever the volatility: the history only ever
\* holds profits of zero.
SmallestSize == v6Phase = "execution" => v6Size = 100

\* What the scan let through passes both checks of the execution phase.
NothingRejected == v6Phase = "execution" => Passed(v6Signal, v6Market[v6Signal.symbol])

V6TypeOK ==
    /\ v6Phase \in {"idle", "analysis", "signal", "risk", "execution"}
    /\ v6Phase # "idle" => v6Ready
    /\ Range(v6Opps) \subseteq DOMAIN v6Market /\ IsInjective(v6Opps)
    /\ v6Pred \subseteq Range(v6Opps)
    /\ v6Size \in {0} \cup 100 .. 200
    /\ Len(v6Kelly) <= KellyWindow /\ Len(v6Rates) <= MaxRates
    /\ NeverDiversified /\ SmallestSize /\ NothingRejected
=============================================================================
