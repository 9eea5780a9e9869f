-------------------------- MODULE GeneticEvolution --------------------------
(***************************************************************************)
(* Two operations of ml/genetic_optimizer.py: the scoring of a population, *)
(* which optimize does once before it calls the missing _evolve and raises *)
(* (line 1024, ParameterSearch), and the public method evolve that it      *)
(* misses, called once on a scored population.  Nothing in src calls       *)
(* evolve, so no step follows it: there is no loop of generations.         *)
(* Distances are in half ATR, weights in twelfths, scores in percent;      *)
(* gains are in points of the price and do not compound.                   *)
(***************************************************************************)
EXTENDS Integers, Sequences, SequencesExt, FiniteSets, FiniteSetsExt

CONSTANTS
    GeneValues,                          \* the values of each gene; its bounds are the extremes
    FirstPools,                          \* BOUND: the first populations
    TournamentSize,                      \* 3
    EliteCount,                          \* max(1, int(size * elite_ratio))
    Candles, LookBack, Horizon,          \* the data; the warm-up, 50; the longest trade, 200
    MinGec, MinScore,                    \* the entry thresholds
    Capital, MinTrades                   \* the equity a simulation starts with; 5

Genes == DOMAIN GeneValues
WeightUnit12 == 12

ASSUME EvolutionAssumption ==
    /\ {"sl", "tp", "trend", "momentum"} \subseteq Genes
    /\ \A n \in Genes : GeneValues[n] # {} /\ IsFiniteSet(GeneValues[n]) /\ GeneValues[n] \subseteq Nat
    /\ \A pool \in FirstPools : pool \in Seq([Genes -> Nat]) /\ pool # <<>>
    /\ \A pool \in FirstPools : \A i \in DOMAIN pool : \A n \in Genes : pool[i][n] \in GeneValues[n]
    /\ {0, WeightUnit12} \subseteq GeneValues["trend"] \intersect GeneValues["momentum"]
    /\ \A s \in GeneValues["sl"] : \E t \in GeneValues["tp"] : s < t
    /\ EliteCount \in Nat \ {0}
    /\ Capital \in Nat \ {0} /\ MinTrades \in Nat \ {0}
    /\ LookBack \in Nat /\ Horizon - 1 \in Nat \ {0}
    /\ Candles \in Seq([close : Int, high : Int, low : Int, trend : Int, momentum : Int,
                       border : Int, filter : Int])

Annualised == 7777     \* 100 * sqrt(252 * 24)
Unscored == -1000

VARIABLES
    gePool,       \* the population: genes and fitness
    gePc          \* "first" as initialized, "scored", or "bred" by evolve

geVars == <<gePool, gePc>>

Newborn(genes) == [genes |-> genes, fitness |-> Unscored]

GeInit ==
    /\ \E pool \in FirstPools : gePool = [i \in DOMAIN pool |-> Newborn(pool[i])]
    /\ gePc = "first"

-----------------------------------------------------------------------------
(* The fitness                                                             *)

Size(x) == IF x < 0 THEN -x ELSE x

\* The composite: the weights are made to sum to one, whatever they are.
GecOf(g, candle) ==
    LET total == g.trend + g.momentum IN
    IF total = 0 THEN 0 ELSE (g.trend * candle.trend + g.momentum * candle.momentum) \div total

Enters(gec, candle) ==
    /\ Size(gec) >= MinGec
    /\ 50 * Size(gec) + 30 * candle.border + 20 * candle.filter >= 100 * MinScore

StopsOut(bar, dir, entry, g) == IF dir = 1 THEN bar.low <= entry - g.sl ELSE bar.high >= entry + g.sl
TakesProfit(bar, dir, entry, g) == IF dir = 1 THEN bar.high >= entry + g.tp ELSE bar.low <= entry - g.tp

\* What a trade entered at a candle gains: the first bar that hits a level decides, the stop
\* before the target.  Trades overlap, for nothing skips the bars of an open one.
TradeGain(g, i, dir) ==
    LET entry == Candles[i].close
        bars == i + 1 .. Min({i + Horizon - 1, Len(Candles)})
        hits == {j \in bars : StopsOut(Candles[j], dir, entry, g) \/ TakesProfit(Candles[j], dir, entry, g)} IN
    CASE hits = {} -> (Candles[Max(bars)].close - entry) * dir
      [] hits # {} /\ StopsOut(Candles[Min(hits)], dir, entry, g) -> -g.sl
      [] OTHER -> g.tp

\* The candles at which a trade is entered; neither the warm-up nor the last candle is.
Entries(g) == {i \in LookBack + 1 .. Len(Candles) - 1 : Enters(GecOf(g, Candles[i]), Candles[i])}

\* What the trade of each entry gains.
Gains(g) == [i \in Entries(g) |-> TradeGain(g, i, IF GecOf(g, Candles[i]) > 0 THEN 1 ELSE -1)]

TotalOf(gains, at) == MapThenSumSet(LAMBDA i : gains[i], at)

\* The deepest fall of the equity below its peak, in percent of the peak.
MaxDrawdownOf(gains) ==
    LET equity(i) == Capital + TotalOf(gains, {j \in DOMAIN gains : j <= i})
        peak(i) == Max({Capital} \union {equity(j) : j \in {k \in DOMAIN gains : k <= i}}) IN
    Max({0} \union {((peak(i) - equity(i)) * 100) \div peak(i) : i \in DOMAIN gains})

\* The square root of a positive number, rounded down.
Root(n) == Max({r \in 1 .. n : r * r <= n})

\* The mean of the returns over their deviation, for all candles after the warm-up,
\* annualised and in percent.
Sharpe(gains) ==
    LET returns == Len(Candles) - 1 - LookBack
        sum == TotalOf(gains, DOMAIN gains)
        squares == TotalOf([i \in DOMAIN gains |-> gains[i] * gains[i]], DOMAIN gains)
        spread == returns * squares - sum * sum IN
    IF returns > 1 /\ spread > 0 THEN (Annualised * sum) \div Root(spread) ELSE 0

Short(x) == Max({0, x})

\* Sharpe less the penalties, in percent; too few trades are -5.
GeFitness(g) ==
    LET gains == Gains(g)
        trades == Cardinality(DOMAIN gains)
        won == {i \in DOMAIN gains : gains[i] > 0}
        loss == 0 - TotalOf(gains, DOMAIN gains \ won)
        factor == CASE loss # 0 -> (100 * TotalOf(gains, won)) \div loss
                    [] loss = 0 /\ won # {} -> 150 [] OTHER -> 0 IN
    IF trades < MinTrades THEN -500
    ELSE Sharpe(gains) - 10 * Short(MaxDrawdownOf(gains) - 20)
           - 5 * Short(30 - (100 * Cardinality(won)) \div trades) - 2 * Short(150 - factor)

WeightsSum(g) == g.trend + g.momentum = WeightUnit12
FeasibleGenes(g) == WeightsSum(g) /\ g.tp > g.sl

\* What violates a constraint loses 5.
Judged(g) == IF FeasibleGenes(g) THEN GeFitness(g) ELSE GeFitness(g) - 500

\* The first population is evaluated, and what violates a constraint loses its points.
ScoreGeneration ==
    /\ gePc = "first"
    /\ gePool' = [i \in DOMAIN gePool |-> [gePool[i] EXCEPT !.fitness = Judged(gePool[i].genes)]]
    /\ gePc' = "scored"

-----------------------------------------------------------------------------
(* evolve                                                                  *)

\* Who can win a tournament: one that others enough are not fitter than.
Winners ==
    {i \in DOMAIN gePool :
       Cardinality({j \in DOMAIN gePool \ {i} : gePool[j].fitness <= gePool[i].fitness}) >= TournamentSize - 1}

\* Each gene comes from one of the parents.
Crossovers(p, q) == {[n \in Genes |-> IF n \in S THEN p[n] ELSE q[n]] : S \in SUBSET Genes}

Clamp(n, v) == Max({Min(GeneValues[n]), Min({Max(GeneValues[n]), v})})

\* Variant: the step of a mutation is not held within the bounds.
MutationsFree(g) == {g} \union {[g EXCEPT ![n] = @ + d] : n \in Genes, d \in {-6, 6}}

\* A gene moves by a random step within its bounds.  BOUND: one gene, six units.
Mutations(g) == {g} \union {[g EXCEPT ![n] = Clamp(n, @ + d)] : n \in Genes, d \in {-6, 6}}

\* The repairs: the weights in proportion, unless they are all 0, and a target above the stop.
Repaired(g) ==
    LET total == g.trend + g.momentum
        trend == IF total = 0 THEN 0 ELSE (g.trend * WeightUnit12) \div total IN
    [g EXCEPT !.trend = trend, !.momentum = IF total = 0 THEN 0 ELSE WeightUnit12 - trend,
              !.tp = IF @ <= g.sl THEN g.sl + 1 ELSE @]

\* Genes are repaired until they are feasible; only those that cannot be are clamped.
Projected(g) ==
    CASE FeasibleGenes(g) -> g
      [] ~FeasibleGenes(g) /\ FeasibleGenes(Repaired(g)) -> Repaired(g)
      [] OTHER -> [n \in Genes |-> Clamp(n, Repaired(g)[n])]

Children ==
    {Newborn(Projected(m)) :
       m \in UNION {Mutations(c) : c \in UNION {Crossovers(gePool[i].genes, gePool[j].genes) :
                                                  i, j \in Winners}}}

\* The place of j in the population sorted by fitness; equals keep their order.
Place(j) ==
    Cardinality({k \in DOMAIN gePool : \/ gePool[k].fitness > gePool[j].fitness
                                       \/ gePool[k].fitness = gePool[j].fitness /\ k <= j})

\* The i-th fittest, carried over with its fitness.
Elite(i) == gePool[CHOOSE j \in DOMAIN gePool : Place(j) = i]

\* One call on a scored population: the elite, and children of tournament winners.
Evolve ==
    /\ gePc = "scored"
    /\ \E born \in [EliteCount + 1 .. Len(gePool) -> Children] :
          gePool' = [i \in DOMAIN gePool |-> IF i <= EliteCount THEN Elite(i) ELSE born[i]]
    /\ gePc' = "bred"

GeNext == ScoreGeneration \/ Evolve

GeSpec == GeInit /\ [][GeNext]_geVars

-----------------------------------------------------------------------------

\* Types; every score is a number, whatever the candles and the entry rules; and however
\* crossover, mutation and repair work on them, the genes of a child stay in their bounds,
\* though only infeasible genes are clamped after the repair.
GeTypeOK ==
    /\ \A i \in DOMAIN gePool :
          /\ gePool[i].fitness \in Int
          /\ DOMAIN gePool[i].genes = Genes
          /\ \A n \in Genes : /\ gePool[i].genes[n] >= Min(GeneValues[n])
                              /\ gePool[i].genes[n] <= Max(GeneValues[n])
    /\ gePc \in {"first", "scored", "bred"}
=============================================================================
