-------------------------- MODULE ParameterSearch --------------------------
(***************************************************************************)
(* The two genetic searches: GeneticOptimizer with its ParameterTuner      *)
(* (ml/genetic_optimizer.py) and the SelfOptimizingSystem whose parameters *)
(* the trading cycle reads.  A genome keeps the genes the constraints      *)
(* relate; the fitness of a genome is what a backtest on the data gives.   *)
(***************************************************************************)
EXTENDS Integers, Sequences, SequencesExt, FiniteSets, Functions

CONSTANTS
    StopGenes, TargetGenes,      \* bounds of sl_atr_multiplier and tp_atr_multiplier, in halves
    GecGenes, CombinedGenes,     \* bounds of min_gec_score and min_combined_score
    PoolSize,                    \* population_size
    Fitness(_),                  \* the fitness of a genome on the data of a search
    SoParams,                    \* parameter sets the self-optimizer can try
    SoData,                      \* the candles of different days
    SoFitness(_, _),             \* the fitness of a parameter set on them
    LowThreshold, HighThreshold, \* the range of confidence_threshold, in steps
    MaxSaved                     \* BOUND: results saved

FailScore == -10     \* the fitness of an evaluation that failed
Genomes == [sl : StopGenes, tp : TargetGenes, gec : GecGenes, combined : CombinedGenes]

\* A population has someone in it, and every fitness is a number.
ASSUME SearchAssumption ==
    /\ PoolSize \in Nat \ {0} /\ MaxSaved \in Nat /\ LowThreshold \in Int /\ HighThreshold \in Int
    /\ \A g \in Genomes : Fitness(g) \in Int
    /\ IsFiniteSet(SoParams) /\ \A d \in SoData, p \in SoParams : SoFitness(d, p) \in Int

VARIABLES
    gsPc,            \* "idle", "evaluate", "judge", "evolve" or "raised"
    gsWanted,        \* the number of generations asked for
    gsPool,          \* the population: genes and fitness
    gsBest,          \* _best_ever, <<>> before the first generation
    gsSaved,         \* the fitness of the results on disk, oldest first
    soBest, soBestParams,        \* the best the self-optimizer has seen, and its fitness
    soCurrent, soThreshold,      \* the parameters in use
    soRun                        \* last_optimization: "never", "fresh" or "due"

gsVars == <<gsPc, gsWanted, gsPool, gsBest, gsSaved>>
soVars == <<soBest, soBestParams, soCurrent, soThreshold, soRun>>
searchVars == <<gsVars, soVars>>

SearchInit ==
    /\ gsPc = "idle" /\ gsWanted = 0 /\ gsPool = <<>> /\ gsBest = <<>> /\ gsSaved = <<>>
    /\ soBest = 0
    /\ soBestParams \in SoParams /\ soCurrent = soBestParams
    /\ soThreshold \in LowThreshold .. HighThreshold /\ soRun = "never"

-----------------------------------------------------------------------------
(* GeneticOptimizer.                                                       *)

TargetAboveStop(g) == g.tp > g.sl
ThresholdsOrdered(g) == g.gec < g.combined
Feasible(g) == TargetAboveStop(g) /\ ThresholdsOrdered(g)

Highest(S) == CHOOSE x \in S : \A y \in S : x >= y
Lowest(S) == CHOOSE x \in S : \A y \in S : x <= y

\* A tuner makes an optimizer, whose first population is random within the bounds.
StartSearch(generations, genes) ==
    /\ gsPc \in {"idle", "raised"}
    /\ gsPc' = "evaluate" /\ gsWanted' = generations
    /\ gsPool' = [i \in 1 .. PoolSize |-> [genes |-> genes[i], fitness |-> 0]]
    /\ gsBest' = <<>>
    /\ UNCHANGED <<gsSaved, soVars>>

\* Every genome is evaluated, in parallel for a large population, where a worker can fail.
EvaluatePool(failed) ==
    /\ gsPc = "evaluate"
    /\ gsPool' = [i \in DOMAIN gsPool |->
                    [gsPool[i] EXCEPT !.fitness = IF i \in failed THEN FailScore
                                                  ELSE Fitness(gsPool[i].genes)]]
    /\ gsPc' = "judge"
    /\ UNCHANGED <<gsWanted, gsBest, gsSaved, soVars>>

BestEver(best, leader) ==
    IF best = <<>> THEN <<leader>>
    ELSE IF leader.fitness > best[1].fitness THEN <<leader>> ELSE best

\* What violates a constraint loses 5; then the best ever is kept.
Judge ==
    LET judged == [i \in DOMAIN gsPool |->
                     [gsPool[i] EXCEPT !.fitness = IF Feasible(gsPool[i].genes) THEN @ ELSE @ - 5]]
        leader == CHOOSE c \in Range(judged) : \A d \in Range(judged) : c.fitness >= d.fitness IN
    /\ gsPc = "judge"
    /\ gsPool' = judged
    /\ gsBest' = BestEver(gsBest, leader)
    /\ gsPc' = IF gsWanted = 1 THEN "finish" ELSE "evolve"
    /\ UNCHANGED <<gsWanted, gsSaved, soVars>>

\* With a generation left optimize calls _evolve, a name the class does not have (its
\* method is evolve): the search ends with an AttributeError and saves nothing.
EvolveRaises ==
    /\ gsPc = "evolve"
    /\ gsPc' = "raised"
    /\ UNCHANGED <<gsWanted, gsPool, gsBest, gsSaved, soVars>>

\* The tuner stores the result under the symbol and the time; load_latest takes the last.
FinishSearch ==
    /\ gsPc = "finish"
    /\ gsSaved' = IF Len(gsSaved) < MaxSaved THEN Append(gsSaved, gsBest[1].fitness) ELSE gsSaved
    /\ gsPc' = "idle"
    /\ UNCHANGED <<gsWanted, gsPool, gsBest, soVars>>

-----------------------------------------------------------------------------
(* SelfOptimizingSystem and the task run_v6_optimization.                  *)

\* Once a day, and only with candles.  The best fitness of earlier data stays the mark:
\* what is not above it is not taken, and the best parameters so far are put back.
RunOptimization(data, tried) ==
    LET best == CHOOSE p \in tried : \A q \in tried : SoFitness(data, p) >= SoFitness(data, q)
        better == SoFitness(data, best) > soBest IN
    /\ soRun # "fresh"
    /\ soBest' = IF better THEN SoFitness(data, best) ELSE soBest
    /\ soBestParams' = IF better THEN best ELSE soBestParams
    /\ soCurrent' = IF better THEN best ELSE soBestParams
    /\ soThreshold' \in LowThreshold .. HighThreshold
    /\ soRun' = "fresh"
    /\ UNCHANGED gsVars

OptimizationDue ==
    /\ soRun = "fresh"
    /\ soRun' = "due"
    /\ UNCHANGED <<gsVars, soBest, soBestParams, soCurrent, soThreshold>>

\* Each closed trade moves the threshold of the parameters in use by a step, within its
\* range; a trade without a profit, one just opened too, raises it.
UpdateFromTrade(profitable) ==
    /\ soThreshold' = IF profitable THEN Highest({LowThreshold, soThreshold - 1})
                      ELSE Lowest({HighThreshold, soThreshold + 1})
    /\ UNCHANGED <<gsVars, soBest, soBestParams, soCurrent, soRun>>

OptimizerNext ==
    \/ \E n \in 1 .. 2, g \in [1 .. PoolSize -> Genomes] : StartSearch(n, g)
    \/ \E failed \in SUBSET DOMAIN gsPool : EvaluatePool(failed)
    \/ Judge
    \/ EvolveRaises
    \/ FinishSearch

TuningNext ==
    \/ \E d \in SoData, T \in (SUBSET SoParams) \ {{}} : RunOptimization(d, T)
    \/ OptimizationDue
    \/ \E p \in BOOLEAN : UpdateFromTrade(p)

SearchNext == OptimizerNext \/ TuningNext

SearchSpec == SearchInit /\ [][SearchNext]_searchVars

-----------------------------------------------------------------------------

\* Types of both searches; whatever the trades and the optimizer do, the threshold that
\* decides about signals stays in its range.
SearchTypeOK ==
    /\ gsPc \in {"idle", "evaluate", "judge", "evolve", "finish", "raised"}
    /\ gsWanted \in 0 .. 2
    /\ gsPool = <<>> \/ DOMAIN gsPool = 1 .. PoolSize
    /\ Len(gsBest) <= 1 /\ Len(gsSaved) <= MaxSaved
    /\ soBestParams \in SoParams /\ soCurrent = soBestParams
    /\ soThreshold \in LowThreshold .. HighThreshold
    /\ soRun \in {"never", "fresh", "due"}
=============================================================================
