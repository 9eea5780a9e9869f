--------------------------- MODULE OnlineLearning ---------------------------
(***************************************************************************)
(* ml/online_learning.py: a learner that fits batches and watches its      *)
(* predictions for drift, the sliding window that retrains on new samples, *)
(* the comparison of two models and the weights of an ensemble; and        *)
(* ml/auto_retrain.py, which keeps outcomes and the weekly date in Redis   *)
(* or, when Redis was out at the first try, in memory.                     *)
(* A prediction is 0 or 1; what a statistical test says of two samples is  *)
(* an input.                                                               *)
(***************************************************************************)
EXTENDS Integers, Sequences, SequencesExt, FiniteSetsExt

CONSTANTS
    RecentMax, MinPredictions,          \* the recent predictions; how many a test needs
    WindowSize, RetrainThreshold, MinSamples,
    MaxTotal,                           \* BOUND: the samples added
    OlModels, NoModel, MaxCompares,     \* BOUND: comparisons of a pair of models
    EnsembleSize, WeightUnit, MinWeight,   \* weights are in parts of WeightUnit
    OutcomeWindow, AccuracyThreshold,   \* in percent
    Injected,                           \* the wrong outcomes that drift adds
    MaxClock                            \* BOUND: the clock, in half days from a Sunday

\* There is room for every model of the ensemble at its minimum, which is four fifths of a
\* whole number of parts when the weights are rounded down.
ASSUME LearningAssumption ==
    /\ RecentMax \in Nat /\ WindowSize \in Nat /\ OutcomeWindow \in Nat /\ Injected \in Nat /\ MaxClock \in Nat
    /\ EnsembleSize \in Nat \ {0} /\ MinWeight \in Nat \ {0} /\ MinWeight % 5 = 0
    /\ WeightUnit \in Nat /\ EnsembleSize * MinWeight <= WeightUnit

VARIABLES
    olRecent, olReference, olAlert,                      \* the learner
    swWindow, swSince, swTotal, swTrained,               \* the sliding window
    abA, abB, abHistoryA, abHistoryB,                    \* the model tester
    enWeights, enFlags,                                  \* the ensemble
    arRedisUp, arRedisOk, arRedis, arMemory, arClock     \* the retrain manager

learnerVars == <<olRecent, olReference, olAlert>>
windowVars == <<swWindow, swSince, swTotal, swTrained>>
testerVars == <<abA, abB, abHistoryA, abHistoryB>>
ensembleVars == <<enWeights, enFlags>>
retrainVars == <<arRedisUp, arRedisOk, arRedis, arMemory, arClock>>
olVars == <<learnerVars, windowVars, testerVars, ensembleVars, retrainVars>>

KeepLast(s, n) == IF Len(s) > n THEN SubSeq(s, Len(s) - n + 1, Len(s)) ELSE s
Ones(s) == FoldSeq(LAMBDA x, n : x + n, 0, s)
Members == 1 .. EnsembleSize
NoStore == [outcomes |-> <<>>, weekly |-> -MaxClock]

OlInit ==
    /\ olRecent = <<>> /\ olReference = <<>> /\ olAlert = "none"
    /\ swWindow = <<>> /\ swSince = 0 /\ swTotal = 0 /\ swTrained = 0
    /\ abA = NoModel /\ abB = NoModel /\ abHistoryA = <<>> /\ abHistoryB = <<>>
    /\ enWeights = [i \in Members |-> WeightUnit \div EnsembleSize] /\ enFlags = {}
    /\ arRedisUp \in BOOLEAN /\ arRedisOk = "untested"
    /\ arRedis = NoStore /\ arMemory = NoStore /\ arClock = 0

-----------------------------------------------------------------------------
(* The learner                                                             *)

\* A batch is fitted and its predictions kept; a fit that fails keeps none.
PartialFit(predictions, ok) ==
    /\ olRecent' = IF ok THEN KeepLast(olRecent \o predictions, RecentMax) ELSE olRecent
    /\ UNCHANGED <<olReference, olAlert>>

\* How far the means are apart, in percent.
MeanShift(old, new) ==
    LET mean(s) == (100 * Ones(s)) \div Len(s)
        d == mean(new) - mean(old) IN IF d < 0 THEN -d ELSE d

Severity(shift) ==
    IF shift > 50 THEN "critical" ELSE IF shift > 30 THEN "high" ELSE IF shift > 15 THEN "medium" ELSE "low"

\* The first call only keeps the reference, of whatever length.  ADWIN, Page-Hinkley and
\* DDM are asked in turn, but only with enough predictions on both sides.
DetectDrift(window, found) ==
    LET recent == KeepLast(olRecent, window)
        drift == found /\ Len(recent) >= MinPredictions
                 /\ (olReference # <<>> => Len(olReference[1]) >= MinPredictions) IN
    /\ IF olReference = <<>> \/ drift THEN olReference' = <<recent>> ELSE UNCHANGED olReference
    /\ olAlert' = IF olReference # <<>> /\ drift THEN Severity(MeanShift(olReference[1], recent)) ELSE "none"
    /\ UNCHANGED olRecent

\* After an alert, if asked to, the learner fits its training data in batches; a batch that fails is
\* counted with the others.
RetrainBatches(first, second) ==
    /\ olAlert # "none"
    /\ olRecent' = KeepLast(olRecent \o first \o second, RecentMax)
    /\ UNCHANGED <<olReference, olAlert>>

Batches == {<<0>>, <<1>>, <<0, 1>>}

LearnerNext ==
    \/ \E p \in Batches, ok \in BOOLEAN : PartialFit(p, ok)
    \/ \E w \in {1, RecentMax}, f \in BOOLEAN : DetectDrift(w, f)
    \/ \E a, b \in Batches \union {<<>>} : RetrainBatches(a, b)

-----------------------------------------------------------------------------
(* The sliding window; a sample is its number                              *)

AddSamples(n) ==
    /\ swTotal + n <= MaxTotal
    /\ swWindow' = KeepLast(swWindow \o [i \in 1 .. n |-> swTotal + i], WindowSize)
    /\ swSince' = swSince + n /\ swTotal' = swTotal + n
    /\ UNCHANGED swTrained

\* A training that fails leaves the count, so the next call tries again.
Trained(ok) ==
    /\ swSince' = IF ok THEN 0 ELSE swSince
    /\ swTrained' = IF ok THEN swTotal ELSE swTrained

TrainIfNeeded(ok) ==
    /\ Len(swWindow) >= MinSamples /\ swSince >= RetrainThreshold
    /\ Trained(ok)
    /\ UNCHANGED <<swWindow, swTotal>>

WindowNext ==
    \/ \E n \in 1 .. 3 : AddSamples(n)
    \/ \E ok \in BOOLEAN : TrainIfNeeded(ok)

-----------------------------------------------------------------------------
(* The model tester                                                        *)

SetModels(a, b) == abA' = a /\ abB' = b /\ abHistoryA' = <<>> /\ abHistoryB' = <<>>

\* Both accuracies are kept; the verdict of the test goes to the caller only.
CompareModels(accuracyA, accuracyB) ==
    /\ abA # NoModel /\ abB # NoModel
    /\ Len(abHistoryA) < MaxCompares
    /\ abHistoryA' = Append(abHistoryA, accuracyA) /\ abHistoryB' = Append(abHistoryB, accuracyB)
    /\ UNCHANGED <<abA, abB>>

\* Any model can be promoted, whatever was compared.
PromoteModel(m) == abA' = m /\ abB' = NoModel /\ abHistoryA' = <<>> /\ abHistoryB' = <<>>

DemoteModel == abB' = NoModel /\ abHistoryB' = <<>> /\ UNCHANGED <<abA, abHistoryA>>

TesterNext ==
    \/ \E a, b \in OlModels : SetModels(a, b)
    \/ \E x, y \in {0, 1} : CompareModels(x, y)
    \/ \E m \in OlModels : PromoteModel(m)
    \/ DemoteModel

-----------------------------------------------------------------------------
(* The ensemble                                                            *)

FlagDrift(i, drift) ==
    /\ enFlags' = IF drift THEN enFlags \union {i} ELSE enFlags \ {i}
    /\ UNCHANGED enWeights

\* A flagged model loses more than half, a good one gains, a poor one loses a tenth.
Adjusted(i, score) ==
    Max({MinWeight,
         IF i \in enFlags THEN (enWeights[i] * 45) \div 100
         ELSE IF score > 50 THEN (enWeights[i] * (1000 + score)) \div 1000 ELSE (enWeights[i] * 90) \div 100})

\* The minimum holds before the weights are divided by their sum, not after.
UpdateWeights(scores) ==
    LET adjusted == [i \in Members |-> Adjusted(i, scores[i])]
        total == MapThenSumSet(LAMBDA i : adjusted[i], Members) IN
    /\ enWeights' = [i \in Members |-> IF total > 0 THEN (adjusted[i] * WeightUnit) \div total ELSE adjusted[i]]
    /\ UNCHANGED enFlags

EnsembleNext ==
    \/ \E i \in Members, d \in BOOLEAN : FlagDrift(i, d)
    \/ \E s \in [Members -> {40, 90}] : UpdateWeights(s)

-----------------------------------------------------------------------------
(* The retrain manager                                                     *)

\* Whether Redis is used is found out once per process.
RedisOk == IF arRedisOk = "untested" THEN arRedisUp ELSE arRedisOk = "yes"
Probed == arRedisOk' = IF RedisOk THEN "yes" ELSE "no"

\* One outcome more than the window is kept.  A Redis that fails loses the outcome.
WithOutcomes(store, wrong) ==
    [store EXCEPT !.outcomes = KeepLast(@ \o wrong, OutcomeWindow + 1)]

Record(outcomes) ==
    /\ arRedis' = IF RedisOk /\ arRedisUp THEN WithOutcomes(arRedis, outcomes) ELSE arRedis
    /\ arMemory' = IF RedisOk THEN arMemory ELSE WithOutcomes(arMemory, outcomes)
    /\ Probed
    /\ UNCHANGED <<arRedisUp, arClock>>

\* Drift injects a few wrong outcomes, which need not bring the accuracy under the threshold.
CheckDataDrift == Record([i \in 1 .. Injected |-> 0])

\* The outcomes that count: the window from Redis, one more from memory, none if Redis fails.
Counted ==
    IF ~RedisOk THEN arMemory.outcomes
    ELSE IF arRedisUp THEN KeepLast(arRedis.outcomes, OutcomeWindow) ELSE <<>>

\* No outcome at all counts as an accuracy of zero.
ShouldRetrain == Counted = <<>> \/ 100 * Ones(Counted) < AccuracyThreshold * Len(Counted)

\* The last weekly retraining that can be read.
LastWeekly ==
    IF RedisOk /\ arRedisUp THEN arRedis.weekly ELSE arMemory.weekly

\* On a Sunday, a half day 0 or 1, and more than a day after the last.
WeeklyDue == arClock % 14 \in {0, 1} /\ arClock - LastWeekly > 2

\* The weekly retraining is started by whoever asks, and marked; Redis that fails leaves
\* the mark in memory.
RetrainWeekly ==
    /\ WeeklyDue
    /\ IF RedisOk /\ arRedisUp THEN arRedis' = [arRedis EXCEPT !.weekly = arClock] /\ UNCHANGED arMemory
       ELSE arMemory' = [arMemory EXCEPT !.weekly = arClock] /\ UNCHANGED arRedis
    /\ Probed
    /\ UNCHANGED <<arRedisUp, arClock>>

RetrainRedisTurns == arRedisUp' = ~arRedisUp /\ UNCHANGED <<arRedisOk, arRedis, arMemory, arClock>>

RestartLearner ==
    /\ arMemory' = NoStore /\ arRedisOk' = "untested"
    /\ UNCHANGED <<arRedisUp, arRedis, arClock>>

HalfDay == arClock < MaxClock /\ arClock' = arClock + 1 /\ UNCHANGED <<arRedisUp, arRedisOk, arRedis, arMemory>>

RetrainNext ==
    \/ \E o \in {0, 1} : Record(<<o>>)
    \/ CheckDataDrift
    \/ RetrainWeekly
    \/ RetrainRedisTurns
    \/ RestartLearner
    \/ HalfDay

OlNext ==
    \/ LearnerNext /\ UNCHANGED <<windowVars, testerVars, ensembleVars, retrainVars>>
    \/ WindowNext /\ UNCHANGED <<learnerVars, testerVars, ensembleVars, retrainVars>>
    \/ TesterNext /\ UNCHANGED <<learnerVars, windowVars, ensembleVars, retrainVars>>
    \/ EnsembleNext /\ UNCHANGED <<learnerVars, windowVars, testerVars, retrainVars>>
    \/ RetrainNext /\ UNCHANGED <<learnerVars, windowVars, testerVars, ensembleVars>>

OlSpec == OlInit /\ [][OlNext]_olVars

-----------------------------------------------------------------------------

\* The count of new samples is exact, failed trainings or not, and the window ends with
\* them, as far as it reaches: a training never misses a sample the window still holds
\* (online_learning.py:468-545).
WindowKnowsNew ==
    /\ swSince = swTotal - swTrained
    /\ swWindow = [i \in 1 .. Min({swTotal, WindowSize}) |-> swTotal - Min({swTotal, WindowSize}) + i]

\* The two histories pair up whenever a comparison could add to them, however models were
\* promoted, demoted and replaced before (online_learning.py:578-700).
HistoriesPair == abB # NoModel => Len(abHistoryA) = Len(abHistoryB)

\* No model of the ensemble is ever silenced: four fifths of the minimum remain after the
\* weights are normalised, and the weights stay a distribution (online_learning.py:741-775).
NeverSilenced ==
    /\ \A i \in Members : 5 * enWeights[i] >= 4 * MinWeight
    /\ MapThenSumSet(LAMBDA i : enWeights[i], Members) \in WeightUnit - EnsembleSize .. WeightUnit

OlTypeOK ==
    /\ Len(olRecent) <= RecentMax /\ Len(olReference) <= 1
    /\ olAlert \in {"none", "low", "medium", "high", "critical"}
    /\ Len(swWindow) <= WindowSize /\ swTrained \in 0 .. swTotal
    /\ {abA, abB} \subseteq OlModels \union {NoModel}
    /\ enFlags \subseteq Members
    /\ arRedisOk \in {"untested", "yes", "no"}
    /\ \A s \in {arRedis, arMemory} : Len(s.outcomes) <= OutcomeWindow + 1
    /\ WindowKnowsNew /\ HistoriesPair /\ NeverSilenced
=============================================================================
