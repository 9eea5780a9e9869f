------------------------------ MODULE GoldEdge ------------------------------
(***************************************************************************)
(* The Gold Edge entry matrix (gold_edge): the composite of four scores,   *)
(* the grid of ATR borders, the filter on the ATR ratio, the decision made *)
(* of them, and the requests that analyse, store and scan.  Scores are in  *)
(* percent, prices are distances from the EMA in tenths of an ATR.         *)
(***************************************************************************)
EXTENDS Integers, Sequences, SequencesExt, FiniteSetsExt

CONSTANTS
    GoldSymbols,     \* the symbols that can be analysed
    GoldScores,      \* values of the sub-scores, within -100..100
    Offsets,         \* where the price can be, in tenths of an ATR
    Multipliers,     \* the grid's multiples of the ATR, ascending, in tenths
    MinGecScore, MinCombined,   \* thresholds of the matrix, in percent
    SlMultiple, TpMultiple,     \* distances of the levels, in ATR
    MaxGoldSignals   \* BOUND: how many signals are stored

ASSUME GoldAssumption ==
    IsFiniteSet(GoldSymbols) /\ GoldScores \subseteq -100 .. 100 /\ MinGecScore \in Nat /\ MinCombined \in Nat

VARIABLES
    goldResult,      \* what the last analysis returned
    goldSignals,     \* the GoldEdgeSignal rows
    goldScan         \* the last answer of scan_symbols

goldVars == <<goldResult, goldSignals, goldScan>>

Clipped(x, lo, hi) == Max({lo, Min({hi, x})})

-----------------------------------------------------------------------------
(* The matrix *)

\* GoldEdgeComposite.calculate, in hundredths of a percent.
Composite(momentum, trend, volatility, dxy) ==
    Clipped(30 * momentum + 30 * trend + 20 * volatility + 20 * dxy, -10000, 10000)

GecDirection(composite) ==
    IF composite > 1500 THEN "LONG" ELSE IF composite < -1500 THEN "SHORT" ELSE "NEUTRAL"

\* ATRBorderGrid.calculate: the last layer that holds the price, 0 when none does.
Layer(offset) ==
    Max({0} \union {i - 1 : i \in {j \in DOMAIN Multipliers :
                                     offset \in -Multipliers[j] .. Multipliers[j]}})

PricePosition(offset) ==
    LET outer == Last(Multipliers) IN Clipped((100 * (offset + outer)) \div (2 * outer), 0, 100)

\* _compute_border_score: for a SHORT the grid is looked at from the other end.
BorderScore(layer, pos, direction) ==
    LET p == IF direction = "SHORT" THEN 100 - pos ELSE pos IN
    IF direction = "NEUTRAL" THEN 30
    ELSE IF layer >= 2 /\ p < 30 THEN 100
    ELSE IF layer >= 1 /\ p < 40 THEN 80
    ELSE IF layer >= 1 /\ p < 50 THEN 60
    ELSE IF layer = 0 THEN 40 ELSE 20

\* ATRRatioFilter.calculate: the zone of the ATR ratio, in percent of its average.
FilterZone(ratio, ratioMin, ratioMax) ==
    CASE ratio < 50 \/ ratio < ratioMin -> "quiet"
      [] ratio >= 50 /\ ratio \in ratioMin .. ratioMax -> "ideal"
      [] ratio >= 50 /\ ratio > ratioMax /\ ratio <= 200 -> "volatile"
      [] OTHER -> "extreme"

FilterZones == {FilterZone(r, 15, 100) : r \in {20, 80, 150, 250}} \union {"unknown"}

FilterScore == [ideal |-> 100, quiet |-> 50, volatile |-> 60, extreme |-> 0, unknown |-> 20]

\* get_entry_adjustment.
AllowEntry(zone) == zone \in {"ideal", "quiet", "volatile"}

\* The three scores, weighted, in thousandths of a percent.
Combined(gec, border, filter) == 5 * gec + 300 * border + 200 * filter
CombinedScores == {c \in Nat : c <= 100000}

\* _calculate_levels, as distances from the price in ATR.
Levels(direction, atr) ==
    LET side == IF direction = "LONG" THEN 1 ELSE -1 IN
    [sl |-> -side * SlMultiple * atr, tp |-> side * TpMultiple * atr]

NoLevels == [sl |-> 0, tp |-> 0]

\* GoldEdgeMatrix.evaluate; atr is 0 when the grid had too little data.
Evaluate(composite, offset, zone, atr) ==
    LET direction == GecDirection(composite)
        gec == Max({composite, -composite})
        border == IF atr = 0 THEN BorderScore(0, 50, direction)
                             ELSE BorderScore(Layer(offset), PricePosition(offset), direction)
        combined == Combined(gec, border, FilterScore[zone])
        action == IF direction # "NEUTRAL" /\ combined >= 1000 * MinCombined /\ AllowEntry(zone)
                    THEN "ENTRY"
                  ELSE IF direction # "NEUTRAL" /\ combined >= 800 * MinCombined
                    THEN "WATCH" ELSE "NO_TRADE" IN
    [action |-> action, direction |-> direction, combined |-> combined,
     levels |-> IF action = "ENTRY" THEN Levels(direction, atr) ELSE NoLevels,
     reasons |-> {r \in {"neutral", "weak", "filter", "combined"} :
                    CASE r = "neutral" -> direction = "NEUTRAL"
                      [] r = "weak" -> gec < 100 * MinGecScore
                      [] r = "filter" -> ~AllowEntry(zone)
                      [] r = "combined" -> combined < 1000 * MinCombined}]

-----------------------------------------------------------------------------
(* The requests *)

\* What run_pipeline returns when fewer than 50 bars could be fetched.
NoData == [action |-> "NO_TRADE", direction |-> "NEUTRAL", combined |-> 0,
           levels |-> NoLevels, reasons |-> {"insufficient_data"}]

GoldInit ==
    /\ goldResult = NoData
    /\ goldSignals = <<>>
    /\ goldScan = <<>>

\* The results a pipeline run can have; the filter needs more bars than the grid.
PipelineResults ==
    {NoData} \union
    {Evaluate(Composite(m, m, v, d), o, z, a) :
       m \in GoldScores, v \in GoldScores, d \in GoldScores \union {0},
       o \in Offsets, z \in FilterZones, a \in {0, 1}}

Actionable(result) == result.action \in {"ENTRY", "WATCH"}

\* GoldEdgeAnalysisView.post: it stores an actionable result of a known configuration,
\* unless the symbol or the timeframe is not in the database.
Analyse(symbol, result, configured, rowsKnown) ==
    /\ Len(goldSignals) < MaxGoldSignals
    /\ goldResult' = result
    /\ goldSignals' = IF Actionable(result) /\ configured /\ rowsKnown
                        THEN Append(goldSignals, [symbol |-> symbol, result |-> result])
                        ELSE goldSignals
    /\ UNCHANGED goldScan

\* scan_symbols: the actionable ones of the results, best first and equals as they were
\* asked for.  A symbol whose pipeline raised is left out, as one with no data is.
ScanSymbols(results) ==
    LET found == {s \in GoldSymbols : Actionable(results[s])} IN
    /\ goldScan' \in {order \in [1 .. Cardinality(found) -> found] :
                       \A i, j \in DOMAIN order : i < j =>
                          /\ order[i] # order[j]
                          /\ results[order[i]].combined >= results[order[j]].combined}
    /\ UNCHANGED <<goldResult, goldSignals>>

AnalyseNext == \E s \in GoldSymbols, r \in PipelineResults, c \in BOOLEAN, k \in BOOLEAN : Analyse(s, r, c, k)
ScanNext == \E rs \in [GoldSymbols -> PipelineResults] : ScanSymbols(rs)

GoldNext == AnalyseNext \/ ScanNext

GoldSpec == GoldInit /\ [][GoldNext]_goldVars

-----------------------------------------------------------------------------

\* The reasons an answer gives and the decision it reports agree, though they are
\* computed apart: what is not entered has a reason, and a signal that is stored
\* passed the filter or is only watched (entry_logic.py:207-293).
RefusalsHaveReasons ==
    /\ goldResult.action = "ENTRY" \/ goldResult.reasons # {}
    /\ \A i \in DOMAIN goldSignals :
          LET r == goldSignals[i].result IN
          r.action = "ENTRY" => r.reasons \subseteq {"weak"}

\* Types of the results, the stored signals and the scan, which lists no symbol twice; and
\* what the reasons promise.
GoldTypeOK ==
    /\ goldResult.action \in {"ENTRY", "WATCH", "NO_TRADE"}
    /\ goldResult.direction \in {"LONG", "SHORT", "NEUTRAL"}
    /\ goldResult.combined \in CombinedScores
    /\ \A i \in DOMAIN goldSignals : /\ goldSignals[i].symbol \in GoldSymbols
                                     /\ goldSignals[i].result.action \in {"ENTRY", "WATCH"}
    /\ goldScan \in Seq(GoldSymbols) /\ IsInjective(goldScan)
    /\ RefusalsHaveReasons
=============================================================================
