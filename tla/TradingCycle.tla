---------------------------- MODULE TradingCycle ----------------------------
(***************************************************************************)
(* One trading cycle: the task run_v6_trading_cycle (config/tasks.py) and  *)
(* the phases of V65TradingOrchestrator.run_trading_cycle.  Prices and     *)
(* distances are whole pips, volumes parts of the volume opened.  What     *)
(* the analysers say of the market is an input of the signal phase.        *)
(***************************************************************************)
EXTENDS Integers, Sequences, FiniteSets

CONSTANTS
    TcSymbols,       \* the symbols, numbered in alphabetical order
    TcPrices,
    Matrix,          \* the pairs the correlation matrix holds above its threshold
    MaxPositions,    \* max_positions of ArtificialDiversification, 5
    StopPips,        \* the distance of the stop the stop phase chooses
    TargetPips,      \* the distances of the three targets
    Fetched,         \* BOUND: the sets of symbols whose candles come together
    TcRetries,       \* retries of the task, 3
    MaxOpened        \* BOUND: positions opened in a behaviour

ASSUME CycleAssumption ==
    /\ TcSymbols \subseteq Int /\ TcPrices \subseteq Int
    /\ MaxPositions \in Nat /\ TcRetries \in Nat /\ MaxOpened \in Nat
    /\ StopPips \in Int /\ TargetPips \in [1 .. 3 -> Int]
    /\ Fetched \subseteq SUBSET TcSymbols

Modes == {"manual", "semi", "auto"}

VARIABLES
    tcPhase,         \* the phase the cycle is in, "idle" between cycles
    tcMode,          \* the trading mode the cycle read from the settings
    tcMarket,        \* the price of every symbol whose candles came
    tcOpen,          \* open_positions of the orchestrator, told apart by their id
    tcSignal,        \* the signal of this cycle, <<>> for none
    tcTries,         \* retries used by the task
    tcOpened         \* positions opened so far

tcBook == <<tcOpen, tcOpened>>
tcVars == <<tcPhase, tcMode, tcMarket, tcBook, tcSignal, tcTries>>

TcInit ==
    /\ tcPhase = "idle" /\ tcMode = "semi" /\ tcMarket = <<>>
    /\ tcOpen = {} /\ tcOpened = 0
    /\ tcSignal = <<>> /\ tcTries = 0

\* The next cycle reads mode and candles again.
Over == tcPhase' = "idle" /\ tcMode' = "semi" /\ tcMarket' = <<>> /\ tcSignal' = <<>>

\* The cycle ends, whatever its status.
EndCycle == Over /\ tcTries' = 0

\* An exception leaves the cycle: the task retries, and then gives up.
Raises == Over /\ tcTries' = IF tcTries < TcRetries THEN tcTries + 1 ELSE 0

\* The phase is passed.
Go(phase) == tcPhase' = phase /\ UNCHANGED <<tcMode, tcTries, tcMarket, tcSignal>>

-----------------------------------------------------------------------------
(* The task: which orchestrator starts, the settings and the candles.      *)

\* The task ends without a cycle: no system starts, or no symbol has enough candles.
NoCycle ==
    /\ tcPhase = "idle"
    /\ EndCycle
    /\ UNCHANGED tcBook

\* On the fallbacks the call of the cycle raises: V6 takes no broker and no mode, and
\* after Gold Edge there is no orchestrator.
FallbackRaises ==
    /\ tcPhase = "idle"
    /\ Raises
    /\ UNCHANGED tcBook

\* What a phase behind the daily target does not catch itself; what the exit management did
\* stays done.
PhaseRaises ==
    /\ tcPhase \in {"scan", "signal", "risk", "diversify", "execute"}
    /\ Raises
    /\ UNCHANGED tcBook

BeginCycle(mode, market) ==
    /\ tcPhase = "idle"
    /\ tcPhase' = "exits" /\ tcMode' = mode /\ tcMarket' = market
    /\ UNCHANGED <<tcBook, tcSignal, tcTries>>

-----------------------------------------------------------------------------
(* Phase 0: every tracked position against the price of its symbol.        *)

Gain(position, price) ==
    IF position.dir = "BUY" THEN price - position.entry ELSE position.entry - price

\* The price that lies so many pips in the direction of the position.
Beyond(position, price, pips) == IF position.dir = "BUY" THEN price + pips ELSE price - pips

Better(position, stop, other) ==
    IF position.dir = "BUY" THEN stop > other ELSE stop < other

TrailDistance(gain) ==
    CASE gain < 10 -> 5 [] gain \in 10 .. 19 -> 10 [] gain \in 20 .. 49 -> 15 [] OTHER -> 20

Trailed(position, price) ==
    LET stop == Beyond(position, price, 0 - TrailDistance(Gain(position, price))) IN
    IF Gain(position, price) >= 5 /\ Better(position, stop, position.stop)
      THEN [position EXCEPT !.stop = stop] ELSE position

AtBreakeven(position, price) ==
    IF Gain(position, price) >= 5 /\ Better(position, position.entry, position.stop)
      THEN [position EXCEPT !.stop = Beyond(position, position.entry, 1)] ELSE position

Reached(position, level, price) == ~Better(position, position.targets[level], price)

\* Variant: the first target puts the stop where it was before.
PartialsKeepStop(position, price) ==
    LET first == Reached(position, 1, price) /\ 1 \notin position.taken IN
    [position EXCEPT !.stop = IF first THEN Beyond(position, position.entry, 0 - StopPips) ELSE @]

\* The first target closes 40% and moves the stop to breakeven, from wherever it was;
\* the second closes half of the rest.
Partials(position, price) ==
    LET first == Reached(position, 1, price) /\ 1 \notin position.taken
        second == Reached(position, 2, price) /\ 2 \notin position.taken
        rest == IF first THEN (position.volume * 6) \div 10 ELSE position.volume IN
    [position EXCEPT
       !.volume = IF second THEN rest \div 2 ELSE rest,
       !.stop = IF first THEN Beyond(position, position.entry, 1) ELSE @,
       !.taken = @ \union {l \in {1, 2} : Reached(position, l, price)}]

Managed(position, price) ==
    LET moved == AtBreakeven(Trailed(position, price), price) IN
    [Partials(moved, price) EXCEPT !.seen = @ \/ Gain(position, price) >= 5]

\* The third target, the stop, or 48 hours close what is left.
Leaves(position, price, aged) ==
    \/ Reached(position, 3, price)
    \/ ~Better(position, price, position.stop)
    \/ aged

\* Positions without a price are passed over, however old they are.  Closing is in the
\* orchestrator's own list: the broker is not called.
ManageExits(aged) ==
    LET priced  == {p \in tcOpen : p.symbol \in DOMAIN tcMarket}
        managed == {Managed(p, tcMarket[p.symbol]) : p \in priced}
        closed  == {p \in managed : Leaves(p, tcMarket[p.symbol], p.id \in aged)} IN
    /\ tcPhase = "exits"
    /\ tcOpen' = (tcOpen \ priced) \union (managed \ closed)
    /\ Go("targets")
    /\ UNCHANGED tcOpened

-----------------------------------------------------------------------------
(* Phase 16: the daily target.                                             *)

\* compute_targets multiplies the balance, a float, by a Decimal and raises before it has
\* cached a target or anything is enforced: the phase lets every cycle go on.
TargetsFailOpen ==
    /\ tcPhase = "targets"
    /\ Go("scan")
    /\ UNCHANGED tcBook

-----------------------------------------------------------------------------
(* Phases 1 to 8: from the candles to a signal.                            *)

\* What a source says: a direction it is so sure of, in fifths.
Votes == {[score |-> s * c, confidence |-> c] : s \in {-1, 0, 1}, c \in {0, 3, 5}}

\* What the sources say together, in percent: the flow, say, counts for three twentieths.
Evidence ==
    [regime : {-1, 0, 3}, sentiment : Votes, flow : Votes, pattern : Votes, frames : Votes,
     follow : BOOLEAN]

Score(e) ==
    e.regime + 3 * (e.sentiment.score + e.flow.score + e.pattern.score)
      + 5 * e.frames.score + (IF e.follow THEN 2 ELSE 0)

Confidence(e) ==
    3 * (e.sentiment.confidence + e.flow.confidence + e.pattern.confidence)
      + 5 * e.frames.confidence

\* The sources that count, the regime always: of a silent pattern or time frame nothing is used.
SourcesUsed(e) ==
    3 + Cardinality({f \in {"pattern", "frames"} : e[f].score # 0}) + (IF e.follow THEN 1 ELSE 0)

\* The combined signal: the confidence is averaged over the sources though it is already
\* weighted, and must reach the optimizer's threshold, which is never below 0.55.
CombinedSignal(e) ==
    IF Confidence(e) < 55 * SourcesUsed(e) THEN "NONE"
    ELSE CASE Score(e) > 30 -> "BUY" [] Score(e) < -30 -> "SELL" [] OTHER -> "NONE"

Verdicts == {[weak |-> Score(e) \in -9 .. 9, combined |-> CombinedSignal(e)] : e \in Evidence}

\* Phase 1: the scanner's filters leave the symbols worth a look.
Scan(found) ==
    /\ tcPhase = "scan"
    /\ found \subseteq DOMAIN tcMarket
    /\ IF found = {} THEN EndCycle ELSE Go("signal")
    /\ UNCHANGED tcBook

\* Phases 2 to 8.  A weak score falls back on the prediction of any symbol found, if it is
\* above 0.70.  Predictions have no price: the entry is that of the top opportunity,
\* whichever symbol the signal is of.
SignalOf(symbol, top, verdict, confidence, dir) ==
    CASE verdict.weak /\ confidence > 70 -> <<[symbol |-> symbol, dir |-> dir, entry |-> tcMarket[top]]>>
      [] ~verdict.weak /\ verdict.combined # "NONE" ->
            <<[symbol |-> top, dir |-> verdict.combined, entry |-> tcMarket[top]]>>
      [] OTHER -> <<>>

Signal(symbol, top, verdict, confidence, dir) ==
    LET signal == SignalOf(symbol, top, verdict, confidence, dir) IN
    /\ tcPhase = "signal"
    /\ {symbol, top} \subseteq DOMAIN tcMarket
    /\ IF signal = <<>> THEN EndCycle
       ELSE tcPhase' = "risk" /\ tcSignal' = signal /\ UNCHANGED <<tcMode, tcTries, tcMarket>>
    /\ UNCHANGED tcBook

-----------------------------------------------------------------------------
(* Phases 9 to 15: risk, levels, diversification and the order.            *)

\* Phase 9: only the circuit breaker rejects; the checks of the daily loss and of the
\* recovery tier raise, and their errors are swallowed.
Risk(breaker) ==
    /\ tcPhase = "risk"
    /\ IF breaker THEN EndCycle ELSE Go("diversify")
    /\ UNCHANGED tcBook

\* get_correlation looks a pair up in alphabetical order only: of the pairs that the
\* matrix holds the other way round, gold and silver say, it knows nothing, as of a
\* symbol with itself.
Correlated(s, t) == (IF s < t THEN <<s, t>> ELSE <<t, s>>) \in Matrix

\* Phase 12.  The exposures that follow are always 0: a tracked position has no equity.
Diversified(symbol, positions) ==
    /\ Cardinality(positions) < MaxPositions
    /\ \A p \in positions : ~Correlated(symbol, p.symbol)

Diversify ==
    /\ tcPhase = "diversify"
    /\ IF Diversified(tcSignal[1].symbol, tcOpen) THEN Go("execute") ELSE EndCycle
    /\ UNCHANGED tcBook

\* Phases 10 and 11.
StopLoss(signal) == Beyond(signal, signal.entry, 0 - StopPips)
TakeProfits(signal) == [l \in 1 .. 3 |-> Beyond(signal, signal.entry, TargetPips[l])]

\* _add_open_position.
Tracked(id, signal) ==
    [id |-> id, symbol |-> signal.symbol, dir |-> signal.dir, entry |-> signal.entry,
     stop |-> StopLoss(signal), targets |-> TakeProfits(signal),
     volume |-> 10, taken |-> {}, seen |-> FALSE]

\* Phase 13.  In the semi mode the order only waits for approval, and is tracked as open
\* all the same.  In the auto mode it goes to the broker; but the answer of MT5Service is a
\* dictionary, and asking it for an attribute success raises, which the phase takes for the
\* broker's error: whatever was opened is not tracked.
Execute(spreadOk) ==
    /\ tcPhase = "execute"
    /\ IF spreadOk /\ tcMode = "semi"
         THEN /\ tcOpen' = tcOpen \union {Tracked(tcOpened + 1, tcSignal[1])}
              /\ tcOpened' = tcOpened + 1
         ELSE UNCHANGED tcBook
    /\ EndCycle

TcNext ==
    \/ NoCycle
    \/ FallbackRaises \/ PhaseRaises
    \/ \E m \in Modes, S \in Fetched : \E p \in [S -> TcPrices] : BeginCycle(m, p)
    \/ \E aged \in SUBSET (1 .. MaxOpened) : ManageExits(aged)
    \/ TargetsFailOpen
    \/ \E S \in SUBSET TcSymbols : Scan(S)
    \/ \E s, top \in TcSymbols, v \in Verdicts, c \in {70, 71}, d \in {"BUY", "SELL"} :
          (c > 70 => tcOpened < MaxOpened) /\ Signal(s, top, v, c, d)
    \/ \E b \in BOOLEAN : Risk(b)
    \/ Diversify
    \/ \E ok \in BOOLEAN : Execute(ok)

TcSpec == TcInit /\ [][TcNext]_tcVars

-----------------------------------------------------------------------------

\* Once the exit management has seen a position five pips in profit, its stop is never
\* again on the losing side of the entry, whatever trailing, breakeven and the partial
\* closes do to it in later cycles (v65_orchestrator.py:1047-1135).
BreakevenKept ==
    \A p \in tcOpen : p.seen => ~Better(p, p.entry, p.stop)

\* Orders that wait for approval count as open: the orchestrator never tracks more than
\* its maximum, nor two whose correlation the matrix can find
\* (v65_orchestrator.py:866-958, artificial_diversification.py:64-67).
TrackedBounded ==
    /\ Cardinality(tcOpen) <= MaxPositions
    /\ \A p, q \in tcOpen : p # q => p.id # q.id /\ ~Correlated(p.symbol, q.symbol)

\* Types of the cycle and of what it tracks; a partial close always leaves something.
TcTypeOK ==
    /\ tcPhase \in {"idle", "exits", "targets", "scan", "signal", "risk", "diversify", "execute"}
    /\ tcMode \in Modes
    /\ DOMAIN tcMarket \subseteq TcSymbols
    /\ tcTries \in 0 .. TcRetries
    /\ tcOpened \in 0 .. MaxOpened
    /\ \A p \in tcOpen : p.id \in 1 .. tcOpened /\ p.volume \in 1 .. 10
    /\ TrackedBounded
=============================================================================
