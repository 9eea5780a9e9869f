----------------------------- MODULE WorkProofs -----------------------------
(***************************************************************************)
(* Proofs about the trading work, for every price, number of positions,    *)
(* trades, users, clients and requests: the positions of TradingCycle, the *)
(* statistics of PerformanceCache, the buckets and histories of            *)
(* RequestGuard, the logs of SecurityMonitor, the replays of Backtest, the *)
(* scores and genes of GeneticEvolution, the searches of ParameterSearch,  *)
(* the rules of RiskRules, the tasks of SignalEngine, the answers of       *)
(* GoldEdge and the cycles of V6Cycle.                                     *)
(***************************************************************************)
EXTENDS TradingCycle, PerformanceCache, RequestGuard, SecurityMonitor, Backtest, GeneticEvolution,
        ParameterSearch, RiskRules, SignalEngine, GoldEdge, V6Cycle, SumLemmas, FiniteSetTheorems,
        SequenceTheorems, TLAPS

-----------------------------------------------------------------------------
(* Positions of the trading cycle (v65_orchestrator.py:84-131, 866-1135).  *)

Positions ==
    [id : Nat, symbol : TcSymbols, dir : {"BUY", "SELL"}, entry : Int, stop : Int,
     targets : [1 .. 3 -> Int], volume : Int, taken : SUBSET {1, 2}, seen : BOOLEAN]

\* What the partial closes leave depends on which targets were taken, not on their order.
VolumeLeft(p) ==
    /\ p.taken = {} => p.volume = 10
    /\ p.taken = {1} => p.volume = 6
    /\ p.taken = {2} => p.volume = 5
    /\ p.taken = {1, 2} => p.volume = 3

Breakeven(p) == p.seen => ~Better(p, p.entry, p.stop)
Sound(p)     == p \in Positions /\ p.id \in 1 .. tcOpened /\ VolumeLeft(p) /\ Breakeven(p)

\* A cycle with a signal has an entry for it, and room once diversified.
SignalInv ==
    /\ tcPhase \in {"risk", "diversify", "execute"} =>
         /\ tcSignal[1].symbol \in TcSymbols /\ tcSignal[1].entry \in Int
         /\ tcSignal[1].dir \in {"BUY", "SELL"}
         /\ tcOpened < MaxOpened
    /\ tcPhase = "execute" => Diversified(tcSignal[1].symbol, tcOpen)

CycleInv ==
    /\ tcPhase \in {"idle", "exits", "targets", "scan", "signal", "risk", "diversify", "execute"}
    /\ tcMode \in Modes
    /\ DOMAIN tcMarket \subseteq TcSymbols
    /\ \A s \in DOMAIN tcMarket : tcMarket[s] \in Int
    /\ tcTries \in 0 .. TcRetries
    /\ tcOpened \in 0 .. MaxOpened
    /\ SignalInv
    /\ IsFiniteSet(tcOpen)
    /\ \A p \in tcOpen : Sound(p)
    /\ TrackedBounded

\* No evidence is ever sure enough: the confidence, averaged over the sources though it is
\* already weighted, stays below the threshold (v65_orchestrator.py:586-646, 680-701).
LEMMA CombinedNeverSignals == \A v \in Verdicts : v.combined = "NONE"
<1>1. ASSUME NEW e \in Evidence PROVE CombinedSignal(e) = "NONE"
  <2>1. \A v \in Votes : v.confidence \in 0 .. 5
    BY DEF Votes
  <2>2. /\ e.sentiment.confidence \in 0 .. 5 /\ e.flow.confidence \in 0 .. 5
        /\ e.pattern.confidence \in 0 .. 5 /\ e.frames.confidence \in 0 .. 5
    BY <2>1 DEF Evidence
  <2>3. Confidence(e) \in 0 .. 70
    BY <2>2 DEF Confidence
  <2>4. SourcesUsed(e) \in Nat /\ SourcesUsed(e) >= 3
    <3> DEFINE counted == {f \in {"pattern", "frames"} : e[f].score # 0}
    <3>1. IsFiniteSet({"pattern"} \union {"frames"})
      BY FS_Singleton, FS_Union
    <3>2. counted \in SUBSET ({"pattern"} \union {"frames"})
      OBVIOUS
    <3>3. Cardinality(counted) \in Nat
      BY <3>1, <3>2, FS_Subset, FS_CardinalityType
    <3> HIDE DEF counted
    <3>4. SourcesUsed(e) = 3 + Cardinality(counted) + (IF e.follow THEN 1 ELSE 0)
      BY DEF SourcesUsed, counted
    <3> QED  BY <3>3, <3>4
  <2> QED  BY <2>3, <2>4 DEF CombinedSignal
<1> QED  BY <1>1 DEF Verdicts

\* Trailing and breakeven move the stop only; the first leaves it, or brings it nearer.
LEMMA StopsMoved ==
    ASSUME NEW p \in Positions, NEW price \in Int, Breakeven(p)
    PROVE  LET m == AtBreakeven(Trailed(p, price), price) IN
           /\ m = [p EXCEPT !.stop = m.stop] /\ m.stop \in Int
           /\ p.seen \/ Gain(p, price) >= 5 => ~Better(p, p.entry, m.stop)
<1> DEFINE t == Trailed(p, price)
           m == AtBreakeven(t, price)
<1>1. TrailDistance(Gain(p, price)) \in 5 .. 20
  BY DEF TrailDistance
<1>2. Gain(p, price) \in Int
  BY DEF Gain, Positions
<1>3. t = [p EXCEPT !.stop = t.stop] /\ t.stop \in Int /\ (Gain(p, price) < 5 => t = p)
  BY <1>1, <1>2 DEF Trailed, Beyond, Positions
<1>4. t \in Positions /\ Gain(t, price) = Gain(p, price)
  BY <1>3 DEF Positions, Gain
<1>5. m = [t EXCEPT !.stop = m.stop] /\ m.stop \in Int /\ (Gain(p, price) < 5 => m = t)
  BY <1>2, <1>4 DEF AtBreakeven, Beyond, Positions
<1>6. m = [p EXCEPT !.stop = m.stop]
  BY <1>3, <1>5 DEF Positions
<1>7. Gain(p, price) >= 5 => ~Better(p, p.entry, m.stop)
  <2> HIDE DEF t
  <2>1. t.entry = p.entry /\ t.dir = p.dir
    BY <1>3 DEF Positions
  <2> QED  BY <1>2, <1>4, <2>1 DEF AtBreakeven, Better, Beyond, Positions
<1>8. Gain(p, price) < 5 /\ p.seen => ~Better(p, p.entry, m.stop)
  BY <1>3, <1>5 DEF Breakeven
<1> HIDE DEF m
<1>9. QED  BY <1>2, <1>5, <1>6, <1>7, <1>8 DEF m

\* A managed position is the same one, sound as before.
LEMMA ManagedSound ==
    ASSUME NEW p \in Positions, NEW price \in Int, Breakeven(p), VolumeLeft(p)
    PROVE  LET q == Managed(p, price) IN
           /\ q \in Positions /\ q.id = p.id /\ q.symbol = p.symbol
           /\ VolumeLeft(q) /\ Breakeven(q)
<1> DEFINE m == AtBreakeven(Trailed(p, price), price)
           q == Managed(p, price)
           first == Reached(m, 1, price) /\ 1 \notin m.taken
           second == Reached(m, 2, price) /\ 2 \notin m.taken
           rest == IF first THEN (m.volume * 6) \div 10 ELSE m.volume
           reached == {l \in {1, 2} : Reached(m, l, price)}
<1>1. /\ m = [p EXCEPT !.stop = m.stop] /\ m.stop \in Int
      /\ p.seen \/ Gain(p, price) >= 5 => ~Better(p, p.entry, m.stop)
  BY StopsMoved
<1> HIDE DEF m
<1>2. /\ m \in Positions /\ m.taken = p.taken /\ m.volume = p.volume /\ m.entry = p.entry /\ m.dir = p.dir
      /\ m.id = p.id /\ m.symbol = p.symbol /\ m.seen = p.seen
  BY <1>1 DEF Positions
<1>3. q = [m EXCEPT !.volume = IF second THEN rest \div 2 ELSE rest,
                    !.stop = IF first THEN Beyond(m, m.entry, 1) ELSE @,
                    !.taken = @ \union reached,
                    !.seen = @ \/ Gain(p, price) >= 5]
  BY <1>2 DEF Managed, Partials, m, Positions
<1> HIDE DEF q
<1>4. q.taken = p.taken \union reached /\ q.taken \in SUBSET {1, 2}
  BY <1>2, <1>3 DEF Positions
<1>5. q.volume = (IF second THEN rest \div 2 ELSE rest) /\ q.volume \in Int
  BY <1>2, <1>3 DEF Positions
<1>6. VolumeLeft(q)
  <2>1. first <=> 1 \in q.taken /\ 1 \notin p.taken
    BY <1>2, <1>4
  <2>2. second <=> 2 \in q.taken /\ 2 \notin p.taken
    BY <1>2, <1>4
  <2>3. p.taken \in SUBSET {1, 2} /\ p.taken \subseteq q.taken
    BY <1>4 DEF Positions
  <2>4. q.volume = IF 2 \in q.taken /\ 2 \notin p.taken
                     THEN (IF 1 \in q.taken /\ 1 \notin p.taken THEN (p.volume * 6) \div 10 ELSE p.volume) \div 2
                     ELSE (IF 1 \in q.taken /\ 1 \notin p.taken THEN (p.volume * 6) \div 10 ELSE p.volume)
    BY <1>2, <1>5, <2>1, <2>2
  <2>5. /\ p.taken = {} \/ p.taken = {1} \/ p.taken = {2} \/ p.taken = {1, 2}
        /\ q.taken = {} \/ q.taken = {1} \/ q.taken = {2} \/ q.taken = {1, 2}
    BY <1>4, <2>3
  <2>6. /\ (10 * 6) \div 10 = 6 /\ (5 * 6) \div 10 = 3 /\ 10 \div 2 = 5 /\ 6 \div 2 = 3
    OBVIOUS
  <2>7. CASE p.taken = {}
    BY <2>4, <2>5, <2>6, <2>7 DEF VolumeLeft
  <2>8. CASE p.taken = {1}
    BY <2>3, <2>4, <2>5, <2>6, <2>8 DEF VolumeLeft
  <2>9. CASE p.taken = {2}
    BY <2>3, <2>4, <2>5, <2>6, <2>9 DEF VolumeLeft
  <2>10. CASE p.taken = {1, 2}
    BY <2>3, <2>4, <2>5, <2>6, <2>10 DEF VolumeLeft
  <2> QED  BY <2>5, <2>7, <2>8, <2>9, <2>10
<1>7. q.stop = (IF first THEN Beyond(m, m.entry, 1) ELSE m.stop) /\ q.stop \in Int
  BY <1>2, <1>3 DEF Positions, Beyond
<1>8. /\ q.entry = p.entry /\ q.dir = p.dir /\ q.id = p.id /\ q.symbol = p.symbol
      /\ q.seen = (p.seen \/ Gain(p, price) >= 5) /\ q.seen \in BOOLEAN /\ q.targets = m.targets
  BY <1>2, <1>3 DEF Positions
<1>9. Breakeven(q)
  <2>1. CASE first
    BY <1>2, <1>7, <1>8, <2>1 DEF Breakeven, Better, Beyond, Positions
  <2>2. CASE ~first
    BY <1>1, <1>7, <1>8, <2>2 DEF Breakeven, Better
  <2> QED  BY <2>1, <2>2
<1>10. q \in Positions
  BY <1>2, <1>3, <1>4, <1>5, <1>7, <1>8 DEF Positions
<1> QED  BY <1>6, <1>8, <1>9, <1>10 DEF q

\* Whether two symbols are correlated does not depend on which is asked about.
LEMMA CorrelatedSymmetric ==
    ASSUME NEW s \in Int, NEW t \in Int, Correlated(s, t)
    PROVE  Correlated(t, s)
<1>1. CASE s = t
  BY <1>1
<1>2. CASE s < t
  BY <1>2 DEF Correlated
<1>3. CASE t < s
  BY <1>3 DEF Correlated
<1> QED  BY <1>1, <1>2, <1>3

\* Managing the exits changes positions one by one, and closes some.
LEMMA ManageExitsKeeps ==
    ASSUME CycleInv, NEW aged, ManageExits(aged)
    PROVE  CycleInv'
<1> DEFINE Priced(p) == p.symbol \in DOMAIN tcMarket
           f == [p \in tcOpen |-> IF Priced(p) THEN Managed(p, tcMarket[p.symbol]) ELSE p]
           All == {f[p] : p \in tcOpen}
<1>1. tcOpen' \subseteq All /\ UNCHANGED <<tcMode, tcTries, tcMarket, tcSignal, tcOpened>> /\ tcPhase' = "targets"
  BY DEF ManageExits, Go
<1>2. ASSUME NEW p \in tcOpen PROVE Sound(f[p]) /\ f[p].id = p.id /\ f[p].symbol = p.symbol
  <2>1. Sound(p)
    BY DEF CycleInv
  <2>2. CASE Priced(p)
    <3>1. tcMarket[p.symbol] \in Int
      BY <2>2 DEF CycleInv
    <3>2. f[p] = Managed(p, tcMarket[p.symbol])
      BY <2>2
    <3> QED  BY <2>1, <3>1, <3>2, ManagedSound DEF Sound
  <2>3. CASE ~Priced(p)
    BY <2>1, <2>3
  <2> QED  BY <2>2, <2>3
<1> HIDE DEF f
<1>3. IsFiniteSet(tcOpen') /\ Cardinality(tcOpen') <= MaxPositions
  <2>1. f \in Surjection(tcOpen, All)
    <3>1. f \in [tcOpen -> All]
      BY DEF f
    <3> QED  BY <3>1 DEF Surjection
  <2>2. IsFiniteSet(All) /\ Cardinality(All) <= Cardinality(tcOpen)
    BY <2>1, FS_Surjection DEF CycleInv
  <2> HIDE DEF All
  <2>3. IsFiniteSet(tcOpen') /\ Cardinality(tcOpen') <= Cardinality(All)
    BY <1>1, <2>2, FS_Subset
  <2>4. Cardinality(tcOpen') \in Nat /\ Cardinality(All) \in Nat /\ Cardinality(tcOpen) \in Nat
    BY <2>2, <2>3, FS_CardinalityType DEF CycleInv
  <2>5. Cardinality(tcOpen) <= MaxPositions /\ MaxPositions \in Nat
    BY CycleAssumption DEF CycleInv, TrackedBounded
  <2> QED  BY <2>2, <2>3, <2>4, <2>5
<1>4. ASSUME NEW q \in tcOpen', NEW r \in tcOpen', q # r
      PROVE  q.id # r.id /\ ~Correlated(q.symbol, r.symbol)
  <2>1. PICK p \in tcOpen, s \in tcOpen : q = f[p] /\ r = f[s]
    BY <1>1
  <2>2. p # s
    BY <2>1, <1>4
  <2> QED  BY <1>2, <2>1, <2>2 DEF CycleInv, TrackedBounded
<1>5. ASSUME NEW q \in tcOpen' PROVE Sound(q)'
  <2>1. Sound(q)
    BY <1>1, <1>2
  <2> QED  BY <1>1, <2>1 DEF Sound
<1>6. TrackedBounded'
  BY <1>3, <1>4 DEF TrackedBounded
<1> QED  BY <1>1, <1>3, <1>5, <1>6 DEF CycleInv, SignalInv

\* An order is tracked as a new position, below the maximum and correlated with none.
LEMMA ExecuteKeeps ==
    ASSUME CycleInv, NEW spreadOk \in BOOLEAN, Execute(spreadOk)
    PROVE  CycleInv'
<1> DEFINE signal == tcSignal[1]
<1> PICK new : new = Tracked(tcOpened + 1, signal)
  OBVIOUS
<1>1. /\ signal.symbol \in TcSymbols /\ signal.entry \in Int /\ signal.dir \in {"BUY", "SELL"}
      /\ tcOpened < MaxOpened /\ Diversified(signal.symbol, tcOpen)
  BY DEF CycleInv, SignalInv, Execute
<1>2. tcPhase' = "idle" /\ tcTries' = 0 /\ tcMode' = "semi" /\ tcMarket' = <<>>
  BY DEF Execute, EndCycle, Over
<1>3. /\ tcPhase' \in {"idle"} /\ tcMode' \in Modes /\ DOMAIN tcMarket' = {} /\ tcTries' \in 0 .. TcRetries
  BY <1>2, CycleAssumption DEF Modes
<1>4. CASE UNCHANGED tcBook
  BY <1>3, <1>4 DEF CycleInv, SignalInv, tcBook, TrackedBounded, Sound
<1>5. CASE tcOpen' = tcOpen \union {new} /\ tcOpened' = tcOpened + 1
  <2>1. tcOpened \in Nat /\ tcOpened' \in 0 .. MaxOpened
    BY <1>1, <1>5, CycleAssumption DEF CycleInv
  <2>2. new \in Positions /\ new.id = tcOpened + 1 /\ new.symbol = signal.symbol /\ new.volume = 10
        /\ new.taken = {} /\ new.seen = FALSE
    <3>1. signal.symbol \in TcSymbols /\ signal.entry \in Int /\ tcOpened + 1 \in Nat
      BY <1>1, <2>1
    <3>2. \A pips \in Int : Beyond(signal, signal.entry, pips) \in Int
      BY <1>1 DEF Beyond
    <3>3. Beyond(signal, signal.entry, 0 - StopPips) \in Int
          /\ [l \in 1 .. 3 |-> Beyond(signal, signal.entry, TargetPips[l])] \in [1 .. 3 -> Int]
      BY <3>2, CycleAssumption
    <3> HIDE DEF signal
    <3> QED  BY <1>1, <3>1, <3>3 DEF Tracked, StopLoss, TakeProfits, Positions
  <2>3. Sound(new)'
    <3>1. VolumeLeft(new)
      BY <2>2 DEF VolumeLeft
    <3>2. Breakeven(new)
      BY <2>2 DEF Breakeven
    <3> QED  BY <1>5, <2>1, <2>2, <3>1, <3>2 DEF Sound
  <2>4. ASSUME NEW p \in tcOpen PROVE Sound(p)' /\ p.id # new.id /\ p # new
    BY <1>5, <2>1, <2>2 DEF CycleInv, Sound
  <2>5. IsFiniteSet(tcOpen') /\ Cardinality(tcOpen') <= MaxPositions
    <3>1. IsFiniteSet(tcOpen') /\ Cardinality(tcOpen') = Cardinality(tcOpen) + 1
      BY <1>5, <2>4, FS_AddElement DEF CycleInv
    <3>2. Cardinality(tcOpen) \in Nat /\ Cardinality(tcOpen) < MaxPositions
      BY <1>1, FS_CardinalityType DEF CycleInv, Diversified
    <3> QED  BY <3>1, <3>2, CycleAssumption
  <2>6. ASSUME NEW p \in tcOpen' , NEW q \in tcOpen', p # q
        PROVE  p.id # q.id /\ ~Correlated(p.symbol, q.symbol)
    <3>1. ASSUME NEW r \in tcOpen PROVE ~Correlated(new.symbol, r.symbol) /\ ~Correlated(r.symbol, new.symbol)
      <4>1. new.symbol \in Int /\ r.symbol \in Int
        BY <1>1, <2>2, CycleAssumption DEF CycleInv, Sound, Positions
      <4>2. ~Correlated(new.symbol, r.symbol)
        BY <1>1, <2>2 DEF Diversified
      <4> QED  BY <4>1, <4>2, CorrelatedSymmetric
    <3>2. CASE p \in tcOpen /\ q \in tcOpen
      BY <2>6, <3>2 DEF CycleInv, TrackedBounded
    <3>3. CASE p = new \/ q = new
      BY <1>5, <2>4, <2>6, <3>1, <3>3
    <3> QED  BY <1>5, <3>2, <3>3
  <2>7. TrackedBounded'
    BY <2>5, <2>6 DEF TrackedBounded
  <2>8. \A p \in tcOpen' : Sound(p)'
    BY <1>5, <2>3, <2>4
  <2> QED  BY <1>3, <2>1, <2>5, <2>7, <2>8 DEF CycleInv, SignalInv
<1> QED  BY <1>4, <1>5 DEF Execute

\* The other phases leave the positions alone.
LEMMA OtherPhasesKeep ==
    ASSUME CycleInv, UNCHANGED tcBook,
           \/ NoCycle \/ FallbackRaises \/ PhaseRaises \/ TargetsFailOpen \/ Diversify \/ UNCHANGED tcVars
           \/ \E m \in Modes, S \in Fetched : \E p \in [S -> TcPrices] : BeginCycle(m, p)
           \/ \E S \in SUBSET TcSymbols : Scan(S)
           \/ \E s, top \in TcSymbols, v \in Verdicts, c \in {70, 71}, d \in {"BUY", "SELL"} :
                (c > 70 => tcOpened < MaxOpened) /\ Signal(s, top, v, c, d)
           \/ \E b \in BOOLEAN : Risk(b)
    PROVE  CycleInv'
<1> USE CycleAssumption
<1>1. /\ IsFiniteSet(tcOpen') /\ tcOpened' \in 0 .. MaxOpened /\ \A p \in tcOpen' : Sound(p)'
      /\ TrackedBounded' /\ tcOpen' = tcOpen /\ tcOpened' = tcOpened
  BY DEF CycleInv, TrackedBounded, Sound, tcBook
<1>2. CASE EndCycle \/ Raises
  <2>1. tcPhase' = "idle" /\ tcMode' \in Modes /\ DOMAIN tcMarket' = {}
    BY <1>2 DEF EndCycle, Raises, Over, Modes
  <2>2. tcTries' \in 0 .. TcRetries
    BY <1>2 DEF EndCycle, Raises, CycleInv
  <2> QED  BY <1>1, <2>1, <2>2 DEF CycleInv, SignalInv
<1>3. CASE FallbackRaises \/ PhaseRaises
  BY <1>2, <1>3 DEF FallbackRaises, PhaseRaises
<1>4. ASSUME NEW m \in Modes, NEW S \in Fetched, NEW p \in [S -> TcPrices], BeginCycle(m, p) PROVE CycleInv'
  <2>1. DOMAIN p \subseteq TcSymbols /\ \A s \in DOMAIN p : p[s] \in Int
    BY <1>4
  <2>2. tcPhase' = "exits" /\ tcMode' = m /\ tcMarket' = p /\ tcTries' = tcTries
    BY <1>4 DEF BeginCycle
  <2> QED  BY <1>1, <2>1, <2>2 DEF CycleInv, SignalInv
<1>5. ASSUME NEW phase \in {"scan", "signal"}, Go(phase) PROVE CycleInv'
  BY <1>1, <1>5 DEF Go, CycleInv, SignalInv
<1>6. ASSUME NEW s \in TcSymbols, NEW top \in TcSymbols, NEW v \in Verdicts, NEW c \in {70, 71},
             NEW d \in {"BUY", "SELL"}, c > 70 => tcOpened < MaxOpened, Signal(s, top, v, c, d), ~EndCycle
      PROVE  CycleInv'
  <2>1. SignalOf(s, top, v, c, d) = <<[symbol |-> s, dir |-> d, entry |-> tcMarket[top]]>> /\ c > 70
    BY <1>6, CombinedNeverSignals DEF Signal, SignalOf
  <2>2. /\ tcPhase' = "risk" /\ tcSignal' = <<[symbol |-> s, dir |-> d, entry |-> tcMarket[top]]>>
        /\ tcMarket[top] \in Int /\ UNCHANGED <<tcMode, tcTries, tcMarket>>
    BY <1>6, <2>1 DEF Signal, CycleInv
  <2> QED  BY <1>1, <1>6, <2>1, <2>2 DEF CycleInv, SignalInv
<1>7. CASE (\E b \in BOOLEAN : Risk(b)) /\ ~EndCycle
  <2>1. tcPhase = "risk" /\ tcPhase' = "diversify" /\ UNCHANGED <<tcMode, tcTries, tcMarket, tcSignal>>
    BY <1>7 DEF Risk, Go
  <2> QED  BY <1>1, <2>1 DEF CycleInv, SignalInv
<1>8. CASE Diversify /\ ~EndCycle
  <2>1. /\ tcPhase = "diversify" /\ tcPhase' = "execute" /\ UNCHANGED <<tcMode, tcTries, tcMarket, tcSignal>>
        /\ Diversified(tcSignal[1].symbol, tcOpen)
    BY <1>8 DEF Diversify, Go
  <2> QED  BY <1>1, <2>1 DEF CycleInv, SignalInv
<1>9. CASE UNCHANGED tcVars
  BY <1>1, <1>9 DEF tcVars, CycleInv, SignalInv
<1> QED  BY <1>2, <1>3, <1>4, <1>5, <1>6, <1>7, <1>8, <1>9 DEF NoCycle, TargetsFailOpen, Scan

LEMMA CycleInvHolds == TcSpec => []CycleInv
<1>1. TcInit => CycleInv
  <2> SUFFICES ASSUME TcInit PROVE CycleInv
    OBVIOUS
  <2>1. DOMAIN tcMarket = {} /\ tcOpen = {} /\ tcTries \in 0 .. TcRetries /\ tcOpened \in 0 .. MaxOpened
    BY CycleAssumption DEF TcInit
  <2>2. IsFiniteSet(tcOpen) /\ Cardinality(tcOpen) <= MaxPositions
    BY <2>1, FS_EmptySet, CycleAssumption
  <2> QED  BY <2>1, <2>2 DEF TcInit, CycleInv, SignalInv, TrackedBounded, Modes
<1>2. CycleInv /\ [TcNext]_tcVars => CycleInv'
  <2> SUFFICES ASSUME CycleInv, [TcNext]_tcVars PROVE CycleInv'
    OBVIOUS
  <2>1. ASSUME NEW aged \in SUBSET (1 .. MaxOpened), ManageExits(aged) PROVE CycleInv'
    BY <2>1, ManageExitsKeeps
  <2>2. ASSUME NEW ok \in BOOLEAN, Execute(ok) PROVE CycleInv'
    BY <2>2, ExecuteKeeps
  <2>3. CASE \/ NoCycle \/ FallbackRaises \/ PhaseRaises \/ TargetsFailOpen \/ Diversify \/ UNCHANGED tcVars
             \/ \E m \in Modes, S \in Fetched : \E p \in [S -> TcPrices] : BeginCycle(m, p)
             \/ \E S \in SUBSET TcSymbols : Scan(S)
             \/ \E s, top \in TcSymbols, v \in Verdicts, c \in {70, 71}, d \in {"BUY", "SELL"} :
                  (c > 70 => tcOpened < MaxOpened) /\ Signal(s, top, v, c, d)
             \/ \E b \in BOOLEAN : Risk(b)
    <3>1. UNCHANGED tcBook
      BY <2>3 DEF NoCycle, FallbackRaises, PhaseRaises, TargetsFailOpen, Diversify, BeginCycle, Scan, Signal, Risk, tcVars
    <3> QED  BY <2>3, <3>1, OtherPhasesKeep
  <2> QED  BY <2>1, <2>2, <2>3 DEF TcNext
<1> QED  BY <1>1, <1>2, PTL DEF TcSpec

\* For every set of prices, stop and target distances: once the exit management has seen a
\* position five pips in profit, its stop is never again on the losing side of the entry
\* (v65_orchestrator.py:1047-1135).
THEOREM BreakevenIsKept == TcSpec => []BreakevenKept
<1>1. CycleInv => BreakevenKept
  BY DEF CycleInv, Sound, Breakeven, BreakevenKept
<1> QED  BY <1>1, CycleInvHolds, PTL

\* The types of the cycle, with the bound on what it tracks: at most the maximum, no two of
\* which the matrix correlates, each with a part of its volume left
\* (v65_orchestrator.py:866-958, artificial_diversification.py:64-67).
THEOREM CycleTypes == TcSpec => []TcTypeOK
<1>1. CycleInv => TcTypeOK
  <2> SUFFICES ASSUME CycleInv PROVE TcTypeOK
    OBVIOUS
  <2>1. ASSUME NEW p \in tcOpen PROVE p.id \in 1 .. tcOpened /\ p.volume \in 1 .. 10
    <3>1. p \in Positions /\ VolumeLeft(p) /\ p.id \in 1 .. tcOpened
      BY DEF CycleInv, Sound
    <3>2. p.taken = {} \/ p.taken = {1} \/ p.taken = {2} \/ p.taken = {1, 2}
      BY <3>1 DEF Positions
    <3> QED  BY <3>1, <3>2 DEF VolumeLeft
  <2> QED  BY <2>1 DEF CycleInv, TcTypeOK
<1> QED  BY <1>1, CycleInvHolds, PTL

-----------------------------------------------------------------------------
(* The cached figures (config/tasks.py:430-500).                           *)

Row == [user : Users, total : Nat, wins : Nat, losses : Nat, moved : SUBSET {"closed", "reopened"}]
AllTrades == [Users -> [Slots -> [symbol : PcSymbols, closed : BOOLEAN, profit : AnyProfit]]]

\* What the queries count, of each user.
WinCount == [u \in Users |-> Count(u, {1})]
LossCount == [u \in Users |-> Count(u, {-1})]
ClosedCount == [u \in Users |-> Count(u, AnyProfit)]
SymbolWinCount == [u \in Users |-> [s \in PcSymbols |-> OfSymbol(u, s, {1})]]
SymbolCount == [u \in Users |-> [s \in PcSymbols |-> OfSymbol(u, s, AnyProfit)]]

\* What is still to be read of a day fits in its total unless a trade was closed since the
\* total was read.
DayFits(row, place) ==
    "closed" \notin row.moved =>
      /\ place = "wins" => WinCount[row.user] + LossCount[row.user] <= row.total
      /\ place = "losses" => row.wins + LossCount[row.user] <= row.total
      /\ place = "daily" => ~Overcounted(row)

\* The wins read of a symbol are still among its trades unless one was reopened since.
SymbolFits(row, place) ==
    place \in PcSymbols /\ "reopened" \notin row.moved => row.wins <= SymbolCount[row.user][place]

ReadInv ==
    /\ pcTask # "idle" => pcUser \in 1 .. Len(PcUsers)
    /\ pcRead \in Row
    /\ pcTask \in {"wins", "losses", "daily"} \union PcSymbols => pcRead.user = PcUsers[pcUser]
    /\ DayFits(pcRead, pcTask)
    /\ SymbolFits(pcRead, pcTask)

\* The view reads its figures in the order of a day's.
ResponseInv ==
    /\ pcResponse \in Row
    /\ pcView \in {"idle", "trades", "wins", "losses"}
    /\ DayFits(pcResponse, pcView)
    /\ pcView \in {"trades", "wins"} => pcResponse.wins = 0
    /\ pcView \in {"trades", "wins", "losses"} => pcResponse.losses = 0

RowsInv ==
    /\ pcDaily \in [Users -> Row]
    /\ pcSymbol \in [Users -> [PcSymbols -> Row]]
    /\ MismatchMeansMoved

CacheInv == pcTrades \in AllTrades /\ ReadInv /\ ResponseInv /\ RowsInv

\* Each index of the list of users is a user.
LEMMA UsersListed ==
    /\ \A i \in 1 .. Len(PcUsers) : PcUsers[i] \in Users
    /\ Nothing \in Row /\ Nothing.moved = {}
    /\ Nothing.total = 0 /\ Nothing.wins = 0 /\ Nothing.losses = 0
<1>1. \A i \in DOMAIN PcUsers : PcUsers[i] \in Users
  BY DEF Users, Range
<1> QED  BY <1>1, CacheAssumption DEF Nothing, Row

\* Sets of a user's trades are finite, and counted monotonically.
LEMMA SlotsCounted ==
    ASSUME NEW T \in SUBSET Slots
    PROVE  /\ IsFiniteSet(T) /\ Cardinality(T) \in Nat
           /\ \A S \in SUBSET T : Cardinality(S) \in Nat /\ Cardinality(S) <= Cardinality(T)
<1>1. IsFiniteSet(Slots)
  BY FS_Interval, CacheAssumption DEF Slots
<1>2. IsFiniteSet(T) /\ Cardinality(T) \in Nat
  BY <1>1, FS_Subset, FS_CardinalityType
<1>3. \A S \in SUBSET T : Cardinality(S) \in Nat /\ Cardinality(S) <= Cardinality(T)
  BY <1>2, FS_Subset, FS_CardinalityType
<1> QED  BY <1>2, <1>3

LEMMA CountsAreNumbers ==
    /\ WinCount \in [Users -> Nat] /\ LossCount \in [Users -> Nat] /\ ClosedCount \in [Users -> Nat]
    /\ SymbolWinCount \in [Users -> [PcSymbols -> Nat]] /\ SymbolCount \in [Users -> [PcSymbols -> Nat]]
    /\ WinCount' \in [Users -> Nat] /\ LossCount' \in [Users -> Nat]
    /\ SymbolCount' \in [Users -> [PcSymbols -> Nat]]
<1>1. \A u, P : ClosedOf(u, P) \in SUBSET Slots /\ ClosedOf(u, P)' \in SUBSET Slots
  BY DEF ClosedOf
<1>2. \A u, P, s : /\ {i \in ClosedOf(u, P) : pcTrades[u][i].symbol = s} \in SUBSET Slots
                   /\ {i \in ClosedOf(u, P)' : pcTrades'[u][i].symbol = s} \in SUBSET Slots
  BY <1>1
<1>3. \A u, P, s : Count(u, P) \in Nat /\ OfSymbol(u, s, P) \in Nat
  BY <1>1, <1>2, SlotsCounted DEF Count, OfSymbol
<1>4. \A u, P, s : Count(u, P)' \in Nat /\ OfSymbol(u, s, P)' \in Nat
  BY <1>1, <1>2, SlotsCounted DEF Count, OfSymbol
<1> QED  BY <1>3, <1>4 DEF WinCount, LossCount, ClosedCount, SymbolWinCount, SymbolCount

\* No trade is both a win and a loss.
LEMMA WinsAndLossesFit ==
    ASSUME NEW u \in Users
    PROVE  /\ WinCount[u] + LossCount[u] <= ClosedCount[u]
           /\ \A s \in PcSymbols : SymbolWinCount[u][s] <= SymbolCount[u][s]
<1> DEFINE W == ClosedOf(u, {1})
           L == ClosedOf(u, {-1})
           A == ClosedOf(u, AnyProfit)
<1>1. A \in SUBSET Slots /\ W \in SUBSET A /\ L \in SUBSET A /\ W \intersect L = {} /\ W \union L \in SUBSET A
  BY DEF ClosedOf, AnyProfit
<1>2. \A s : {i \in A : pcTrades[u][i].symbol = s} \in SUBSET Slots
             /\ {i \in W : pcTrades[u][i].symbol = s} \in SUBSET {i \in A : pcTrades[u][i].symbol = s}
  BY <1>1
<1>3. \A s \in PcSymbols : SymbolWinCount[u][s] <= SymbolCount[u][s]
  BY <1>2, SlotsCounted DEF SymbolWinCount, SymbolCount, OfSymbol
<1>4. WinCount[u] = Cardinality(W) /\ LossCount[u] = Cardinality(L) /\ ClosedCount[u] = Cardinality(A)
  BY DEF WinCount, LossCount, ClosedCount, Count
<1> HIDE DEF W, L, A
<1>5. IsFiniteSet(W) /\ IsFiniteSet(L) /\ Cardinality(W) \in Nat /\ Cardinality(L) \in Nat /\ Cardinality(A) \in Nat
  BY <1>1, SlotsCounted
<1>6. Cardinality(W \union L) = Cardinality(W) + Cardinality(L) - Cardinality(W \intersect L)
  BY <1>5, FS_Union
<1>7. Cardinality(W \intersect L) = 0
  BY <1>1, FS_EmptySet
<1>8. Cardinality(W \union L) <= Cardinality(A)
  BY <1>1, SlotsCounted
<1>9. WinCount[u] + LossCount[u] <= ClosedCount[u]
  BY <1>4, <1>5, <1>6, <1>7, <1>8
<1> QED  BY <1>3, <1>9

\* What a closed or reopened trade changes is in the same direction for every count, and
\* for the other users and symbols nothing.
LEMMA ClosingCounts ==
    ASSUME pcTrades \in AllTrades, NEW u \in Users, NEW i \in Slots, NEW p \in AnyProfit, CloseTrade(u, i, p)
    PROVE  /\ pcTrades' \in AllTrades
           /\ \A v \in Users \ {u} : WinCount'[v] = WinCount[v] /\ LossCount'[v] = LossCount[v]
           /\ \A v \in Users, s \in PcSymbols : SymbolCount[v][s] <= SymbolCount'[v][s]
<1>1. /\ ~pcTrades[u][i].closed
      /\ pcTrades' = [pcTrades EXCEPT ![u][i].closed = TRUE, ![u][i].profit = p]
  BY DEF CloseTrade
<1>2. pcTrades' \in AllTrades
  <2> DEFINE t == [pcTrades[u][i] EXCEPT !.closed = TRUE, !.profit = p]
  <2>0. pcTrades[u][i] \in [symbol : PcSymbols, closed : BOOLEAN, profit : AnyProfit]
    BY DEF AllTrades
  <2>1. t \in [symbol : PcSymbols, closed : BOOLEAN, profit : AnyProfit]
    BY <2>0
  <2>2. pcTrades' = [pcTrades EXCEPT ![u] = [pcTrades[u] EXCEPT ![i] = t]]
    BY <1>1 DEF AllTrades
  <2> HIDE DEF t
  <2> QED  BY <2>1, <2>2 DEF AllTrades
<1>3. ASSUME NEW v \in Users \ {u} PROVE \A P : ClosedOf(v, P)' = ClosedOf(v, P)
  <2>1. pcTrades'[v] = pcTrades[v]
    BY <1>1 DEF AllTrades
  <2> QED  BY <2>1 DEF ClosedOf
<1>4. \A v \in Users \ {u} : WinCount'[v] = WinCount[v] /\ LossCount'[v] = LossCount[v]
  BY <1>3 DEF WinCount, LossCount, Count
<1>5. ASSUME NEW v \in Users, NEW s \in PcSymbols PROVE SymbolCount[v][s] <= SymbolCount'[v][s]
  <2> DEFINE Before == {j \in ClosedOf(v, AnyProfit) : pcTrades[v][j].symbol = s}
             After == {j \in ClosedOf(v, AnyProfit)' : pcTrades'[v][j].symbol = s}
  <2>1. Before \in SUBSET After /\ After \in SUBSET Slots
    <3>1. \A j \in Slots : /\ pcTrades'[v][j].symbol = pcTrades[v][j].symbol
                           /\ pcTrades[v][j].closed => pcTrades'[v][j] = pcTrades[v][j]
      BY <1>1 DEF AllTrades
    <3> QED  BY <3>1 DEF ClosedOf
  <2>2. SymbolCount[v][s] = Cardinality(Before) /\ SymbolCount'[v][s] = Cardinality(After)
    BY DEF SymbolCount, OfSymbol
  <2> HIDE DEF Before, After
  <2> QED  BY <2>1, <2>2, SlotsCounted
<1> QED  BY <1>2, <1>4, <1>5

LEMMA ReopeningCounts ==
    ASSUME pcTrades \in AllTrades, NEW u \in Users, NEW i \in Slots, ReopenTrade(u, i)
    PROVE  /\ pcTrades' \in AllTrades
           /\ \A v \in Users : WinCount'[v] <= WinCount[v] /\ LossCount'[v] <= LossCount[v]
           /\ \A v \in Users, s \in PcSymbols :
                ~(v = u /\ s = pcTrades[u][i].symbol) => SymbolCount'[v][s] = SymbolCount[v][s]
<1>1. /\ pcTrades[u][i].closed
      /\ pcTrades' = [pcTrades EXCEPT ![u][i].closed = FALSE, ![u][i].profit = 0]
  BY DEF ReopenTrade
<1>2. pcTrades' \in AllTrades
  <2> DEFINE t == [pcTrades[u][i] EXCEPT !.closed = FALSE, !.profit = 0]
  <2>0. pcTrades[u][i] \in [symbol : PcSymbols, closed : BOOLEAN, profit : AnyProfit] /\ 0 \in AnyProfit
    BY DEF AllTrades, AnyProfit
  <2>1. t \in [symbol : PcSymbols, closed : BOOLEAN, profit : AnyProfit]
    BY <2>0
  <2>2. pcTrades' = [pcTrades EXCEPT ![u] = [pcTrades[u] EXCEPT ![i] = t]]
    BY <1>1 DEF AllTrades
  <2> HIDE DEF t
  <2> QED  BY <2>1, <2>2 DEF AllTrades
<1>3. \A v \in Users, j \in Slots : /\ pcTrades'[v][j].symbol = pcTrades[v][j].symbol
                                    /\ pcTrades'[v][j].closed => pcTrades'[v][j] = pcTrades[v][j]
                                    /\ ~(v = u /\ j = i) => pcTrades'[v][j] = pcTrades[v][j]
  BY <1>1 DEF AllTrades
<1>4. ASSUME NEW v \in Users, NEW P
      PROVE  ClosedOf(v, P)' \in SUBSET ClosedOf(v, P) /\ ClosedOf(v, P) \in SUBSET Slots
  BY <1>3 DEF ClosedOf
<1>5. \A v \in Users : WinCount'[v] <= WinCount[v] /\ LossCount'[v] <= LossCount[v]
  BY <1>4, SlotsCounted DEF WinCount, LossCount, Count
<1>6. ASSUME NEW v \in Users, NEW s \in PcSymbols, ~(v = u /\ s = pcTrades[u][i].symbol)
      PROVE  SymbolCount'[v][s] = SymbolCount[v][s]
  <2>1. {j \in ClosedOf(v, AnyProfit)' : pcTrades'[v][j].symbol = s}
          = {j \in ClosedOf(v, AnyProfit) : pcTrades[v][j].symbol = s}
    BY <1>3, <1>6 DEF ClosedOf
  <2> QED  BY <2>1 DEF SymbolCount, OfSymbol
<1> QED  BY <1>2, <1>5, <1>6

\* A trade that goes one way leaves what is read fitting: where it would not, the row says
\* that it went.
LEMMA MovesKeep ==
    ASSUME CacheInv, NEW u \in Users, NEW i \in Slots,
           ReopenTrade(u, i) \/ \E p \in Profits : CloseTrade(u, i, p)
    PROVE  CacheInv'
<1> USE DEF CacheInv
<1>1. PICK way \in {"closed", "reopened"} :
        /\ Moved(u, i, way)
        /\ way = "closed" => \E p \in AnyProfit : CloseTrade(u, i, p)
        /\ way = "reopened" => ReopenTrade(u, i)
  <2>1. ASSUME NEW p \in Profits, CloseTrade(u, i, p) PROVE p \in AnyProfit /\ Moved(u, i, "closed")
    BY <2>1, CacheAssumption DEF AnyProfit, CloseTrade
  <2>2. ReopenTrade(u, i) => Moved(u, i, "reopened")
    BY DEF ReopenTrade
  <2> QED  BY <2>1, <2>2
<1>2. /\ pcTrades' \in AllTrades
      /\ way = "closed" => /\ \A v \in Users \ {u} : WinCount'[v] = WinCount[v] /\ LossCount'[v] = LossCount[v]
                           /\ \A v \in Users, s \in PcSymbols : SymbolCount[v][s] <= SymbolCount'[v][s]
      /\ way = "reopened" => /\ \A v \in Users : WinCount'[v] <= WinCount[v] /\ LossCount'[v] <= LossCount[v]
                             /\ \A v \in Users, s \in PcSymbols :
                                  ~(v = u /\ s = pcTrades[u][i].symbol) => SymbolCount'[v][s] = SymbolCount[v][s]
  BY <1>1, ClosingCounts, ReopeningCounts
<1>3. /\ WinCount \in [Users -> Nat] /\ LossCount \in [Users -> Nat]
      /\ SymbolCount \in [Users -> [PcSymbols -> Nat]]
  BY CountsAreNumbers
<1>4. WinCount' \in [Users -> Nat] /\ LossCount' \in [Users -> Nat] /\ SymbolCount' \in [Users -> [PcSymbols -> Nat]]
  BY CountsAreNumbers
<1>5. /\ UNCHANGED <<pcTask, pcUser, pcView, pcDaily, pcSymbol>>
      /\ pcRead \in Row /\ pcRead' \in Row /\ pcResponse \in Row /\ pcResponse' \in Row
      /\ \/ pcRead' = pcRead /\ ~(pcRead.user = u /\ pcTask \in {"wins", "losses", pcTrades[u][i].symbol})
         \/ pcRead' = [pcRead EXCEPT !.moved = @ \union {way}]
      /\ \/ pcResponse' = pcResponse /\ ~(pcResponse.user = u /\ pcView \in {"wins", "losses"})
         \/ pcResponse' = [pcResponse EXCEPT !.moved = @ \union {way}]
  BY <1>1 DEF Moved, ReadInv, ResponseInv, Row, cacheVars
<1>6. ReadInv'
  <2>1. /\ pcRead'.user = pcRead.user /\ pcRead'.total = pcRead.total /\ pcRead'.wins = pcRead.wins
        /\ pcRead'.losses = pcRead.losses /\ pcRead.moved \subseteq pcRead'.moved
        /\ pcRead.user = u /\ pcTask \in {"wins", "losses", pcTrades[u][i].symbol} => way \in pcRead'.moved
    BY <1>5 DEF Row
  <2>2. /\ pcRead.user \in Users /\ pcRead.total \in Nat /\ pcRead.wins \in Nat /\ pcRead.losses \in Nat
    BY <1>5 DEF Row
  <2>3. DayFits(pcRead, pcTask)'
    BY <1>1, <1>2, <1>3, <1>4, <1>5, <2>1, <2>2, SMTT(30) DEF ReadInv, DayFits, Overcounted
  <2>4. SymbolFits(pcRead, pcTask)'
    BY <1>1, <1>2, <1>3, <1>4, <1>5, <2>1, <2>2, SMTT(30) DEF ReadInv, SymbolFits
  <2> QED  BY <1>5, <2>1, <2>3, <2>4 DEF ReadInv
<1>7. ResponseInv' /\ (Overcounted(pcResponse)' <=> Overcounted(pcResponse)) /\ pcResponse.moved \subseteq pcResponse'.moved
  <2>1. /\ pcResponse'.user = pcResponse.user /\ pcResponse'.total = pcResponse.total
        /\ pcResponse'.wins = pcResponse.wins
        /\ pcResponse'.losses = pcResponse.losses /\ pcResponse.moved \subseteq pcResponse'.moved
        /\ pcResponse.user = u /\ pcView \in {"wins", "losses"} => way \in pcResponse'.moved
    BY <1>5 DEF Row
  <2>2. /\ pcResponse.user \in Users /\ pcResponse.total \in Nat /\ pcResponse.wins \in Nat
        /\ pcResponse.losses \in Nat
    BY <1>5 DEF Row
  <2>3. DayFits(pcResponse, pcView)'
    BY <1>1, <1>2, <1>3, <1>4, <1>5, <2>1, <2>2, SMTT(30) DEF ResponseInv, DayFits, Overcounted
  <2> QED  BY <1>5, <2>1, <2>3 DEF ResponseInv, Overcounted
<1>8. RowsInv'
  BY <1>5, <1>7 DEF RowsInv, MismatchMeansMoved, Overcounted
<1> QED  BY <1>2, <1>6, <1>7, <1>8

\* The queries change no count.
LEMMA CountsStay ==
    ASSUME UNCHANGED pcTrades
    PROVE  WinCount' = WinCount /\ LossCount' = LossCount /\ SymbolCount' = SymbolCount
<1>1. \A u, P, s : Count(u, P)' = Count(u, P) /\ OfSymbol(u, s, P)' = OfSymbol(u, s, P)
  BY DEF Count, OfSymbol, ClosedOf
<1> QED  BY <1>1 DEF WinCount, LossCount, SymbolCount

\* The task's queries: what each reads fits what the next will count.
LEMMA QueriesKeep ==
    ASSUME CacheInv, ReadToday \/ ReadWins \/ ReadLosses
    PROVE  CacheInv'
<1> USE CacheAssumption DEF CacheInv
<1>1. /\ UNCHANGED <<pcTrades, pcUser, cacheVars, viewVars>> /\ pcTask \in {"today", "wins", "losses"}
      /\ pcTask' \in {"wins", "losses", "daily"} /\ pcTask' \notin PcSymbols
  BY DEF ReadToday, ReadWins, ReadLosses
<1>2. WinCount' = WinCount /\ LossCount' = LossCount /\ SymbolCount' = SymbolCount
  BY <1>1, CountsStay
<1> DEFINE u == PcUsers[pcUser]
<1>3. u \in Users /\ pcUser \in 1 .. Len(PcUsers)
  BY <1>1, UsersListed DEF ReadInv
<1>4. /\ WinCount[u] = Count(u, {1}) /\ LossCount[u] = Count(u, {-1}) /\ ClosedCount[u] = Count(u, AnyProfit)
      /\ WinCount[u] \in Nat /\ LossCount[u] \in Nat /\ ClosedCount[u] \in Nat /\ WinCount[u] + LossCount[u] <= ClosedCount[u]
  BY <1>3, CountsAreNumbers, WinsAndLossesFit DEF WinCount, LossCount, ClosedCount
<1>5. PICK w, l, n \in Nat : w = WinCount[u] /\ l = LossCount[u] /\ n = ClosedCount[u]
  BY <1>4
<1>6. /\ pcTask = "today" => pcTask' = "wins" /\ pcRead' = [Nothing EXCEPT !.user = u, !.total = n]
      /\ pcTask = "wins" => pcTask' = "losses" /\ pcRead' = [pcRead EXCEPT !.wins = w]
      /\ pcTask = "losses" => pcTask' = "daily" /\ pcRead' = [pcRead EXCEPT !.losses = l]
  BY <1>4, <1>5 DEF ReadToday, ReadWins, ReadLosses
<1>7. pcRead' \in Row /\ pcRead'.user = u
  BY <1>1, <1>3, <1>6, UsersListed DEF ReadInv, Row
<1>8. DayFits(pcRead, pcTask)'
  <2>1. CASE pcTask = "today"
    <3>1. pcRead'.total = n /\ pcRead'.user = u
      BY <1>6, <2>1, UsersListed DEF Row
    <3> QED  BY <1>2, <1>4, <1>5, <1>6, <2>1, <3>1 DEF DayFits
  <2>2. CASE pcTask = "wins"
    <3>1. /\ pcRead'.total = pcRead.total /\ pcRead'.user = u /\ pcRead.user = u
          /\ pcRead'.moved = pcRead.moved /\ pcRead'.wins = w
      BY <1>6, <1>7, <2>2 DEF ReadInv, Row
    <3>2. "closed" \notin pcRead.moved => w + l <= pcRead.total
      BY <1>5, <2>2, <3>1 DEF ReadInv, DayFits
    <3> QED  BY <1>2, <1>5, <1>6, <2>2, <3>1, <3>2 DEF DayFits
  <2>3. CASE pcTask = "losses"
    <3>1. /\ pcRead'.total = pcRead.total /\ pcRead.user = u /\ pcRead'.losses = l
          /\ pcRead'.moved = pcRead.moved /\ pcRead'.wins = pcRead.wins
      BY <1>6, <1>7, <2>3 DEF ReadInv, Row
    <3>2. "closed" \notin pcRead.moved => pcRead.wins + l <= pcRead.total
      BY <1>5, <2>3, <3>1 DEF ReadInv, DayFits
    <3>3. pcRead.wins \in Nat /\ pcRead.total \in Nat
      BY DEF ReadInv, Row
    <3> QED  BY <1>6, <2>3, <3>1, <3>2, <3>3 DEF DayFits, Overcounted
  <2> QED  BY <1>1, <2>1, <2>2, <2>3
<1>9. ReadInv'
  BY <1>1, <1>3, <1>7, <1>8 DEF ReadInv, SymbolFits
<1>10. ResponseInv' /\ RowsInv'
  BY <1>1, <1>2 DEF ResponseInv, RowsInv, DayFits, Overcounted, MismatchMeansMoved, cacheVars, viewVars
<1> QED  BY <1>1, <1>9, <1>10

\* The task's other steps: it caches what it has read, or begins anew.
LEMMA TaskStepKeeps ==
    ASSUME CacheInv,
           StartPass \/ WriteDaily \/ SummariesRaise \/ \E s \in PcSymbols : ReadSymbol(s) \/ WriteSymbol(s)
    PROVE  CacheInv'
<1> USE CacheAssumption DEF CacheInv
<1>1. UNCHANGED <<pcTrades, viewVars>>
  BY DEF StartPass, WriteDaily, SummariesRaise, ReadSymbol, WriteSymbol
<1>2. WinCount' = WinCount /\ LossCount' = LossCount /\ SymbolCount' = SymbolCount
  BY <1>1, CountsStay
<1>3. ResponseInv' /\ (Overcounted(pcResponse) => "closed" \in pcResponse.moved)'
  BY <1>1, <1>2 DEF ResponseInv, RowsInv, DayFits, Overcounted, MismatchMeansMoved, viewVars
<1>u. pcTask # "idle" => PcUsers[pcUser] \in Users
  BY UsersListed DEF ReadInv
<1>4. CASE StartPass \/ SummariesRaise
  <2>1. UNCHANGED <<pcDaily, pcSymbol>> /\ pcRead' = Nothing /\ pcTask' \in {"today", "idle"}
        /\ (pcTask' = "today" => pcUser' = 1)
    BY <1>4 DEF StartPass, SummariesRaise, cacheVars
  <2>2. RowsInv'
    BY <1>3, <2>1 DEF RowsInv, MismatchMeansMoved, Overcounted
  <2>3. 1 \in 1 .. Len(PcUsers)
    <3>1. Len(PcUsers) \in Nat \ {0}
      BY CacheAssumption
    <3> HIDE DEF CacheInv
    <3> QED  BY ONLY <3>1, SMTT(30)
  <2>4. pcTask' \notin {"wins", "losses", "daily"} \union PcSymbols
    BY <2>1
  <2>5. ReadInv'
    BY <2>1, <2>3, <2>4, UsersListed DEF ReadInv, DayFits, SymbolFits
  <2> QED  BY <1>1, <1>3, <2>2, <2>5
<1>5. CASE WriteDaily
  <2>1. /\ pcTask = "daily" /\ pcDaily' = [pcDaily EXCEPT ![PcUsers[pcUser]] = pcRead]
        /\ pcTask' = "symbol" /\ UNCHANGED <<pcUser, pcRead, pcSymbol>>
    BY <1>5 DEF WriteDaily
  <2>2. pcRead \in Row /\ (Overcounted(pcRead) => "closed" \in pcRead.moved)
    BY <2>1 DEF ReadInv, DayFits
  <2>3. RowsInv'
    BY <1>u, <1>3, <2>1, <2>2 DEF RowsInv, MismatchMeansMoved, Overcounted
  <2>4. ReadInv'
    BY <2>1, <2>2 DEF ReadInv, DayFits, SymbolFits
  <2> QED  BY <1>1, <1>3, <2>3, <2>4
<1>6. ASSUME NEW s \in PcSymbols, ReadSymbol(s) PROVE CacheInv'
  <2> DEFINE u == PcUsers[pcUser]
  <2>1. /\ pcTask = "symbol" /\ pcTask' = s /\ UNCHANGED <<pcDaily, pcSymbol, pcUser>>
        /\ pcRead' = [Nothing EXCEPT !.user = u, !.wins = OfSymbol(u, s, {1})]
    BY <1>6 DEF ReadSymbol, cacheVars
  <2>2. u \in Users /\ s \notin {"idle", "wins", "losses", "daily"}
    BY <1>u, <2>1
  <2>3. PICK w \in Nat : w = OfSymbol(u, s, {1}) /\ w = SymbolWinCount[u][s]
    BY <2>2, CountsAreNumbers DEF SymbolWinCount
  <2>4. pcRead' \in Row /\ pcRead'.wins = w /\ pcRead'.user = u /\ pcRead'.moved = {}
    <3>1. pcRead' = [Nothing EXCEPT !.user = u, !.wins = w]
      BY <2>1, <2>3
    <3> QED  BY <2>2, <3>1, UsersListed DEF Row
  <2>5. w <= SymbolCount[u][s]
    BY <2>2, <2>3, WinsAndLossesFit
  <2>6. ReadInv'
    BY <1>2, <2>1, <2>2, <2>4, <2>5 DEF ReadInv, DayFits, SymbolFits
  <2>7. RowsInv'
    BY <1>3, <2>1 DEF RowsInv, MismatchMeansMoved, Overcounted
  <2> QED  BY <1>1, <1>3, <2>6, <2>7
<1>7. ASSUME NEW s \in PcSymbols, WriteSymbol(s) PROVE CacheInv'
  <2> DEFINE u == PcUsers[pcUser]
             row == [pcRead EXCEPT !.total = OfSymbol(u, s, AnyProfit)]
  <2>1. /\ pcTask = s /\ pcTask' = "symbol" /\ UNCHANGED <<pcDaily, pcRead, pcUser>>
        /\ pcSymbol' = [pcSymbol EXCEPT ![u][s] = row]
    BY <1>7 DEF WriteSymbol, SymbolRow
  <2>2. u \in Users /\ pcRead \in Row /\ pcRead.user = u
    BY <1>u, <2>1 DEF ReadInv
  <2>3. PICK n \in Nat : n = OfSymbol(u, s, AnyProfit) /\ n = SymbolCount[u][s]
    BY <2>2, CountsAreNumbers DEF SymbolCount
  <2>4. row \in Row /\ row.wins = pcRead.wins /\ row.total = n /\ row.moved = pcRead.moved
    <3>1. row = [pcRead EXCEPT !.total = n]
      BY <2>3
    <3> HIDE DEF row
    <3> QED  BY <2>2, <3>1 DEF Row
  <2>5. row.wins > row.total => "reopened" \in row.moved
    <3>1. "reopened" \notin pcRead.moved => pcRead.wins <= n
      BY <2>1, <2>2, <2>3 DEF ReadInv, SymbolFits
    <3>2. pcRead.wins \in Nat
      BY <2>2 DEF Row
    <3> HIDE DEF row
    <3> QED  BY <2>4, <3>1, <3>2
  <2> HIDE DEF u, row
  <2>6. /\ pcSymbol' \in [Users -> [PcSymbols -> Row]]
        /\ \A v \in Users, r \in PcSymbols : pcSymbol'[v][r] = IF v = u /\ r = s THEN row ELSE pcSymbol[v][r]
    BY <2>1, <2>2, <2>4 DEF RowsInv
  <2>7. RowsInv'
    <3>1. \A v \in Users : Overcounted(pcDaily'[v]) => "closed" \in pcDaily'[v].moved
      BY <2>1 DEF RowsInv, MismatchMeansMoved
    <3>2. \A v \in Users, r \in PcSymbols :
             pcSymbol'[v][r].wins > pcSymbol'[v][r].total => "reopened" \in pcSymbol'[v][r].moved
      BY <2>5, <2>6 DEF RowsInv, MismatchMeansMoved
    <3> QED  BY <1>3, <2>1, <2>6, <3>1, <3>2 DEF RowsInv, MismatchMeansMoved, Overcounted
  <2>8. ReadInv'
    BY <2>1, <2>2 DEF ReadInv, DayFits, SymbolFits
  <2> QED  BY <1>1, <1>3, <2>7, <2>8
<1> QED  BY <1>4, <1>5, <1>6, <1>7

\* The view's queries.
LEMMA ViewKeeps ==
    ASSUME CacheInv, (\E u \in Users : ViewExists(u)) \/ ViewTrades \/ ViewWins \/ ViewLosses
    PROVE  CacheInv'
<1> USE DEF CacheInv
<1>1. UNCHANGED <<pcTrades, taskState, cacheVars>>
  BY DEF ViewExists, ViewTrades, ViewWins, ViewLosses
<1>2. WinCount' = WinCount /\ LossCount' = LossCount /\ SymbolCount' = SymbolCount
  BY <1>1, CountsStay
<1>3. ReadInv'
  BY <1>1, <1>2 DEF ReadInv, DayFits, SymbolFits, Overcounted, taskState
<1> DEFINE u == pcResponse.user
<1>4. /\ u \in Users /\ pcResponse \in Row /\ pcResponse.total \in Nat /\ pcResponse.wins \in Nat
      /\ pcResponse.losses \in Nat
  BY DEF ResponseInv, Row
<1>5. /\ WinCount[u] = Count(u, {1}) /\ LossCount[u] = Count(u, {-1}) /\ ClosedCount[u] = Count(u, AnyProfit)
      /\ WinCount[u] \in Nat /\ LossCount[u] \in Nat /\ ClosedCount[u] \in Nat /\ WinCount[u] + LossCount[u] <= ClosedCount[u]
  BY <1>4, CountsAreNumbers, WinsAndLossesFit DEF WinCount, LossCount, ClosedCount
<1>6. PICK w, l, n \in Nat : w = WinCount[u] /\ l = LossCount[u] /\ n = ClosedCount[u]
  BY <1>5
<1>7. ResponseInv' /\ (Overcounted(pcResponse) => "closed" \in pcResponse.moved)'
  <2>1. ASSUME NEW v \in Users, ViewExists(v) PROVE ResponseInv' /\ (Overcounted(pcResponse) => "closed" \in pcResponse.moved)'
    <3>1. pcResponse' = [Nothing EXCEPT !.user = v] /\ pcView' \in {"idle", "trades"}
      BY <2>1 DEF ViewExists
    <3>2. pcResponse' \in Row /\ pcResponse'.wins = 0 /\ pcResponse'.losses = 0 /\ pcResponse'.total = 0
      BY <3>1, UsersListed DEF Row
    <3> QED  BY <3>1, <3>2 DEF ResponseInv, DayFits, Overcounted
  <2>2. CASE ViewTrades
    <3>1. pcView = "trades" /\ pcView' = "wins" /\ pcResponse' = [pcResponse EXCEPT !.total = n]
      BY <1>5, <1>6, <2>2 DEF ViewTrades
    <3>2. /\ pcResponse' \in Row /\ pcResponse'.wins = 0 /\ pcResponse'.losses = 0 /\ pcResponse'.total = n
          /\ pcResponse'.user = u
      BY <1>4, <3>1 DEF Row, ResponseInv
    <3> QED  BY <1>2, <1>5, <1>6, <3>1, <3>2 DEF ResponseInv, DayFits, Overcounted
  <2>3. CASE ViewWins
    <3>1. pcView = "wins" /\ pcView' = "losses" /\ pcResponse' = [pcResponse EXCEPT !.wins = w]
      BY <1>5, <1>6, <2>3 DEF ViewWins
    <3>2. /\ pcResponse' \in Row /\ pcResponse'.wins = w /\ pcResponse'.losses = 0
          /\ pcResponse'.total = pcResponse.total /\ pcResponse'.user = u /\ pcResponse'.moved = pcResponse.moved
      BY <1>4, <3>1 DEF Row, ResponseInv
    <3>3. "closed" \notin pcResponse.moved => w + l <= pcResponse.total
      BY <1>6, <3>1 DEF ResponseInv, DayFits
    <3>4. "closed" \notin pcResponse.moved => w <= pcResponse.total
      BY <1>4, <1>6, <3>3
    <3> QED  BY <1>2, <1>4, <1>6, <3>1, <3>2, <3>3, <3>4 DEF ResponseInv, DayFits, Overcounted
  <2>4. CASE ViewLosses
    <3>1. pcView = "losses" /\ pcView' = "idle"
          /\ pcResponse' = IF pcResponse.total = 0 THEN Nothing ELSE [pcResponse EXCEPT !.losses = l]
      BY <1>5, <1>6, <2>4 DEF ViewLosses
    <3>2. "closed" \notin pcResponse.moved => pcResponse.wins + l <= pcResponse.total
      BY <1>6, <3>1 DEF ResponseInv, DayFits
    <3>3. CASE pcResponse.total = 0
      BY <3>1, <3>3, UsersListed DEF ResponseInv, DayFits, Overcounted
    <3>4. CASE pcResponse.total # 0
      <4>1. /\ pcResponse' \in Row /\ pcResponse'.wins = pcResponse.wins /\ pcResponse'.losses = l
            /\ pcResponse'.total = pcResponse.total /\ pcResponse'.moved = pcResponse.moved
        BY <1>4, <3>1, <3>4 DEF Row
      <4> QED  BY <1>4, <1>6, <3>1, <3>2, <4>1 DEF ResponseInv, DayFits, Overcounted
    <3> QED  BY <3>3, <3>4
  <2> QED  BY <2>1, <2>2, <2>3, <2>4
<1>8. RowsInv'
  BY <1>1, <1>7 DEF RowsInv, MismatchMeansMoved, Overcounted, cacheVars
<1> QED  BY <1>1, <1>3, <1>7, <1>8

\* Nothing is cached and nothing read at the start.
LEMMA CacheStarts == PcInit => CacheInv
<1> SUFFICES ASSUME PcInit PROVE CacheInv
  OBVIOUS
<1>1. pcTrades \in AllTrades
  <2>1. [symbol : PcSymbols, closed : {FALSE}, profit : {0}] \subseteq [symbol : PcSymbols, closed : BOOLEAN, profit : AnyProfit]
    BY DEF AnyProfit
  <2>2. pcTrades \in [Users -> [Slots -> [symbol : PcSymbols, closed : {FALSE}, profit : {0}]]]
    BY DEF PcInit
  <2> QED  BY <2>1, <2>2, Zenon DEF AllTrades
<1>2. pcDaily \in [Users -> Row] /\ pcSymbol \in [Users -> [PcSymbols -> Row]]
  BY UsersListed DEF PcInit
<1>3. MismatchMeansMoved
  BY UsersListed DEF PcInit, MismatchMeansMoved, Overcounted
<1>4. ReadInv /\ ResponseInv
  BY UsersListed, CacheAssumption DEF PcInit, ReadInv, ResponseInv, DayFits, SymbolFits, Overcounted
<1> QED  BY <1>1, <1>2, <1>3, <1>4 DEF CacheInv, RowsInv

LEMMA CacheKeeps == CacheInv /\ [PcNext]_pcVars => CacheInv'
<1> SUFFICES ASSUME CacheInv, [PcNext]_pcVars PROVE CacheInv'
  OBVIOUS
<1>1. ASSUME UNCHANGED pcVars PROVE CacheInv'
  <2>1. UNCHANGED <<pcTrades, taskState, cacheVars, viewVars>>
    BY <1>1 DEF pcVars
  <2>2. WinCount' = WinCount /\ LossCount' = LossCount /\ SymbolCount' = SymbolCount
    BY <2>1, CountsStay
  <2>3. ReadInv' /\ ResponseInv'
    BY <2>1, <2>2 DEF CacheInv, ReadInv, ResponseInv, DayFits, SymbolFits, Overcounted, taskState, viewVars
  <2>4. RowsInv'
    BY <2>1 DEF CacheInv, RowsInv, MismatchMeansMoved, Overcounted, cacheVars, viewVars
  <2> QED  BY <2>1, <2>3, <2>4 DEF CacheInv
<1> QED  BY <1>1, MovesKeep, QueriesKeep, TaskStepKeeps, ViewKeeps DEF PcNext

\* For any users, symbols and numbers of trades, figures that contradict each other say
\* that a trade went the way it takes between their queries: a day's wins and losses exceed
\* its total only if one was closed, a symbol's wins exceed its trades only if one was
\* reopened (tasks.py:447-487, views.py:38-71, trading/services.py:408).
THEOREM MismatchesAreMoves == PcSpec => []MismatchMeansMoved
<1>1. CacheInv => MismatchMeansMoved
  BY DEF CacheInv, RowsInv
<1> QED  BY <1>1, CacheStarts, CacheKeeps, PTL DEF PcSpec

\* Where the task is.
PlaceInv ==
    /\ pcTask \in {"idle", "today", "wins", "losses", "daily", "symbol"} \union PcSymbols
    /\ pcUser \in 0 .. Len(PcUsers) /\ pcTodo \subseteq PcSymbols

LEMMA PlacesKeep ==
    ASSUME PlaceInv, [PcNext]_pcVars
    PROVE  PlaceInv'
<1> USE CacheAssumption DEF PlaceInv
<1>1. CASE (\E u \in Users, i \in Slots : ReopenTrade(u, i) \/ \E p \in Profits : CloseTrade(u, i, p)) \/ UNCHANGED pcVars
  <2>1. UNCHANGED <<pcTask, pcUser, pcTodo>>
    BY <1>1 DEF ReopenTrade, CloseTrade, Moved, pcVars, taskState
  <2> QED  BY <2>1
<1>2. CASE StartPass \/ SummariesRaise
  <2>1. pcUser' \in {0, 1} /\ pcTask' \in {"today", "idle"} /\ pcTodo' \subseteq PcSymbols
    BY <1>2 DEF StartPass, SummariesRaise
  <2> QED  BY <2>1
<1>3. CASE ReadToday \/ ReadWins \/ ReadLosses \/ WriteDaily
  <2>1. pcTask' \in {"wins", "losses", "daily", "symbol"} /\ pcTodo' \subseteq PcSymbols /\ UNCHANGED pcUser
    BY <1>3 DEF ReadToday, ReadWins, ReadLosses, WriteDaily
  <2> QED  BY <2>1
<1>4. ASSUME NEW s \in PcSymbols, ReadSymbol(s) \/ WriteSymbol(s) PROVE PlaceInv'
  <2>1. pcTask' \in {"symbol", s} /\ pcTodo' \subseteq PcSymbols /\ UNCHANGED pcUser
    BY <1>4 DEF ReadSymbol, WriteSymbol
  <2> QED  BY <2>1
<1>5. CASE (\E u \in Users : ViewExists(u)) \/ ViewTrades \/ ViewWins \/ ViewLosses
  <2>1. UNCHANGED <<pcTask, pcUser, pcTodo>>
    BY <1>5 DEF ViewExists, ViewTrades, ViewWins, ViewLosses, taskState
  <2> QED  BY <2>1
<1> QED  BY <1>1, <1>2, <1>3, <1>4, <1>5 DEF PcNext

\* For any users and symbols, the task is at one of its queries for a user on the list, and
\* has only symbols left (tasks.py:430-500, analytics/views.py).
THEOREM CacheTypes == PcSpec => []PcTypeOK
<1>1. PcInit => PlaceInv
  BY CacheAssumption DEF PcInit, PlaceInv
<1>2. CacheInv /\ PlaceInv => PcTypeOK
  <2>1. ASSUME CacheInv, NEW u \in Users, NEW i \in Slots PROVE pcTrades[u][i].profit \in AnyProfit
    BY <2>1 DEF CacheInv, AllTrades
  <2> QED  BY <2>1 DEF CacheInv, ResponseInv, PlaceInv, PcTypeOK
<1> QED  BY <1>1, <1>2, PlacesKeep, CacheStarts, CacheKeeps, PTL DEF PcSpec

-----------------------------------------------------------------------------
(* The request guard (waf.py:220-290).                                     *)

\* What the address's bucket has paid out since an admitted request, with what is left in
\* it, is at most a full bucket and what has run in since.
Paid(from, upto) == RateWindow * (upto - from + 1)
RanIn(from, upto) == BucketCapacity["ip"] * (upto - from)
Full == BucketCapacity["ip"] * RateWindow

BucketInv ==
    /\ rgClock \in Nat
    /\ rgPlace \in [GuardThreads -> {<<>>, <<"ip">>, <<"ep", "ip">>}]
    /\ rgTokens \in [Buckets -> Nat] /\ rgFilled \in [Buckets -> Nat]
    /\ rgTokens["ip"] <= Full /\ \A b \in Buckets : rgFilled[b] <= rgClock
    /\ rgAdmitted \in Seq(Nat)
    /\ \A i \in DOMAIN rgAdmitted :
         /\ rgAdmitted[i] <= rgFilled["ip"]
         /\ Paid(i, Len(rgAdmitted)) + rgTokens["ip"] <= Full + RanIn(rgAdmitted[i], rgFilled["ip"])
         /\ \A j \in i .. Len(rgAdmitted) :
              rgAdmitted[i] <= rgAdmitted[j] /\ Paid(i, j) <= Full + RanIn(rgAdmitted[i], rgAdmitted[j])

LEMMA LesserOfTwo ==
    ASSUME NEW a \in Int, NEW b \in Int
    PROVE  Min({a, b}) \in {a, b} /\ Min({a, b}) <= a /\ Min({a, b}) <= b
<1>1. \E x \in {a, b} : \A y \in {a, b} : x <= y
  OBVIOUS
<1>2. Min({a, b}) = CHOOSE x \in {a, b} : \A y \in {a, b} : x <= y
  BY DEF Min
<1> QED  BY <1>1, <1>2
\* What runs in over two stretches of time is what runs in over both.
LEMMA RunsInOn ==
    ASSUME NEW C \in Nat, NEW a \in Int, NEW f \in Int, NEW t \in Int
    PROVE  C * (f - a) + C * (t - f) = C * (t - a)
  OBVIOUS

LEMMA PaidOnce ==
    ASSUME NEW W \in Nat, NEW i \in Int, NEW n \in Int
    PROVE  W * ((n + 1) - i + 1) = W * (n - i + 1) + W /\ W * (i - i + 1) = W
  OBVIOUS

\* Within a window less than a bucket runs in: two buckets are the most that is paid.
LEMMA TwoBuckets ==
    ASSUME NEW W \in Nat \ {0}, NEW C \in Nat, NEW k \in Int, NEW d \in Int,
           d < W, W * k <= C * W + C * d
    PROVE  k <= 2 * C
<1>1. C * d <= C * W
  OBVIOUS
<1>2. W * k <= W * (2 * C)
  BY <1>1
<1> QED  BY <1>2

LEMMA GuardNumbers ==
    /\ RateWindow \in Nat \ {0} /\ BlockDuration \in Nat \ {0}
    /\ BucketCapacity \in [{"ep", "ip"} -> Nat]
BY GuardAssumption

\* One bucket is filled, and a token taken if there is one.
LEMMA BucketSpent ==
    ASSUME BucketInv, NEW t \in GuardThreads, Consume(t)
    PROVE  \E b \in Buckets, spent \in Nat :
             /\ rgTokens' = [rgTokens EXCEPT ![b] = spent]
             /\ rgFilled' = [rgFilled EXCEPT ![b] = rgClock]
             /\ rgClock' = rgClock
             /\ rgPlace' \in [GuardThreads -> {<<>>, <<"ip">>, <<"ep", "ip">>}]
             /\ \E full \in Nat :
                  /\ full <= BucketCapacity[b] * RateWindow
                  /\ full <= rgTokens[b] + (rgClock - rgFilled[b]) * BucketCapacity[b]
                  /\ \/ spent = full /\ rgAdmitted' = rgAdmitted
                     \/ spent = full - RateWindow /\ rgAdmitted' = rgAdmitted /\ b # "ip"
                     \/ spent = full - RateWindow /\ rgAdmitted' = Append(rgAdmitted, rgClock) /\ b = "ip"
<1> USE GuardNumbers DEF Buckets
<1> DEFINE b == Head(rgPlace[t])
<1>1. rgPlace[t] \in {<<"ip">>, <<"ep", "ip">>} /\ b \in Buckets
  BY DEF BucketInv, Consume
<1>2. PICK full : full = Refilled(b)
  OBVIOUS
<1>3. PICK c, k, f \in Nat : c = BucketCapacity[b] /\ k = rgTokens[b] /\ f = rgFilled[b]
  BY <1>1 DEF BucketInv
<1>4. rgClock \in Nat /\ f <= rgClock /\ RateWindow \in Nat
  BY <1>1, <1>3 DEF BucketInv
<1>5. PICK most, grown \in Nat : most = c * RateWindow /\ grown = k + (rgClock - f) * c
  <2>1. c * RateWindow \in Nat
    BY <1>4
  <2>2. (rgClock - f) * c \in Nat
    BY <1>4
  <2>3. k + (rgClock - f) * c \in Nat
    BY <2>2
  <2> QED  BY <2>1, <2>3, Zenon
<1>6. full = Min({most, grown})
  BY <1>2, <1>3, <1>5, Zenon DEF Refilled
<1>7. full \in Nat /\ full <= most /\ full <= grown
  <2>1. most \in Int /\ grown \in Int
    OBVIOUS
  <2>2. full \in {most, grown} /\ full <= most /\ full <= grown
    BY <1>6, <2>1, LesserOfTwo, Zenon
  <2> QED  BY <2>2, Zenon
<1>8. full <= BucketCapacity[b] * RateWindow /\ full <= rgTokens[b] + (rgClock - rgFilled[b]) * BucketCapacity[b]
  BY <1>3, <1>5, <1>7, Zenon
<1>9. /\ rgTokens' = [rgTokens EXCEPT ![b] = IF full >= RateWindow THEN full - RateWindow ELSE full]
      /\ rgFilled' = [rgFilled EXCEPT ![b] = rgClock]
      /\ rgPlace' = [rgPlace EXCEPT ![t] = IF full >= RateWindow THEN Tail(rgPlace[t]) ELSE <<>>]
      /\ rgAdmitted' = IF full >= RateWindow /\ Tail(rgPlace[t]) = <<>> THEN Append(rgAdmitted, rgClock)
                       ELSE rgAdmitted
      /\ rgClock' = rgClock
  BY <1>2, Zenon DEF Consume, Filled
<1>10. /\ Tail(rgPlace[t]) \in {<<>>, <<"ip">>}
       /\ Tail(rgPlace[t]) = <<>> <=> b = "ip"
  <2>1. CASE rgPlace[t] = <<"ip">>
    BY <2>1
  <2>2. CASE rgPlace[t] = <<"ep", "ip">>
    BY <2>2
  <2> QED  BY <1>1, <2>1, <2>2
<1>11. rgPlace' \in [GuardThreads -> {<<>>, <<"ip">>, <<"ep", "ip">>}]
  BY <1>9, <1>10 DEF BucketInv
<1>12. CASE full >= RateWindow
  <2>1. PICK spent \in Nat : spent = full - RateWindow
    BY <1>4, <1>7, <1>12
  <2> QED  BY <1>1, <1>7, <1>8, <1>9, <1>10, <1>11, <1>12, <2>1, Zenon
<1>13. CASE ~(full >= RateWindow)
  BY <1>1, <1>7, <1>8, <1>9, <1>11, <1>13, Zenon
<1> QED  BY <1>12, <1>13

\* A bucket that is filled later, and not filled over, still covers what was paid.
LEMMA StillCovered ==
    ASSUME NEW W \in Nat, NEW C \in Nat, NEW p \in Int, NEW a \in Int, NEW f \in Int, NEW t \in Int,
           NEW k \in Int, NEW full \in Int,
           p + k <= C * W + C * (f - a), full <= k + (t - f) * C
    PROVE  p + full <= C * W + C * (t - a)
<1>1. C * (f - a) + C * (t - f) = C * (t - a)
  BY RunsInOn
<1>2. (t - f) * C = C * (t - f)
  OBVIOUS
<1> QED  BY <1>1, <1>2

LEMMA ConsumeKeeps ==
    ASSUME BucketInv, NEW t \in GuardThreads, Consume(t)
    PROVE  BucketInv'
<1> USE GuardNumbers DEF Buckets
<1> DEFINE n == Len(rgAdmitted)
           C == BucketCapacity["ip"]
           W == RateWindow
           k == rgTokens["ip"]
           f == rgFilled["ip"]
<1>1. PICK b \in Buckets, spent \in Nat :
         /\ rgTokens' = [rgTokens EXCEPT ![b] = spent]
         /\ rgFilled' = [rgFilled EXCEPT ![b] = rgClock]
         /\ rgClock' = rgClock
         /\ rgPlace' \in [GuardThreads -> {<<>>, <<"ip">>, <<"ep", "ip">>}]
         /\ \E full \in Nat :
              /\ full <= BucketCapacity[b] * RateWindow
              /\ full <= rgTokens[b] + (rgClock - rgFilled[b]) * BucketCapacity[b]
              /\ \/ spent = full /\ rgAdmitted' = rgAdmitted
                 \/ spent = full - RateWindow /\ rgAdmitted' = rgAdmitted /\ b # "ip"
                 \/ spent = full - RateWindow /\ rgAdmitted' = Append(rgAdmitted, rgClock) /\ b = "ip"
  BY BucketSpent
<1>2. /\ rgClock \in Nat /\ n \in Nat /\ C \in Nat /\ W \in Nat \ {0} /\ k \in Nat /\ f \in Nat /\ f <= rgClock
      /\ rgAdmitted \in Seq(Nat) /\ rgTokens \in [Buckets -> Nat] /\ rgFilled \in [Buckets -> Nat]
      /\ k <= C * W /\ \A c \in Buckets : rgFilled[c] <= rgClock
  BY DEF BucketInv, Full
<1>3. \A i \in 1 .. n :
         /\ rgAdmitted[i] \in Nat /\ rgAdmitted[i] <= f
         /\ W * (n - i + 1) + k <= C * W + C * (f - rgAdmitted[i])
         /\ \A j \in i .. n : rgAdmitted[i] <= rgAdmitted[j]
                              /\ W * (j - i + 1) <= C * W + C * (rgAdmitted[j] - rgAdmitted[i])
  <2>1. DOMAIN rgAdmitted = 1 .. n /\ \A i \in 1 .. n : rgAdmitted[i] \in Nat
    BY <1>2, SMTT(30)
  <2> QED  BY <2>1, Zenon DEF BucketInv, Paid, RanIn, Full
<1>4. /\ rgTokens' \in [Buckets -> Nat] /\ rgFilled' \in [Buckets -> Nat]
      /\ \A c \in Buckets : rgFilled'[c] <= rgClock
  BY <1>1, <1>2, SMTT(30)
<1>5. CASE b # "ip"
  <2>1. rgAdmitted' = rgAdmitted /\ rgTokens'["ip"] = k /\ rgFilled'["ip"] = f
    BY <1>1, <1>2, <1>5
  <2> QED  BY <1>1, <1>2, <1>4, <2>1 DEF BucketInv, Paid, RanIn, Full
<1>6. CASE b = "ip"
  <2>1. PICK full \in Nat :
          /\ full <= C * W /\ full <= k + (rgClock - f) * C
          /\ \/ spent = full /\ rgAdmitted' = rgAdmitted
             \/ spent = full - W /\ rgAdmitted' = Append(rgAdmitted, rgClock)
    BY <1>1, <1>6
  <2>2. rgTokens'["ip"] = spent /\ rgFilled'["ip"] = rgClock
    BY <1>1, <1>2, <1>6
  <2>3. \A i \in 1 .. n : W * (n - i + 1) + full <= C * W + C * (rgClock - rgAdmitted[i])
    <3>1. SUFFICES ASSUME NEW i \in 1 .. n
                   PROVE  W * (n - i + 1) + full <= C * W + C * (rgClock - rgAdmitted[i])
      OBVIOUS
    <3>2. PICK p \in Int : p = W * (n - i + 1)
      BY <1>2
    <3>3. PICK a \in Int : a = rgAdmitted[i]
      BY <1>3
    <3>4. p + k <= C * W + C * (f - a)
      BY <1>3, <3>2, <3>3, Zenon
    <3>5. W \in Nat /\ C \in Nat /\ f \in Int /\ rgClock \in Int /\ k \in Int /\ full \in Int
      BY <1>2
    <3>6. p + full <= C * W + C * (rgClock - a)
      BY <2>1, <3>4, <3>5, StillCovered
    <3> QED  BY <3>2, <3>3, <3>6, Zenon
  <2>4. CASE spent = full /\ rgAdmitted' = rgAdmitted
    <3>1. \A i \in 1 .. n : rgAdmitted[i] <= rgClock
      BY <1>2, <1>3, SMTT(30)
    <3>2. DOMAIN rgAdmitted = 1 .. n
      BY <1>2
    <3>3. \A i \in DOMAIN rgAdmitted' :
            /\ rgAdmitted'[i] <= rgFilled'["ip"]
            /\ Paid(i, Len(rgAdmitted')) + rgTokens'["ip"] <= Full + RanIn(rgAdmitted'[i], rgFilled'["ip"])
            /\ \A j \in i .. Len(rgAdmitted') :
                 rgAdmitted'[i] <= rgAdmitted'[j] /\ Paid(i, j) <= Full + RanIn(rgAdmitted'[i], rgAdmitted'[j])
      BY <1>3, <2>2, <2>3, <2>4, <3>1, <3>2, Zenon DEF Paid, RanIn, Full
    <3> QED  BY <1>1, <1>2, <1>4, <2>1, <2>2, <2>4, <3>3 DEF BucketInv, Full
  <2>5. CASE spent = full - W /\ rgAdmitted' = Append(rgAdmitted, rgClock)
    <3>1. /\ Len(rgAdmitted') = n + 1 /\ DOMAIN rgAdmitted' = 1 .. n + 1 /\ rgAdmitted' \in Seq(Nat)
          /\ \A i \in 1 .. n : rgAdmitted'[i] = rgAdmitted[i]
          /\ rgAdmitted'[n + 1] = rgClock
      BY <1>2, <2>5
    <3>2. ASSUME NEW i \in 1 .. n + 1
          PROVE  /\ rgAdmitted'[i] <= rgClock
                 /\ W * ((n + 1) - i + 1) + spent <= C * W + C * (rgClock - rgAdmitted'[i])
      <4>1. CASE i = n + 1
        <5>1. W * ((n + 1) - i + 1) = W /\ C * (rgClock - rgAdmitted'[i]) = 0
          BY <1>2, <3>1, <4>1
        <5> QED  BY <1>2, <2>1, <2>5, <3>1, <4>1, <5>1
      <4>2. CASE i \in 1 .. n
        <5>1. PICK p \in Int : p = W * (n - i + 1)
          BY <1>2, <4>2
        <5>2. W * ((n + 1) - i + 1) = p + W
          BY <1>2, <4>2, <5>1, PaidOnce
        <5>3. p + full <= C * W + C * (rgClock - rgAdmitted[i])
          BY <2>3, <4>2, <5>1, Zenon
        <5>4. p + W + spent = p + full
          BY <1>2, <2>5, <5>1
        <5>5. rgAdmitted'[i] = rgAdmitted[i] /\ rgAdmitted[i] <= rgClock
          <6>1. \A m \in 1 .. n : rgAdmitted[m] <= rgClock
            BY <1>2, <1>3, SMTT(30)
          <6> QED  BY <3>1, <4>2, <6>1, Zenon
        <5> QED  BY <5>2, <5>3, <5>4, <5>5, Zenon
      <4> QED  BY <1>2, <4>1, <4>2
    <3>3. ASSUME NEW i \in 1 .. n + 1, NEW j \in i .. n + 1
          PROVE  rgAdmitted'[i] <= rgAdmitted'[j]
                 /\ W * (j - i + 1) <= C * W + C * (rgAdmitted'[j] - rgAdmitted'[i])
      <4>1. CASE j = n + 1
        <5>1. PICK p \in Int : p = W * ((n + 1) - i + 1)
          BY <1>2
        <5>2. PICK q \in Int : q = C * W + C * (rgClock - rgAdmitted'[i])
          BY <1>2, <3>1, SMTT(30)
        <5>3. p + spent <= q
          BY <3>2, <5>1, <5>2, Zenon
        <5>4. p <= q
          BY <5>3
        <5>5. rgAdmitted'[j] = rgClock /\ W * (j - i + 1) = p
          <6>1. (n + 1) - i + 1 = j - i + 1
            BY <4>1, Zenon
          <6>2. W * (j - i + 1) = p
            BY <5>1, <6>1, Zenon
          <6> QED  BY <3>1, <4>1, <6>2, Zenon
        <5>6. rgAdmitted'[i] <= rgClock
          BY <3>2, Zenon
        <5> QED  BY <5>2, <5>4, <5>5, <5>6, Zenon
      <4>2. CASE j # n + 1
        <5>1. i \in 1 .. n /\ j \in i .. n /\ j \in 1 .. n
          <6>1. n \in Nat
            BY <1>2
          <6> HIDE DEF n
          <6> QED  BY <4>2, <6>1
        <5> QED  BY <1>3, <3>1, <5>1, Zenon
      <4> QED  BY <4>1, <4>2
    <3>4. \A i \in DOMAIN rgAdmitted' :
            /\ rgAdmitted'[i] <= rgFilled'["ip"]
            /\ Paid(i, Len(rgAdmitted')) + rgTokens'["ip"] <= Full + RanIn(rgAdmitted'[i], rgFilled'["ip"])
            /\ \A j \in i .. Len(rgAdmitted') :
                 rgAdmitted'[i] <= rgAdmitted'[j] /\ Paid(i, j) <= Full + RanIn(rgAdmitted'[i], rgAdmitted'[j])
      <4>1. \A i \in 1 .. n + 1 :
              /\ rgAdmitted'[i] <= rgClock
              /\ Paid(i, n + 1) + spent <= Full + RanIn(rgAdmitted'[i], rgClock)
              /\ \A j \in i .. n + 1 :
                   rgAdmitted'[i] <= rgAdmitted'[j] /\ Paid(i, j) <= Full + RanIn(rgAdmitted'[i], rgAdmitted'[j])
        <5>1. ASSUME NEW i \in 1 .. n + 1, NEW j \in i .. n + 1
              PROVE  rgAdmitted'[i] <= rgAdmitted'[j] /\ Paid(i, j) <= Full + RanIn(rgAdmitted'[i], rgAdmitted'[j])
          BY <3>3, Zenon DEF Paid, RanIn, Full
        <5>2. ASSUME NEW i \in 1 .. n + 1
              PROVE  rgAdmitted'[i] <= rgClock
                     /\ Paid(i, n + 1) + spent <= Full + RanIn(rgAdmitted'[i], rgClock)
          BY <3>2, Zenon DEF Paid, RanIn, Full
        <5> QED  BY <5>1, <5>2, Zenon
      <4>2. rgFilled'["ip"] = rgClock /\ rgTokens'["ip"] = spent /\ Len(rgAdmitted') = n + 1
            /\ DOMAIN rgAdmitted' = 1 .. n + 1
        BY <2>2, <3>1, Zenon
      <4> HIDE DEF n
      <4> QED  BY <4>1, <4>2, Zenon
    <3>5. spent <= C * W
      BY <1>2, <2>1, <2>5
    <3> QED  BY <1>1, <1>2, <1>4, <2>2, <3>1, <3>4, <3>5 DEF BucketInv, Full
  <2> QED  BY <2>1, <2>4, <2>5
<1> QED  BY <1>5, <1>6

LEMMA BucketsStart == GuardInit => BucketInv
<1> SUFFICES ASSUME GuardInit PROVE BucketInv
  OBVIOUS
<1>1. BucketCapacity["ep"] * RateWindow \in Nat /\ BucketCapacity["ip"] * RateWindow \in Nat
  BY GuardAssumption
<1> QED  BY <1>1 DEF GuardInit, BucketInv, Buckets, Full

LEMMA BucketsKeep == BucketInv /\ [GateNext \/ TrustNext]_guardVars => BucketInv'
<1> SUFFICES ASSUME BucketInv, [GateNext \/ TrustNext]_guardVars PROVE BucketInv'
  OBVIOUS
<1>1. ASSUME NEW t \in GuardThreads, Consume(t) PROVE BucketInv'
  BY <1>1, ConsumeKeeps
<1>2. ASSUME NEW t \in GuardThreads, NEW endpoint \in BOOLEAN, Arrive(t, endpoint) PROVE BucketInv'
  <2>1. UNCHANGED <<rgClock, rgTokens, rgFilled, rgAdmitted>>
        /\ rgPlace' \in [GuardThreads -> {<<>>, <<"ip">>, <<"ep", "ip">>}]
    BY <1>2 DEF Arrive, BucketInv
  <2> QED  BY <2>1 DEF BucketInv, Paid, RanIn, Full
<1>3. CASE GuardTick
  <2>1. UNCHANGED <<rgPlace, rgTokens, rgFilled, rgAdmitted>> /\ rgClock' = rgClock + 1
    BY <1>3 DEF GuardTick, gateVars
  <2>2. rgClock' \in Nat /\ \A b \in Buckets : rgFilled[b] <= rgClock'
    BY <2>1 DEF BucketInv
  <2> QED  BY <2>1, <2>2 DEF BucketInv, Paid, RanIn, Full
<1>4. CASE Unblock \/ UNCHANGED guardVars
  <2>1. UNCHANGED <<rgClock, rgPlace, rgTokens, rgFilled, rgAdmitted>>
    BY <1>4 DEF Unblock, guardVars, gateVars
  <2> QED  BY <2>1 DEF BucketInv, Paid, RanIn, Full
<1>5. CASE TrustNext /\ ~GuardTick
  <2>1. UNCHANGED <<rgClock, rgPlace, rgTokens, rgFilled, rgAdmitted>>
    BY <1>5 DEF TrustNext, VerifyBegin, VerifyDevice, VerifyEnd, ForgetHistory, gateVars
  <2> QED  BY <2>1 DEF BucketInv, Paid, RanIn, Full
<1> QED  BY <1>1, <1>2, <1>3, <1>4, <1>5 DEF GateNext, TrustNext

\* However requests of an address interleave, and for any capacity and window, no more than
\* a full bucket and one refill pass within one rate window (security/waf.py:234-290).
THEOREM BurstsAreBounded == GuardSpec => []RateHeld
<1>1. BucketInv => RateHeld
  <2> SUFFICES ASSUME BucketInv, NEW i \in DOMAIN rgAdmitted, NEW j \in DOMAIN rgAdmitted,
                      i <= j, rgAdmitted[j] - rgAdmitted[i] < RateWindow
               PROVE  j - i + 1 <= 2 * BucketCapacity["ip"]
    BY DEF RateHeld
  <2>1. i \in Int /\ j \in i .. Len(rgAdmitted) /\ rgAdmitted[i] \in Int /\ rgAdmitted[j] \in Int
    BY DEF BucketInv
  <2>2. PICK C \in Nat, d \in Int : C = BucketCapacity["ip"] /\ d = rgAdmitted[j] - rgAdmitted[i]
    BY <2>1, GuardAssumption
  <2>3. RateWindow * (j - i + 1) <= C * RateWindow + C * d
    BY <2>1, <2>2, Zenon DEF BucketInv, Paid, RanIn, Full
  <2>4. j - i + 1 \in Int /\ RateWindow \in Nat \ {0} /\ d < RateWindow
    BY <2>1, <2>2, GuardAssumption
  <2>5. j - i + 1 <= 2 * C
    BY <2>3, <2>4, TwoBuckets
  <2> QED  BY <2>2, <2>5, Zenon
<1> QED  BY <1>1, BucketsStart, BucketsKeep, PTL DEF GuardSpec

-----------------------------------------------------------------------------
(* The logs of the detectors (intrusion_detection.py:195-390, 533-626).    *)

\* The entries of a log are among those that were recorded.
LogInv ==
    /\ idClock \in Int
    /\ \A k \in Logs : /\ idRecorded[k] \in 0 .. MaxEntries
                       /\ \A e \in idLog[k] : e.nr \in 1 .. idRecorded[k]

\* The log after a record: the old one with an entry more, or less of it.
RecordedAs(k, log) == (\E what : log = Write(k, what)) \/ log \subseteq idLog[k]

LEMMA LoggedKeeps ==
    ASSUME LogInv, NEW new, Logged(new), UNCHANGED idClock,
           \A k \in DOMAIN new \intersect Logs : RecordedAs(k, new[k])
    PROVE  LogInv'
<1>1. ASSUME NEW k \in Logs, k \in DOMAIN new
      PROVE  idRecorded'[k] \in 0 .. MaxEntries /\ \A e \in idLog'[k] : e.nr \in 1 .. idRecorded'[k]
  <2>1. /\ idLog'[k] = new[k] /\ idRecorded'[k] = idRecorded[k] + 1 /\ idRecorded[k] < MaxEntries
        /\ idRecorded[k] \in 0 .. MaxEntries /\ \A e \in idLog[k] : e.nr \in 1 .. idRecorded[k]
    BY <1>1 DEF Logged, LogInv
  <2>2. PICK n \in Nat : n = idRecorded[k] /\ n < MaxEntries
    BY <2>1, MonitorAssumption
  <2>3. ASSUME NEW e \in new[k] PROVE e.nr \in 1 .. n + 1
    <3>1. CASE e \in idLog[k]
      <4>1. e.nr \in 1 .. n
        BY <2>1, <2>2, <3>1
      <4> QED  BY <4>1
    <3>2. CASE e \notin idLog[k]
      <4>1. PICK what : e = [nr |-> n + 1, at |-> idClock, what |-> what]
        BY <1>1, <2>2, <3>2 DEF RecordedAs, Write
      <4> QED  BY <4>1
    <3> QED  BY <3>1, <3>2
  <2> QED  BY <2>1, <2>2, <2>3, MonitorAssumption
<1>2. ASSUME NEW k \in Logs, k \notin DOMAIN new PROVE idLog'[k] = idLog[k] /\ idRecorded'[k] = idRecorded[k]
  BY <1>2 DEF Logged
<1> QED  BY <1>1, <1>2 DEF LogInv

LEMMA LogsStart == MonitorInit => LogInv
BY MonitorAssumption DEF MonitorInit, LogInv

LEMMA LogsKeep ==
    LogInv /\ [RequestsNext \/ LoginsNext \/ TradesNext \/ SiemNext \/ RaspNext]_monitorVars => LogInv'
<1> SUFFICES ASSUME LogInv, [RequestsNext \/ LoginsNext \/ TradesNext \/ SiemNext \/ RaspNext]_monitorVars PROVE LogInv'
  OBVIOUS
<1> USE DEF idsVars
<1>1. ASSUME NEW target \in Targets, NEW matched, AnalyzeRequest(target, matched) PROVE LogInv'
  <2> DEFINE new == [rate |-> WriteRate, endpoints |-> Write("endpoints", target), params |-> Write("params", target)]
  <2>1. Logged(new) /\ UNCHANGED idClock
    BY <1>1 DEF AnalyzeRequest
  <2>2. \A k \in DOMAIN new \intersect Logs : RecordedAs(k, new[k])
    BY DEF RecordedAs, WriteRate, Recent
  <2> QED  BY <2>1, <2>2, LoggedKeeps
<1>2. ASSUME NEW u \in LoginUsers, NEW watched \in BOOLEAN, NEW success, NEW unusual,
             AnalyzeLogin(u, watched, success, unusual)
      PROVE LogInv'
  <2> DEFINE both == [logins |-> Write("logins", success), ip |-> Write("ip", u)]
             one == [ip |-> Write("ip", u)]
  <2>1. (Logged(both) \/ Logged(one)) /\ UNCHANGED idClock
    BY <1>2 DEF AnalyzeLogin
  <2>2. /\ \A k \in DOMAIN both \intersect Logs : RecordedAs(k, both[k])
        /\ \A k \in DOMAIN one \intersect Logs : RecordedAs(k, one[k])
    BY DEF RecordedAs
  <2> QED  BY <2>1, <2>2, LoggedKeeps
<1>3. ASSUME NEW volume \in Volumes, NEW closed, NEW crowded, AnalyzeTrade(volume, closed, crowded)
      PROVE LogInv'
  <2> DEFINE new == [trades |-> Write("trades", volume)]
  <2>1. Logged(new) /\ UNCHANGED idClock
    BY <1>3 DEF AnalyzeTrade
  <2>2. \A k \in DOMAIN new \intersect Logs : RecordedAs(k, new[k])
    BY DEF RecordedAs
  <2> QED  BY <2>1, <2>2, LoggedKeeps
<1>4. CASE Cleanup
  <2>1. UNCHANGED <<idClock, idRecorded>> /\ \A k \in Logs : idLog'[k] \subseteq idLog[k]
    BY <1>4 DEF Cleanup, Kept, Recent
  <2> QED  BY <2>1 DEF LogInv
<1>5. CASE MonitorTick \/ EventTick
  <2>1. UNCHANGED <<idLog, idRecorded>> /\ idClock' = idClock + 1
    BY <1>5 DEF MonitorTick, EventTick
  <2> QED  BY <2>1 DEF LogInv
<1>6. CASE \/ BlockedRequest \/ RaspNext \/ UNCHANGED monitorVars
           \/ \E w \in EventWorkers : BeginSave(w) \/ \E type \in {"login_failure", "waf_block"} : FinishSave(w, type)
  <2>1. UNCHANGED <<idClock, idLog, idRecorded>>
    BY <1>6 DEF BlockedRequest, RaspNext, monitorVars, BeginSave, FinishSave, RemoveFile, WriteFile, StoreBaseline,
                VerifyIntegrity, RestartRasp
  <2> QED  BY <2>1 DEF LogInv
<1> QED
  BY <1>1, <1>2, <1>3, <1>4, <1>5, <1>6 DEF RequestsNext, LoginsNext, TradesNext, SiemNext

-----------------------------------------------------------------------------
(* The replay engines (config/tasks.py:540-790, 1000-1180).                *)

AnyTrade == [from : Int, to : Int, dir : {1, -1}, pnl : Int]
AnyPosition == [dir : {1, -1}, entry : Int, sl : Int, tp : Int, lots : Int, bar : Int]

\* The trades so far, in order and before the open position, and the balance they leave.
TradesInv ==
    /\ btTrades \in Seq(AnyTrade)
    /\ btBalance \in Int /\ btBalance = InitialBalance + Realised(btTrades)
    /\ \A i \in DOMAIN btTrades :
         /\ btTrades[i].to <= btBar
         /\ btPosition # <<>> => btTrades[i].to <= btPosition[1].bar
         /\ \A j \in DOMAIN btTrades : i < j => btTrades[i].to <= btTrades[j].from

\* The curve so far, its highest point and its deepest fall, and that it ends at the equity.
CurveInv ==
    /\ btCurve \in Seq(Int) /\ btCurve # <<>>
    /\ btCurve[Len(btCurve)] = Equity(btBalance, btPosition, btClose)
    /\ btPeak \in Int /\ btDrawdown \in Int
    /\ \E i \in DOMAIN btCurve : btCurve[i] = btPeak
    /\ \A i \in DOMAIN btCurve : btCurve[i] <= btPeak
    /\ \A i, j \in DOMAIN btCurve :
         IsHighUpTo(btCurve, i, j) => DrawdownPercent(btCurve[i], btCurve[j]) <= btDrawdown

ReplayInv ==
    /\ btBar \in Int /\ btClose \in Int
    /\ btPosition \in {<<>>} \union {<<p>> : p \in AnyPosition}
    /\ btPc # "replay" => btPosition = <<>>
    /\ TradesInv
    /\ CurveInv

LEMMA GreaterOfTwo ==
    ASSUME NEW a \in Int, NEW b \in Int
    PROVE  Max({a, b}) \in {a, b} /\ a <= Max({a, b}) /\ b <= Max({a, b})
<1>1. \E x \in {a, b} : \A y \in {a, b} : x >= y
  OBVIOUS
<1>2. Max({a, b}) = CHOOSE x \in {a, b} : \A y \in {a, b} : x >= y
  BY DEF Max
<1> QED  BY <1>1, <1>2

LEMMA PercentIsWhole ==
    ASSUME NEW p \in Int, NEW e \in Int
    PROVE  DrawdownPercent(p, e) \in Int /\ DrawdownPercent(p, p) <= 0
<1>1. CASE p > 0
  <2>1. PICK n \in Int : n = (p - e) * 100
    OBVIOUS
  <2>2. n \div p \in Int /\ 0 \div p = 0
    BY <1>1
  <2>3. (p - p) * 100 = 0
    OBVIOUS
  <2> QED  BY <1>1, <2>1, <2>2, <2>3 DEF DrawdownPercent
<1>2. CASE ~(p > 0)
  BY <1>2 DEF DrawdownPercent
<1> QED  BY <1>1, <1>2

LEMMA TradesAreDated == ASSUME NEW t \in Seq(AnyTrade), NEW i \in DOMAIN t PROVE t[i].to \in Int
<1>1. t[i] \in AnyTrade
  OBVIOUS
<1> QED  BY <1>1 DEF AnyTrade

\* What the trades made is a whole number, and a trade more adds what it made.
LEMMA RealisedSoFar ==
    ASSUME NEW t \in Seq(AnyTrade)
    PROVE  /\ Realised(t) \in Int
           /\ \A x \in AnyTrade : Realised(Append(t, x)) = Realised(t) + x.pnl
<1> DEFINE pnl(s) == [i \in DOMAIN s |-> s[i].pnl]
<1>1. \A s : Realised(s) = SumOver(pnl(s), DOMAIN s)
  BY DEF Realised, SumOver
<1>2. PICK n \in Nat : n = Len(t) /\ DOMAIN t = 1 .. n
  OBVIOUS
<1>3. IsFiniteSet(DOMAIN t)
  BY <1>2, FS_Interval
<1>4. ASSUME NEW s \in Seq(AnyTrade), NEW i \in DOMAIN s PROVE pnl(s)[i] = s[i].pnl /\ pnl(s)[i] \in Int
  <2>1. s[i] \in AnyTrade
    OBVIOUS
  <2> QED  BY <2>1 DEF AnyTrade
<1>5. Realised(t) \in Int
  BY <1>1, <1>3, <1>4, SumType
<1>6. ASSUME NEW x \in AnyTrade
      PROVE  Realised(Append(t, x)) = Realised(t) + x.pnl
  <2>1. PICK u \in Seq(AnyTrade) : u = Append(t, x)
    <3>1. Append(t, x) \in Seq(AnyTrade)
      OBVIOUS
    <3> QED  BY <3>1, Zenon
  <2>2. DOMAIN u = (DOMAIN t) \union {n + 1} /\ n + 1 \notin DOMAIN t
        /\ u[n + 1] = x /\ \A i \in DOMAIN t : u[i] = t[i]
    BY <1>2, <2>1
  <2>3. \A i \in DOMAIN u : pnl(u)[i] \in Int
    BY <1>4
  <2>4. pnl(u)[n + 1] = x.pnl /\ \A i \in DOMAIN t : pnl(u)[i] = pnl(t)[i] /\ pnl(u)[i] \in Int
    BY <1>4, <2>2, <2>3
  <2> HIDE DEF pnl
  <2>5. SumOver(pnl(u), DOMAIN u) = x.pnl + SumOver(pnl(u), DOMAIN t)
    <3>1. PICK D, f, y : D = DOMAIN t /\ f = pnl(u) /\ y = n + 1
      OBVIOUS
    <3>2. IsFiniteSet(D) /\ y \notin D /\ \A i \in D \union {y} : f[i] \in Int
      BY <1>3, <2>2, <2>3, <3>1
    <3>3. SumOver(f, D \union {y}) = f[y] + SumOver(f, D)
      BY <3>2, SumAdd
    <3> QED  BY <2>2, <2>4, <3>1, <3>3, Zenon
  <2>6. SumOver(pnl(u), DOMAIN t) = SumOver(pnl(t), DOMAIN t)
    <3>1. PICK D, f, e : D = DOMAIN t /\ f = pnl(u) /\ e = pnl(t)
      OBVIOUS
    <3>2. IsFiniteSet(D) /\ \A i \in D : f[i] \in Int /\ f[i] = e[i]
      BY <1>3, <2>4, <3>1
    <3> QED  BY <3>1, <3>2, SumCongruence
  <2>7. Realised(u) = x.pnl + Realised(t)
    BY <1>1, <2>5, <2>6
  <2>8. PICK r, q \in Int : r = Realised(t) /\ q = x.pnl
    BY <1>5 DEF AnyTrade
  <2>9. q + r = r + q
    OBVIOUS
  <2> QED  BY <2>1, <2>7, <2>8, <2>9
<1> QED  BY <1>5, <1>6

\* A bar more: the peak stays the highest point, and the new fall from it is counted.
LEMMA CurveGrows ==
    ASSUME CurveInv, NEW equity \in Int, btCurve' = Append(btCurve, equity), btPeak' = Peak(equity),
           btDrawdown' = Max({btDrawdown, DrawdownPercent(Peak(equity), equity)})
    PROVE  /\ btCurve' \in Seq(Int) /\ btCurve' # <<>> /\ btCurve'[Len(btCurve')] = equity
           /\ btPeak' \in Int /\ btDrawdown' \in Int
           /\ \E i \in DOMAIN btCurve' : btCurve'[i] = btPeak'
           /\ \A i \in DOMAIN btCurve' : btCurve'[i] <= btPeak'
           /\ \A i, j \in DOMAIN btCurve' :
                IsHighUpTo(btCurve', i, j) => DrawdownPercent(btCurve'[i], btCurve'[j]) <= btDrawdown'
<1>1. PICK n \in Nat : n = Len(btCurve) /\ DOMAIN btCurve = 1 .. n
  BY DEF CurveInv
<1>2. PICK c : c = btCurve'
  OBVIOUS
<1>3. /\ c \in Seq(Int) /\ c # <<>> /\ Len(c) = n + 1 /\ DOMAIN c = 1 .. n + 1 /\ c[n + 1] = equity
      /\ \A i \in 1 .. n : c[i] = btCurve[i] /\ c[i] \in Int
  BY <1>1, <1>2 DEF CurveInv
<1>4. PICK peak : peak = Peak(equity)
  OBVIOUS
<1>5. /\ btPeak \in Int /\ btDrawdown \in Int /\ peak \in {btPeak, equity} /\ btPeak <= peak /\ equity <= peak
  BY <1>4, GreaterOfTwo DEF CurveInv, Peak
<1>6. \A i \in 1 .. n + 1 : c[i] <= peak /\ c[i] \in Int
  <2>1. \A i \in 1 .. n : c[i] <= btPeak
    BY <1>1, <1>3 DEF CurveInv
  <2> QED  BY <1>3, <1>5, <2>1
<1>7. \E i \in 1 .. n + 1 : c[i] = peak
  <2>1. CASE peak = equity
    <3>1. n + 1 \in 1 .. n + 1
      OBVIOUS
    <3> QED  BY <1>3, <2>1, <3>1
  <2>2. CASE peak = btPeak
    <3>1. PICK i \in 1 .. n : btCurve[i] = btPeak
      BY <1>1 DEF CurveInv
    <3>2. i \in 1 .. n + 1
      OBVIOUS
    <3> QED  BY <1>3, <2>2, <3>1, <3>2
  <2> QED  BY <1>5, <2>1, <2>2
<1>8. PICK fall \in Int : fall = DrawdownPercent(peak, equity)
  BY <1>5, PercentIsWhole
<1>9. btDrawdown' \in Int /\ btDrawdown <= btDrawdown' /\ fall <= btDrawdown'
  BY <1>4, <1>5, <1>8, GreaterOfTwo
<1>10. ASSUME NEW i \in 1 .. n + 1, NEW j \in 1 .. n + 1, IsHighUpTo(c, i, j)
       PROVE  DrawdownPercent(c[i], c[j]) <= btDrawdown'
  <2>1. CASE j = n + 1
    <3>1. PICK m \in 1 .. n + 1 : c[m] = peak
      BY <1>7
    <3>2. c[i] = peak
      BY <1>6, <1>10, <2>1, <3>1 DEF IsHighUpTo
    <3> QED  BY <1>3, <1>8, <1>9, <2>1, <3>2, Zenon
  <2>2. CASE j \in 1 .. n
    <3>1. i \in 1 .. n /\ i \in 1 .. j /\ \A k \in 1 .. j : k \in 1 .. n /\ c[k] <= c[i]
      BY <1>10, <2>2 DEF IsHighUpTo
    <3>2. IsHighUpTo(btCurve, i, j)
      BY <1>3, <3>1 DEF IsHighUpTo
    <3>3. PICK p \in Int : p = DrawdownPercent(btCurve[i], btCurve[j])
      BY <1>3, <2>2, <3>1, PercentIsWhole
    <3>4. p <= btDrawdown
      BY <1>1, <2>2, <3>1, <3>2, <3>3, Zenon DEF CurveInv
    <3>5. p <= btDrawdown'
      BY <1>5, <1>9, <3>4
    <3> QED  BY <1>3, <2>2, <3>1, <3>3, <3>5, Zenon
  <2> QED  BY <2>1, <2>2
<1> QED
  BY <1>2, <1>3, <1>4, <1>5, <1>6, <1>7, <1>9, <1>10, Zenon

\* The positions that are opened have whole numbers of lots.
LEMMA PositionsAreWhole ==
    ASSUME NEW balance \in Int, NEW bar \in Int, NEW close \in Int, NEW signal, NEW atr \in {0, 1}
    PROVE  Opened(balance, bar, close, signal, atr) \in AnyPosition
           /\ Opened(balance, bar, close, signal, atr).bar = bar
<1>1. PICK distance \in Nat : distance = SlDistance * atr
  BY BacktestAssumption
<1>2. PICK part \in Int : part = (2 * balance * RiskPercent + 100 * distance)
  BY BacktestAssumption
<1>3. PICK lots \in Int : lots = Lots(balance, distance)
  <2>1. CASE distance = 0
    BY <2>1 DEF Lots
  <2>2. CASE distance # 0
    <3>1. PICK whole \in Nat \ {0} : whole = 200 * distance
      BY <2>2
    <3>2. PICK q \in Int : q = part \div whole
      BY <3>1
    <3>3. PICK m \in Int : m = Max({1, q})
      BY GreaterOfTwo
    <3>4. Lots(balance, distance) = m
      BY <1>2, <2>2, <3>1, <3>2, <3>3, Zenon DEF Lots
    <3> QED  BY <3>4
  <2> QED  BY <2>1, <2>2
<1>4. ASSUME NEW dir \in {1, -1}
      PROVE  close - dir * SlDistance * atr \in Int /\ close + dir * TpDistance * atr \in Int
  BY BacktestAssumption
<1> QED  BY <1>1, <1>3, <1>4 DEF Opened, AnyPosition

\* What a position makes at a price is a whole number.
LEMMA TradesAreWhole ==
    ASSUME NEW p \in AnyPosition, NEW bar \in Int, NEW price \in Int
    PROVE  /\ Pnl(p, price) \in Int
           /\ Trade(p, bar, price) \in AnyTrade /\ Trade(p, bar, price).pnl = Pnl(p, price)
           /\ Trade(p, bar, price).from = p.bar /\ Trade(p, bar, price).to = bar
<1>1. (price - p.entry) * p.dir * p.lots \in Int
  BY DEF AnyPosition
<1> QED  BY <1>1 DEF Pnl, Trade, AnyTrade, AnyPosition

\* The trades after a bar: one more when the position is left.
LEMMA TradesFollow ==
    ASSUME ReplayInv, NEW trade \in AnyTrade, btPosition # <<>>,
           btTrades' = Append(btTrades, trade), btBalance' = btBalance + trade.pnl,
           trade.from = btPosition[1].bar
    PROVE  /\ btTrades' \in Seq(AnyTrade)
           /\ btBalance' \in Int /\ btBalance' = InitialBalance + Realised(btTrades')
           /\ \A i \in DOMAIN btTrades' :
                /\ btTrades'[i].to <= btBar \/ btTrades'[i].to = trade.to
                /\ \A j \in DOMAIN btTrades' : i < j => btTrades'[i].to <= btTrades'[j].from
<1>1. btTrades \in Seq(AnyTrade) /\ btBalance \in Int /\ btBalance = InitialBalance + Realised(btTrades)
  BY DEF ReplayInv, TradesInv
<1>2. PICK t : t = btTrades'
  OBVIOUS
<1>3. PICK n \in Nat : n = Len(btTrades) /\ DOMAIN btTrades = 1 .. n
  BY <1>1
<1>4. /\ t \in Seq(AnyTrade) /\ DOMAIN t = 1 .. n + 1 /\ t[n + 1] = trade
      /\ \A i \in 1 .. n : t[i] = btTrades[i]
  BY <1>1, <1>2, <1>3
<1>5. btBalance' \in Int /\ btBalance' = InitialBalance + Realised(t)
  <2>1. PICK r \in Int : r = Realised(btTrades)
    BY <1>1, RealisedSoFar
  <2>2. Realised(t) = r + trade.pnl
    BY <1>1, <1>2, <2>1, RealisedSoFar
  <2>3. PICK q \in Int : q = trade.pnl
    BY DEF AnyTrade
  <2>4. btBalance' = btBalance + q /\ btBalance = InitialBalance + r
    BY <1>1, <2>1, <2>3
  <2>5. btBalance' = InitialBalance + (r + q) /\ btBalance' \in Int
    BY <1>1, <2>4, BacktestAssumption, SMTT(30)
  <2> QED  BY <2>2, <2>3, <2>5, Zenon
<1>6. ASSUME NEW i \in 1 .. n
      PROVE  /\ btTrades[i].to <= btBar /\ btTrades[i].to <= trade.from
             /\ \A j \in 1 .. n : i < j => btTrades[i].to <= btTrades[j].from
  BY <1>3 DEF ReplayInv, TradesInv
<1>7. ASSUME NEW i \in 1 .. n + 1, NEW j \in 1 .. n + 1, i < j PROVE t[i].to <= t[j].from
  <2>1. i \in 1 .. n
    BY <1>7
  <2>2. CASE j = n + 1
    BY <1>4, <1>6, <2>1, <2>2, Zenon
  <2>3. CASE j # n + 1
    <3>1. j \in 1 .. n
      BY <2>3
    <3> QED  BY <1>4, <1>6, <1>7, <2>1, <3>1, Zenon
  <2> QED  BY <2>2, <2>3
<1>8. \A i \in 1 .. n + 1 : t[i].to <= btBar \/ t[i].to = trade.to
  BY <1>4, <1>6
<1> QED  BY <1>2, <1>4, <1>5, <1>7, <1>8, Zenon

LEMMA EquityIsWhole ==
    ASSUME NEW balance \in Int, NEW position \in {<<>>} \union {<<p>> : p \in AnyPosition}, NEW close \in Int
    PROVE  Equity(balance, position, close) \in Int
<1>1. CASE position = <<>>
  BY <1>1 DEF Equity
<1>2. ASSUME NEW p \in AnyPosition, position = <<p>> PROVE Equity(balance, position, close) \in Int
  <2>1. PICK q \in Int : q = Pnl(p, close)
    BY TradesAreWhole
  <2>2. Equity(balance, position, close) = balance + q
    BY <1>2, <2>1 DEF Equity
  <2> QED  BY <2>2
<1> QED  BY <1>1, <1>2

LEMMA BarKeeps ==
    ASSUME ReplayInv, NEW close \in Prices, NEW high \in Prices, NEW low \in Prices, NEW signal,
           NEW atr \in {0, 1}, ReplayBar(close, high, low, signal, atr)
    PROVE  ReplayInv'
<1> DEFINE bar == btBar + 1
           leaves == btPosition # <<>> /\ Exits(btPosition[1], bar, high, low)
           trade == Trade(btPosition[1], bar, ExitPrice(btPosition[1], close, high, low))
           kept == IF leaves THEN <<>> ELSE btPosition
           opens == kept = <<>> /\ MayEnter(btEngine, bar, signal, atr)
           equity == Equity(btBalance', btPosition', close)
<1>1. /\ btBar \in Int /\ bar \in Int /\ btBar <= bar /\ close \in Int /\ high \in Int /\ low \in Int
      /\ btBalance \in Int /\ TradesInv /\ CurveInv
      /\ btPosition = <<>> \/ \E p \in AnyPosition : btPosition = <<p>>
  BY BacktestAssumption DEF ReplayInv, TradesInv
<1>2. /\ btPc = "replay" /\ btPc' = "replay" /\ btBar' = bar /\ btClose' = close
      /\ btBalance' = IF leaves THEN btBalance + trade.pnl ELSE btBalance
      /\ btTrades' = IF leaves THEN Append(btTrades, trade) ELSE btTrades
      /\ btPosition' = IF opens THEN <<Opened(btBalance', bar, close, signal, atr)>> ELSE kept
      /\ btPeak' = Peak(equity) /\ btCurve' = Append(btCurve, equity)
      /\ btDrawdown' = Max({btDrawdown, DrawdownPercent(Peak(equity), equity)})
  BY Zenon DEF ReplayBar
<1>3. /\ btTrades' \in Seq(AnyTrade)
      /\ btBalance' \in Int /\ btBalance' = InitialBalance + Realised(btTrades')
      /\ \A i \in DOMAIN btTrades' :
           /\ btTrades'[i].to <= bar
           /\ \A j \in DOMAIN btTrades' : i < j => btTrades'[i].to <= btTrades'[j].from
  <2>1. CASE leaves
    <3>1. PICK p \in AnyPosition : btPosition = <<p>>
      BY <1>1, <2>1
    <3>2. ExitPrice(p, close, high, low) \in Int
      BY <1>1 DEF ExitPrice, AnyPosition
    <3>3. trade \in AnyTrade /\ trade.to = bar /\ trade.from = btPosition[1].bar
      BY <1>1, <3>1, <3>2, TradesAreWhole
    <3>4. btBalance' = btBalance + trade.pnl /\ btTrades' = Append(btTrades, trade)
      BY <1>2, <2>1
    <3> HIDE DEF trade, bar
    <3>5. /\ btTrades' \in Seq(AnyTrade)
          /\ btBalance' \in Int /\ btBalance' = InitialBalance + Realised(btTrades')
          /\ \A i \in DOMAIN btTrades' :
               /\ btTrades'[i].to <= btBar \/ btTrades'[i].to = bar
               /\ \A j \in DOMAIN btTrades' : i < j => btTrades'[i].to <= btTrades'[j].from
      BY <2>1, <3>3, <3>4, TradesFollow
    <3>6. \A i \in DOMAIN btTrades' : btTrades'[i].to \in Int
      BY <3>5, TradesAreDated
    <3>7. \A i \in DOMAIN btTrades' : btTrades'[i].to <= bar
      BY <1>1, <3>5, <3>6
    <3> QED  BY <3>5, <3>7
  <2>2. CASE ~leaves
    <3>1. btTrades' = btTrades /\ btBalance' = btBalance
      BY <1>2, <2>2
    <3>2. \A i \in DOMAIN btTrades : btTrades[i].to \in Int /\ btTrades[i].to <= btBar
      BY <1>1, TradesAreDated DEF TradesInv
    <3>3. \A i \in DOMAIN btTrades : btTrades[i].to <= bar
      BY <1>1, <3>2
    <3> QED  BY <1>1, <3>1, <3>3 DEF TradesInv
  <2> QED  BY <2>1, <2>2
<1>4. /\ btPosition' = <<>> \/ \E p \in AnyPosition : btPosition' = <<p>>
      /\ btPosition' # <<>> => \A i \in DOMAIN btTrades' : btTrades'[i].to <= btPosition'[1].bar
  <2>1. CASE opens
    <3>1. PICK p \in AnyPosition : p = Opened(btBalance', bar, close, signal, atr) /\ p.bar = bar
      BY <1>1, <1>3, PositionsAreWhole
    <3>2. btPosition' = <<p>>
      BY <1>2, <2>1, <3>1
    <3> QED  BY <1>3, <3>1, <3>2
  <2>2. CASE ~opens /\ leaves
    BY <1>2, <2>2
  <2>3. CASE ~opens /\ ~leaves
    <3>1. btPosition' = btPosition /\ btTrades' = btTrades
      BY <1>2, <2>3
    <3> QED  BY <1>1, <3>1 DEF TradesInv
  <2> QED  BY <2>1, <2>2, <2>3
<1>5. equity \in Int
  BY <1>1, <1>3, <1>4, EquityIsWhole
<1> HIDE DEF equity, bar, trade, leaves, kept, opens
<1>6. /\ btCurve' \in Seq(Int) /\ btCurve' # <<>> /\ btCurve'[Len(btCurve')] = equity
      /\ btPeak' \in Int /\ btDrawdown' \in Int
      /\ \E i \in DOMAIN btCurve' : btCurve'[i] = btPeak'
      /\ \A i \in DOMAIN btCurve' : btCurve'[i] <= btPeak'
      /\ \A i, j \in DOMAIN btCurve' :
           IsHighUpTo(btCurve', i, j) => DrawdownPercent(btCurve'[i], btCurve'[j]) <= btDrawdown'
  BY <1>1, <1>2, <1>5, CurveGrows
<1>7. CurveInv'
  <2>1. equity = Equity(btBalance', btPosition', btClose')
    BY <1>2, Zenon DEF equity
  <2> QED  BY <1>6, <2>1, Zenon DEF CurveInv
<1>8. TradesInv'
  BY <1>2, <1>3, <1>4, Zenon DEF TradesInv
<1> QED  BY <1>1, <1>2, <1>4, <1>7, <1>8 DEF ReplayInv

LEMMA EndKeeps ==
    ASSUME ReplayInv, FinishBacktest
    PROVE  ReplayInv'
<1> DEFINE trade == Trade(btPosition[1], btBar, btClose)
<1>1. /\ btBar \in Int /\ btClose \in Int /\ btBalance \in Int /\ TradesInv /\ CurveInv
      /\ btPosition = <<>> \/ \E p \in AnyPosition : btPosition = <<p>>
  BY DEF ReplayInv, TradesInv
<1>2. /\ UNCHANGED <<btBar, btClose, btPeak, btDrawdown, btCurve>>
      /\ btPosition' = <<>> /\ CloseRest
  BY DEF FinishBacktest
<1>3. CASE btPosition = <<>>
  <2>1. UNCHANGED <<btBalance, btTrades, btPosition>>
    BY <1>2, <1>3 DEF CloseRest
  <2> QED  BY <1>1, <1>2, <1>3, <2>1, Zenon DEF ReplayInv, TradesInv, CurveInv
<1>4. ASSUME NEW p \in AnyPosition, btPosition = <<p>> PROVE ReplayInv'
  <2>1. btBalance' = btBalance + trade.pnl /\ btTrades' = Append(btTrades, trade)
    BY <1>2, <1>4 DEF CloseRest
  <2>2. trade \in AnyTrade /\ trade.to = btBar /\ trade.from = btPosition[1].bar /\ trade.pnl = Pnl(p, btClose)
    BY <1>1, <1>4, TradesAreWhole
  <2> HIDE DEF trade
  <2>3. /\ btTrades' \in Seq(AnyTrade)
        /\ btBalance' \in Int /\ btBalance' = InitialBalance + Realised(btTrades')
        /\ \A i \in DOMAIN btTrades' :
             /\ btTrades'[i].to <= btBar \/ btTrades'[i].to = btBar
             /\ \A j \in DOMAIN btTrades' : i < j => btTrades'[i].to <= btTrades'[j].from
    BY <1>4, <2>1, <2>2, TradesFollow
  <2>4. \A i \in DOMAIN btTrades' : btTrades'[i].to \in Int
    BY <2>3, TradesAreDated
  <2>5. \A i \in DOMAIN btTrades' : btTrades'[i].to <= btBar
    BY <1>1, <2>3, <2>4
  <2>6. Equity(btBalance, btPosition, btClose) = Equity(btBalance', btPosition', btClose')
    <3>1. Equity(btBalance, btPosition, btClose) = btBalance + trade.pnl
      BY <1>4, <2>2 DEF Equity
    <3> QED  BY <1>2, <2>1, <3>1 DEF Equity
  <2>7. TradesInv'
    BY <1>2, <2>3, <2>5 DEF TradesInv
  <2>8. CurveInv'
    BY <1>1, <1>2, <2>6, Zenon DEF CurveInv
  <2> QED  BY <1>1, <1>2, <2>7, <2>8 DEF ReplayInv
<1> QED  BY <1>1, <1>3, <1>4

\* A replay starts with the initial balance, flat.
LEMMA ReplaysStart == BtInit => ReplayInv
<1> SUFFICES ASSUME BtInit PROVE ReplayInv
  OBVIOUS
<1>1. Realised(<<>>) = 0
  <2>1. Realised(<<>>) = SumOver([i \in {} |-> <<>>[i].pnl], {})
    BY DEF Realised, SumOver
  <2> QED  BY <2>1, SumEmpty
<1>2. TradesInv
  <2>1. btTrades = <<>> /\ btBalance = InitialBalance /\ <<>> \in Seq(AnyTrade) /\ DOMAIN <<>> = {}
    BY DEF BtInit
  <2>2. InitialBalance \in Int /\ InitialBalance = InitialBalance + 0
    BY BacktestAssumption
  <2> QED  BY <1>1, <2>1, <2>2, Zenon DEF TradesInv
<1>3. CurveInv
  <2>1. /\ btCurve = <<InitialBalance>> /\ btPeak = InitialBalance /\ btDrawdown = 0
        /\ btBalance = InitialBalance /\ btPosition = <<>>
    BY DEF BtInit
  <2>2. InitialBalance \in Int /\ DrawdownPercent(InitialBalance, InitialBalance) <= 0
    BY BacktestAssumption, PercentIsWhole
  <2>3. /\ btCurve \in Seq(Int) /\ btCurve # <<>> /\ Len(btCurve) = 1 /\ DOMAIN btCurve = {1}
        /\ btCurve[1] = InitialBalance /\ InitialBalance <= InitialBalance
    BY <2>1, <2>2
  <2>4. Equity(btBalance, btPosition, btClose) = InitialBalance
    BY <2>1 DEF Equity
  <2>5. ASSUME NEW i \in DOMAIN btCurve
        PROVE  i = 1 /\ btCurve[i] = InitialBalance /\ btCurve[i] <= btPeak
    BY <2>1, <2>3
  <2>6. ASSUME NEW i \in DOMAIN btCurve, NEW j \in DOMAIN btCurve
        PROVE  DrawdownPercent(btCurve[i], btCurve[j]) <= btDrawdown
    <3>1. btCurve[i] = InitialBalance /\ btCurve[j] = InitialBalance
      BY <2>5
    <3> QED  BY <2>1, <2>2, <3>1, Zenon
  <2>7. btPeak \in Int /\ btDrawdown \in Int /\ 1 \in DOMAIN btCurve
    BY <2>1, <2>2, <2>3
  <2>8. btCurve[Len(btCurve)] = Equity(btBalance, btPosition, btClose) /\ btCurve[1] = btPeak
    BY <2>1, <2>3, <2>4
  <2> QED  BY <2>3, <2>5, <2>6, <2>7, <2>8, Zenon DEF CurveInv
<1> QED  BY <1>2, <1>3 DEF BtInit, ReplayInv

\* Every step of a task keeps the account.
LEMMA ReplaysKeep == ReplayInv /\ [BtNext]_btVars => ReplayInv'
<1> SUFFICES ASSUME ReplayInv, [BtNext]_btVars PROVE ReplayInv'
  OBVIOUS
<1>1. ASSUME NEW c \in Prices, NEW h \in Prices, NEW l \in Prices, NEW s, NEW a \in {0, 1}, ReplayBar(c, h, l, s, a)
      PROVE ReplayInv'
  BY <1>1, BarKeeps
<1>2. CASE FinishBacktest
  BY <1>2, EndKeeps
<1>3. CASE \/ \E e \in Engines, q \in BOOLEAN : Submit(e, q)
           \/ \E o \in {"enough", "short", "error"} : FetchForStrategy(o) \/ FetchForGold(o)
           \/ UNCHANGED btVars
  <2>1. /\ UNCHANGED <<btBar, btClose, btPosition, btBalance, btPeak, btDrawdown, btTrades, btCurve>>
        /\ btPosition # <<>> => btPc' = btPc
    BY <1>3 DEF Submit, FetchForStrategy, FetchForGold, FetchCandles, btVars, btAccount, ReplayInv
  <2>2. TradesInv' /\ CurveInv'
    BY <2>1, Zenon DEF ReplayInv, TradesInv, CurveInv
  <2> QED  BY <2>1, <2>2 DEF ReplayInv
<1> QED  BY <1>1, <1>2, <1>3 DEF BtNext

\* A finished replay reconciles, for any prices, number of bars and distances of the levels:
\* the trades give the final balance, which is where the curve ends; trades follow each
\* other; and the drawdown covers every fall of the curve from its highest point until then
\* (tasks.py:638-679, 737-759, 1091-1165).
THEOREM ReplaysReconcile == BtSpec => []BacktestReconciles
<1>1. BtInit => ReplayInv
  BY ReplaysStart
<1>2. ReplayInv /\ [BtNext]_btVars => ReplayInv'
  BY ReplaysKeep
<1>3. ReplayInv => BacktestReconciles
  <2> SUFFICES ASSUME ReplayInv PROVE BacktestReconciles
    OBVIOUS
  <2>1. TradesInv /\ CurveInv /\ (btPc = "ended" => btPosition = <<>>)
    BY DEF ReplayInv
  <2>2. ASSUME btPc = "ended" PROVE btBalance = Last(btCurve)
    BY <2>1, <2>2 DEF CurveInv, Equity, Last
  <2> QED  BY <2>1, <2>2, Zenon DEF BacktestReconciles, TradesInv, CurveInv
<1> QED  BY <1>1, <1>2, <1>3, PTL DEF BtSpec

\* How far the replay is: the curve has a point for each bar and one for the start, a bar
\* closes one trade at most, and one that is still open leaves room for it.
ProgressInv ==
    /\ btEngine \in Engines
    /\ btStatus \in {"none", "PENDING", "RUNNING", "COMPLETED", "FAILED"}
    /\ btPc \in {"idle", "queued", "replay", "ended", "raised"}
    /\ btBar \in 0 .. Bars
    /\ Len(btCurve) = btBar + 1
    /\ Len(btTrades) + Len(btPosition) <= btBar
    /\ btPosition # <<>> => btPosition[1].bar \in 1 .. btBar /\ btPosition[1].lots >= 1

LEMMA OneLotAtLeast ==
    ASSUME NEW balance \in Int, NEW distance \in Nat
    PROVE  Lots(balance, distance) \in Int /\ Lots(balance, distance) >= 1
<1>1. CASE distance = 0
  BY <1>1 DEF Lots
<1>2. CASE distance # 0
  <2>1. PICK part \in Int : part = 2 * balance * RiskPercent + 100 * distance
    BY BacktestAssumption
  <2>2. PICK whole \in Nat \ {0} : whole = 200 * distance
    BY <1>2
  <2>3. PICK q \in Int : q = part \div whole
    BY <2>1, <2>2
  <2>4. Max({1, q}) \in Int /\ Max({1, q}) >= 1
    BY GreaterOfTwo
  <2>5. Lots(balance, distance) = Max({1, q})
    BY <1>2, <2>1, <2>2, <2>3, Zenon DEF Lots
  <2> QED  BY <2>4, <2>5
<1> QED  BY <1>1, <1>2

LEMMA ProgressKeeps ==
    ASSUME ReplayInv, ProgressInv, [BtNext]_btVars
    PROVE  ProgressInv'
<1> USE BacktestAssumption DEF ProgressInv
<1>0. /\ btTrades \in Seq(AnyTrade) /\ btCurve \in Seq(Int) /\ btBalance \in Int
      /\ btPosition = <<>> \/ \E p \in AnyPosition : btPosition = <<p>>
  BY DEF ReplayInv, TradesInv, CurveInv
<1>1. ASSUME NEW c \in Prices, NEW h \in Prices, NEW l \in Prices, NEW s, NEW a \in {0, 1}, ReplayBar(c, h, l, s, a)
      PROVE  ProgressInv'
  <2> DEFINE bar == btBar + 1
             leaves == btPosition # <<>> /\ Exits(btPosition[1], bar, h, l)
             trade == Trade(btPosition[1], bar, ExitPrice(btPosition[1], c, h, l))
             kept == IF leaves THEN <<>> ELSE btPosition
             opens == kept = <<>> /\ MayEnter(btEngine, bar, s, a)
             new == Opened(btBalance', bar, c, s, a)
             equity == Equity(btBalance', btPosition', c)
  <2>1. /\ btBar < Bars /\ btBar' = bar /\ UNCHANGED <<btEngine, btStatus, btPc>>
        /\ btTrades' = IF leaves THEN Append(btTrades, trade) ELSE btTrades
        /\ btPosition' = IF opens THEN <<new>> ELSE kept
        /\ btCurve' = Append(btCurve, equity)
    BY <1>1, Zenon DEF ReplayBar
  <2>2. ReplayInv'
    BY <1>1, BarKeeps
  <2>3. btBalance' \in Int
    BY <2>2 DEF ReplayInv, TradesInv
  <2>4. new.bar = bar /\ new.lots >= 1
    <3>1. PICK distance \in Nat : distance = SlDistance * a
      OBVIOUS
    <3>2. new.lots = Lots(btBalance', distance) /\ new.bar = bar
      BY <3>1 DEF Opened
    <3> HIDE DEF new
    <3> QED  BY <2>3, <3>1, <3>2, OneLotAtLeast
  <2> HIDE DEF trade, leaves, new, opens, equity
  <2>5. Len(btCurve') = bar + 1
    BY <1>0, <2>1
  <2>6. Len(btTrades') + Len(kept) <= btBar
    <3>1. CASE leaves
      <4>1. btTrades' = Append(btTrades, trade) /\ kept = <<>> /\ Len(btPosition) = 1
        BY <1>0, <2>1, <3>1 DEF leaves
      <4>2. Len(btTrades') = Len(btTrades) + 1 /\ Len(btTrades) \in Nat
        BY <1>0, <4>1
      <4>3. Len(kept) = 0
        BY <4>1
      <4> HIDE DEF kept
      <4> QED  BY <4>1, <4>2, <4>3
    <3>2. CASE ~leaves
      BY <2>1, <3>2
    <3> QED  BY <3>1, <3>2
  <2>7. CASE opens
    <3>1. btPosition' = <<new>> /\ kept = <<>>
      BY <2>1, <2>7 DEF opens
    <3>2. Len(btPosition') = 1 /\ btPosition'[1] = new /\ Len(kept) = 0
      BY <3>1
    <3>3. Len(btTrades') \in Nat
      BY <1>0, <2>1
    <3>4. bar \in 1 .. bar /\ bar \in 0 .. Bars
      BY <2>1
    <3>5. Len(btTrades') + Len(btPosition') <= bar
      BY <2>6, <3>2, <3>3
    <3> HIDE DEF kept, bar
    <3> QED  BY <2>1, <2>4, <2>5, <3>2, <3>4, <3>5
  <2>8. CASE ~opens
    <3>1. btPosition' = kept
      BY <2>1, <2>8
    <3>2. kept # <<>> => kept = btPosition
      OBVIOUS
    <3>3. bar \in 0 .. Bars /\ (kept # <<>> => kept[1].bar \in 1 .. bar /\ kept[1].lots >= 1)
      BY <2>1, <3>2
    <3>4. Len(btTrades') + Len(kept) <= bar
      BY <1>0, <2>1, <2>6
    <3> HIDE DEF kept, bar
    <3> QED  BY <2>1, <2>5, <3>1, <3>3, <3>4
  <2> QED  BY <2>7, <2>8
<1>2. CASE FinishBacktest
  <2>1. /\ UNCHANGED <<btEngine, btBar, btCurve>> /\ btPosition' = <<>>
        /\ btPc' = "ended" /\ btStatus' \in {"COMPLETED", btStatus} /\ CloseRest
    BY <1>2 DEF FinishBacktest
  <2>2. Len(btTrades') <= btBar
    BY <1>0, <2>1 DEF CloseRest
  <2> QED  BY <2>1, <2>2
<1>3. CASE \/ \E e \in Engines, q \in BOOLEAN : Submit(e, q)
           \/ \E o \in {"enough", "short", "error"} : FetchForStrategy(o) \/ FetchForGold(o)
           \/ UNCHANGED btVars
  <2>1. /\ UNCHANGED <<btBar, btPosition, btTrades, btCurve>> /\ btEngine' \in Engines
        /\ btStatus' \in {btStatus, "FAILED", "PENDING", "COMPLETED", "RUNNING"}
        /\ btPc' \in {btPc, "queued", "replay", "ended", "raised"}
    BY <1>3 DEF Submit, FetchForStrategy, FetchForGold, FetchCandles, btVars, btAccount
  <2> QED  BY <2>1
<1> QED  BY <1>1, <1>2, <1>3 DEF BtNext

\* For any prices, number of bars and levels: a position is opened at a bar of the replay with
\* one lot at least, a bar ends one trade at most, and every bar is a point of the curve
\* (tasks.py:638-760, 1091-1165).
THEOREM ReplayTypes == BtSpec => []BtTypeOK
<1>1. BtInit => ProgressInv
  BY BacktestAssumption DEF BtInit, ProgressInv, Engines
<1>2. ReplayInv /\ ProgressInv /\ [BtNext]_btVars => ProgressInv'
  BY ProgressKeeps
<1>3. ReplayInv /\ ProgressInv => BtTypeOK
  <2> SUFFICES ASSUME ReplayInv, ProgressInv PROVE BtTypeOK
    OBVIOUS
  <2>1. Len(btTrades) \in Nat /\ Len(btPosition) \in Nat
    BY DEF ReplayInv, TradesInv
  <2>2. Len(btTrades) <= Bars
    BY <2>1, BacktestAssumption DEF ProgressInv
  <2> QED  BY <2>2 DEF ProgressInv, BtTypeOK
<1> QED  BY <1>1, <1>2, <1>3, ReplaysStart, ReplaysKeep, PTL DEF BtSpec

-----------------------------------------------------------------------------
(* Scoring and evolve of the genetic search (ml/genetic_optimizer.py).     *)

\* A finite set of whole numbers has a greatest and a least element.
LEMMA ExtremesExist ==
    ASSUME NEW S, IsFiniteSet(S), S # {}, S \subseteq Int
    PROVE  /\ Max(S) \in S /\ \A y \in S : y <= Max(S)
           /\ Min(S) \in S /\ \A y \in S : Min(S) <= y
<1> DEFINE Bounded(s) == (\E x \in s : \A y \in s : x >= y) /\ (\E x \in s : \A y \in s : x <= y)
           N == {n \in Nat : \A s \in SUBSET S : s # {} /\ Cardinality(s) <= n => Bounded(s)}
<1>1. \A s \in SUBSET S : IsFiniteSet(s) /\ Cardinality(s) \in Nat
  BY FS_Subset, FS_CardinalityType
<1>2. 0 \in N
  <2>1. \A s \in SUBSET S : s # {} => Cardinality(s) # 0
    BY <1>1, FS_EmptySet
  <2>2. \A s \in SUBSET S : s # {} => ~(Cardinality(s) <= 0)
    BY <1>1, <2>1
  <2> QED  BY <2>2
<1>3. ASSUME NEW n \in N, NEW s \in SUBSET S, s # {}, Cardinality(s) <= n + 1
      PROVE  Bounded(s)
  <2> DEFINE t == s \ {Pick(s)}
  <2>1. Pick(s) \in s /\ Cardinality(t) = Cardinality(s) - 1 /\ t \in SUBSET S
    BY <1>1, <1>3, PickSmaller
  <2>2. PICK p \in Int : p = Pick(s)
    BY <2>1
  <2>3. Cardinality(t) <= n
    BY <1>1, <1>3, <2>1
  <2>4. s = t \union {p} /\ t \subseteq Int
    <3>1. s = t \union {Pick(s)}
      BY <2>1
    <3>2. t \subseteq Int
      OBVIOUS
    <3> QED  BY <2>2, <3>1, <3>2
  <2> HIDE DEF t
  <2>5. CASE t = {}
    BY <2>4, <2>5
  <2>6. CASE t # {}
    <3>1. PICK x \in t, z \in t : \A y \in t : x >= y /\ z <= y
      BY <2>1, <2>3, <2>6
    <3>2. \E a \in s : \A y \in s : a >= y
      <4>1. CASE x >= p
        BY <2>4, <3>1, <4>1
      <4>2. CASE ~(x >= p)
        BY <2>4, <3>1, <4>2
      <4> QED  BY <4>1, <4>2
    <3>3. \E a \in s : \A y \in s : a <= y
      <4>1. CASE z <= p
        BY <2>4, <3>1, <4>1
      <4>2. CASE ~(z <= p)
        BY <2>4, <3>1, <4>2
      <4> QED  BY <4>1, <4>2
    <3> QED  BY <3>2, <3>3
  <2> QED  BY <2>5, <2>6
<1>4. N = Nat
  <2>1. \A n \in N : n + 1 \in N
    BY <1>3
  <2> HIDE DEF N
  <2>2. N \in SUBSET Nat
    BY DEF N
  <2> QED  BY <1>2, <2>1, <2>2, NatSetInduction
<1>5. Bounded(S)
  <2>1. PICK n \in Nat : n = Cardinality(S)
    BY <1>1
  <2>2. n \in N /\ Cardinality(S) <= n
    BY <1>4, <2>1
  <2> QED  BY <2>2
<1>6. /\ Max(S) = CHOOSE x \in S : \A y \in S : x >= y
      /\ Min(S) = CHOOSE x \in S : \A y \in S : x <= y
  BY DEF Max, Min
<1>7. Max(S) \in S /\ \A y \in S : Max(S) >= y
  BY <1>5, <1>6, Zenon
<1>8. Min(S) \in S /\ \A y \in S : Min(S) <= y
  BY <1>5, <1>6, Zenon
<1>9. PICK m \in Int : m = Max(S)
  BY <1>7
<1>10. \A y \in S : y <= m
  <2>1. \A y \in S : m >= y
    BY <1>7, <1>9, Zenon
  <2> QED  BY <2>1
<1> QED  BY <1>7, <1>8, <1>9, <1>10, Zenon

GeneVectors == [Genes -> Nat]

LEMMA ClampsAreGenes ==
    ASSUME NEW n \in Genes, NEW v \in Int
    PROVE  Clamp(n, v) \in Nat
<1>1. /\ IsFiniteSet(GeneValues[n]) /\ GeneValues[n] # {} /\ GeneValues[n] \subseteq Int
      /\ \A y \in GeneValues[n] : y \in Nat
  BY EvolutionAssumption
<1>2. PICK low, high \in Nat : low = Min(GeneValues[n]) /\ high = Max(GeneValues[n])
  BY <1>1, ExtremesExist
<1>3. PICK least \in Int : least = Min({high, v})
  BY LesserOfTwo
<1>4. Max({low, least}) \in Nat
  <2>1. PICK m \in Int : m = Max({low, least}) /\ low <= m
    BY GreaterOfTwo
  <2> QED  BY <2>1
<1> QED  BY <1>2, <1>3, <1>4 DEF Clamp

\* A repair shares one unit between the two weights and lifts a target that is not above its stop.
LEMMA RepairsOf ==
    ASSUME NEW g \in GeneVectors
    PROVE  \E trend, rest, above \in Nat :
             /\ trend <= 12 /\ rest <= 12
             /\ above = IF g["tp"] <= g["sl"] THEN g["sl"] + 1 ELSE g["tp"]
             /\ Repaired(g) = [g EXCEPT !.trend = trend, !.momentum = rest, !.tp = above]
<1>0. "sl" \in Genes /\ "tp" \in Genes /\ "trend" \in Genes /\ "momentum" \in Genes
  BY EvolutionAssumption
<1>1. PICK a, b, s, t \in Nat : a = g["trend"] /\ b = g["momentum"] /\ s = g["sl"] /\ t = g["tp"]
  BY <1>0 DEF GeneVectors
<1>2. PICK trend \in Nat : trend <= 12 /\ trend = IF a + b = 0 THEN 0 ELSE (a * 12) \div (a + b)
  <2>1. CASE a + b = 0
    BY <2>1
  <2>2. CASE a + b # 0
    <3>1. PICK u \in Nat \ {0} : u = a + b
      BY <2>2
    <3>2. PICK w \in Nat : w = a * 12 /\ w <= 12 * u
      BY <3>1
    <3>3. w \div u \in Nat /\ w \div u <= 12
      BY <3>2
    <3> QED  BY <2>2, <3>1, <3>2, <3>3
  <2> QED  BY <2>1, <2>2
<1>3. PICK rest \in Nat : rest <= 12 /\ rest = IF a + b = 0 THEN 0 ELSE 12 - trend
  BY <1>2
<1>4. PICK above \in Nat : above = IF t <= s THEN s + 1 ELSE t
  BY <1>1
<1>5. Repaired(g) = [g EXCEPT !.trend = trend, !.momentum = rest, !.tp = above]
  BY <1>1, <1>2, <1>3, <1>4 DEF Repaired, WeightUnit12
<1>6. trend <= 12 /\ rest <= 12 /\ above = IF g["tp"] <= g["sl"] THEN g["sl"] + 1 ELSE g["tp"]
  BY <1>1, <1>2, <1>3, <1>4
<1> QED  BY <1>5, <1>6, Zenon

\* However a child is bred, it has every gene, and none is negative.
LEMMA ChildrenHaveGenes ==
    ASSUME NEW p \in GeneVectors, NEW q \in GeneVectors, NEW c \in Crossovers(p, q), NEW m \in Mutations(c)
    PROVE  Projected(m) \in GeneVectors
<1>1. c \in GeneVectors
  BY DEF Crossovers, GeneVectors
<1>2. m \in GeneVectors
  <2>1. ASSUME NEW n \in Genes, NEW d \in {-6, 6}, m = [c EXCEPT ![n] = Clamp(n, @ + d)]
        PROVE  m \in GeneVectors
    <3>1. PICK v \in Nat : v = Clamp(n, c[n] + d)
      BY <1>1, ClampsAreGenes DEF GeneVectors
    <3> QED  BY <1>1, <2>1, <3>1 DEF GeneVectors
  <2> QED  BY <1>1, <2>1 DEF Mutations
<1>3. Repaired(m) \in GeneVectors
  BY <1>2, RepairsOf DEF GeneVectors
<1>4. [n \in Genes |-> Clamp(n, Repaired(m)[n])] \in GeneVectors
  <2>1. \A n \in Genes : Clamp(n, Repaired(m)[n]) \in Nat
    BY <1>3, ClampsAreGenes DEF GeneVectors
  <2> QED  BY <2>1 DEF GeneVectors
<1> QED  BY <1>2, <1>3, <1>4 DEF Projected

\* What the fitness is computed from are whole numbers, and nothing divides by zero.
LEMMA ValuesAreFinite ==
    ASSUME NEW D, IsFiniteSet(D), NEW f \in [D -> Int]
    PROVE  IsFiniteSet({f[i] : i \in D}) /\ {f[i] : i \in D} \subseteq Int
<1>1. f \in Surjection(D, {f[i] : i \in D})
  BY DEF Surjection
<1> QED  BY <1>1, FS_Surjection

LEMMA TotalsAreWhole ==
    ASSUME NEW gains, NEW at, IsFiniteSet(at), \A i \in at : gains[i] \in Int
    PROVE  /\ TotalOf(gains, at) = SumOver(gains, at) /\ TotalOf(gains, at) \in Int
           /\ (\A i \in at : gains[i] <= 0) => TotalOf(gains, at) <= 0
<1>1. TotalOf(gains, at) = SumOver(gains, at)
  BY DEF TotalOf, SumOver
<1>2. PICK total \in Int : total = SumOver(gains, at)
  BY SumType
<1>3. ASSUME \A i \in at : gains[i] <= 0 PROVE total <= 0
  <2>1. 0 \in Int /\ 1 \in Int
    OBVIOUS
  <2>2. \A i \in at : 1 * gains[i] <= 0 * gains[i] + 0
    BY <1>3
  <2>3. 1 * SumOver(gains, at) <= 0 * SumOver(gains, at) + 0 * Cardinality(at)
    BY <2>1, <2>2, SumsCompare
  <2>4. Cardinality(at) \in Nat
    BY FS_CardinalityType
  <2> QED  BY <1>2, <2>3, <2>4
<1> QED  BY <1>1, <1>2, <1>3

LEMMA CandlesAreBars ==
    /\ Len(Candles) \in Nat /\ DOMAIN Candles = 1 .. Len(Candles)
    /\ \A i \in 1 .. Len(Candles) : Candles[i].close \in Int
<1> DEFINE B == [close : Int, high : Int, low : Int, trend : Int, momentum : Int, border : Int, filter : Int]
<1>1. Candles \in Seq(B)
  BY EvolutionAssumption
<1>2. \A b \in B : b.close \in Int
  OBVIOUS
<1> HIDE DEF B
<1>3. Len(Candles) \in Nat /\ DOMAIN Candles = 1 .. Len(Candles) /\ \A i \in 1 .. Len(Candles) : Candles[i] \in B
  BY <1>1
<1> QED  BY <1>2, <1>3

LEMMA GainsAreWhole ==
    ASSUME NEW g \in GeneVectors
    PROVE  /\ DOMAIN Gains(g) = Entries(g) /\ IsFiniteSet(Entries(g)) /\ Entries(g) \subseteq Nat
           /\ \A i \in Entries(g) : Gains(g)[i] \in Int
<1>1. PICK n \in Nat : n = Len(Candles) /\ DOMAIN Candles = 1 .. n
  BY CandlesAreBars
<1>2. /\ \A i \in 1 .. n : Candles[i].close \in Int
      /\ LookBack \in Nat /\ Horizon - 1 \in Nat \ {0} /\ g.sl \in Nat /\ g.tp \in Nat
  <2>1. LookBack \in Nat /\ Horizon - 1 \in Nat \ {0}
    BY EvolutionAssumption
  <2>2. g.sl \in Nat /\ g.tp \in Nat
    <3>1. "sl" \in Genes /\ "tp" \in Genes
      BY EvolutionAssumption
    <3> QED  BY <3>1 DEF GeneVectors
  <2>3. \A i \in 1 .. n : Candles[i].close \in Int
    BY <1>1, CandlesAreBars
  <2> QED  BY <2>1, <2>2, <2>3
<1>3. Entries(g) \subseteq LookBack + 1 .. n - 1 /\ IsFiniteSet(LookBack + 1 .. n - 1)
  <2>1. PICK first, last \in Int : first = LookBack + 1 /\ last = n - 1
    BY <1>2
  <2>2. IsFiniteSet(first .. last)
    BY FS_Interval
  <2>3. Entries(g) \subseteq first .. last
    BY <1>1, <2>1 DEF Entries
  <2> QED  BY <2>1, <2>2, <2>3
<1>4. ASSUME NEW i \in LookBack + 1 .. n - 1, NEW dir \in {1, -1}
      PROVE  TradeGain(g, i, dir) \in Int
  <2> DEFINE bars == i + 1 .. Min({i + Horizon - 1, Len(Candles)})
             hits == {j \in bars : \/ StopsOut(Candles[j], dir, Candles[i].close, g)
                                   \/ TakesProfit(Candles[j], dir, Candles[i].close, g)}
  <2>1. PICK far \in Int : far = i + Horizon - 1 /\ i + 1 <= far
    <3>1. PICK length \in Nat \ {0} : length = Horizon - 1
      BY <1>2
    <3>2. i + Horizon - 1 = i + length
      BY <1>2, <3>1
    <3> QED  BY <1>2, <3>2
  <2>2. PICK end \in Int : end = Min({far, n}) /\ end \in {far, n} /\ end <= n
    <3>1. n \in Int
      OBVIOUS
    <3>2. Min({far, n}) \in {far, n} /\ Min({far, n}) <= n
      BY <2>1, <3>1, LesserOfTwo
    <3> QED  BY <2>1, <3>1, <3>2
  <2>3. bars = i + 1 .. end /\ i + 1 <= end /\ i \in 1 .. n
    BY <1>1, <1>2, <2>1, <2>2
  <2>4. IsFiniteSet(bars) /\ bars # {} /\ bars \subseteq Int
    <3>1. PICK first \in Int : first = i + 1
      BY <1>2
    <3>2. IsFiniteSet(first .. end)
      BY FS_Interval
    <3>3. bars = first .. end /\ first <= end
      BY <2>3, <3>1
    <3>4. first \in bars /\ bars \subseteq Int
      <4>1. first \in first .. end /\ first .. end \subseteq Int
        BY <3>3
      <4> QED  BY <3>3, <4>1, Zenon
    <3> HIDE DEF bars
    <3>5. IsFiniteSet(bars) /\ bars # {}
      BY <3>2, <3>3, <3>4, Zenon
    <3> QED  BY <3>4, <3>5
  <2> HIDE DEF bars
  <2>5. Max(bars) \in bars
    BY <2>4, ExtremesExist
  <2>6. Max(bars) \in 1 .. n
    BY <1>2, <2>2, <2>3, <2>5
  <2>7. PICK entry, last \in Int : entry = Candles[i].close /\ last = Candles[Max(bars)].close
    BY <1>2, <2>3, <2>6
  <2>8. (last - entry) * dir \in Int /\ -g.sl \in Int /\ g.tp \in Int
    BY <1>2
  <2>9. TradeGain(g, i, dir) =
          CASE hits = {} -> (last - entry) * dir
            [] hits # {} /\ StopsOut(Candles[Min(hits)], dir, entry, g) -> -g.sl
            [] OTHER -> g.tp
    BY <2>7 DEF TradeGain, bars
  <2> HIDE DEF hits
  <2> QED  BY <2>8, <2>9
<1>5. ASSUME NEW i \in Entries(g) PROVE Gains(g)[i] \in Int
  <2>1. PICK dir \in {1, -1} : Gains(g)[i] = TradeGain(g, i, dir)
    BY DEF Gains
  <2> QED  BY <1>3, <1>4, <2>1
<1>6. IsFiniteSet(Entries(g)) /\ Entries(g) \subseteq Nat
  BY <1>2, <1>3, FS_Subset
<1> QED  BY <1>5, <1>6 DEF Gains

LEMMA DrawdownIsWhole ==
    ASSUME NEW gains, IsFiniteSet(DOMAIN gains), DOMAIN gains \subseteq Nat,
           \A i \in DOMAIN gains : gains[i] \in Int
    PROVE  MaxDrawdownOf(gains) \in Int
<1> DEFINE D == DOMAIN gains
           upTo(i) == {j \in D : j <= i}
           equity == [i \in D |-> Capital + TotalOf(gains, upTo(i))]
           peak == [i \in D |-> Max({Capital} \union {equity[j] : j \in upTo(i)})]
           fall == [i \in D |-> ((peak[i] - equity[i]) * 100) \div peak[i]]
<1>1. \A i \in D : IsFiniteSet(upTo(i)) /\ upTo(i) \subseteq D
  BY FS_Subset
<1>2. Capital \in Nat \ {0}
  BY EvolutionAssumption
<1>3. equity \in [D -> Int]
  <2>1. ASSUME NEW i \in D PROVE TotalOf(gains, upTo(i)) \in Int
    BY <1>1, TotalsAreWhole
  <2> QED  BY <1>2, <2>1
<1>4. ASSUME NEW i \in D PROVE peak[i] \in Nat \ {0}
  <2> DEFINE S == {Capital} \union {equity[j] : j \in upTo(i)}
  <2>1. IsFiniteSet({equity[j] : j \in D}) /\ {equity[j] : j \in D} \subseteq Int
    BY <1>3, ValuesAreFinite
  <2>2. {equity[j] : j \in upTo(i)} \subseteq {equity[j] : j \in D}
    BY <1>1
  <2>3. IsFiniteSet({equity[j] : j \in upTo(i)})
    BY <2>1, <2>2, FS_Subset
  <2>4. IsFiniteSet(S) /\ S # {} /\ S \subseteq Int /\ Capital \in S
    <3>1. IsFiniteSet({equity[j] : j \in upTo(i)} \union {Capital})
      BY <2>3, FS_AddElement
    <3>2. S = {equity[j] : j \in upTo(i)} \union {Capital}
      OBVIOUS
    <3>3. S # {} /\ Capital \in S
      OBVIOUS
    <3>4. {Capital} \subseteq Int
      BY <1>2
    <3>5. S \subseteq Int
      <4> HIDE DEF equity, upTo
      <4> QED  BY <2>1, <2>2, <3>4
    <3>6. IsFiniteSet(S)
      BY <3>1, <3>2, Zenon
    <3> HIDE DEF S
    <3> QED  BY <3>3, <3>5, <3>6
  <2> HIDE DEF S
  <2>5. Max(S) \in Int /\ Capital <= Max(S)
    BY <2>4, ExtremesExist
  <2>6. peak[i] = Max(S)
    BY DEF S
  <2> QED  BY <1>2, <2>5, <2>6
<1>5. fall \in [D -> Int]
  <2>1. ASSUME NEW i \in D PROVE fall[i] \in Int
    <3>1. PICK p \in Nat \ {0} : p = peak[i]
      BY <1>4
    <3>2. PICK e \in Int : e = equity[i]
      BY <1>3
    <3>3. ((p - e) * 100) \div p \in Int
      OBVIOUS
    <3> QED  BY <3>1, <3>2, <3>3
  <2> QED  BY <2>1
<1> HIDE DEF fall
<1>6. IsFiniteSet({0} \union {fall[i] : i \in D}) /\ {0} \union {fall[i] : i \in D} \subseteq Int
  <2>1. IsFiniteSet({fall[i] : i \in D}) /\ {fall[i] : i \in D} \subseteq Int
    BY <1>5, ValuesAreFinite
  <2>2. IsFiniteSet({fall[i] : i \in D} \union {0})
    BY <2>1, FS_AddElement
  <2>3. {0} \union {fall[i] : i \in D} = {fall[i] : i \in D} \union {0}
    OBVIOUS
  <2> QED  BY <2>1, <2>2, <2>3
<1>7. Max({0} \union {fall[i] : i \in D}) \in Int
  BY <1>6, ExtremesExist
<1>8. MaxDrawdownOf(gains) = Max({0} \union {fall[i] : i \in D})
  <2>1. \A i \in D : {equity[j] : j \in upTo(i)} = {Capital + TotalOf(gains, upTo(j)) : j \in upTo(i)}
    BY <1>1
  <2>2. \A i \in D : peak[i] = Max({Capital} \union {Capital + TotalOf(gains, upTo(j)) : j \in upTo(i)})
    BY <2>1
  <2>3. \A i \in D : fall[i] =
          ((Max({Capital} \union {Capital + TotalOf(gains, upTo(j)) : j \in upTo(i)})
             - (Capital + TotalOf(gains, upTo(i)))) * 100)
             \div Max({Capital} \union {Capital + TotalOf(gains, upTo(j)) : j \in upTo(i)})
    BY <2>2 DEF fall
  <2> QED  BY <2>3 DEF MaxDrawdownOf
<1> QED  BY <1>7, <1>8

LEMMA SharpeIsWhole ==
    ASSUME NEW gains, IsFiniteSet(DOMAIN gains), \A i \in DOMAIN gains : gains[i] \in Int
    PROVE  Sharpe(gains) \in Int
<1> DEFINE squared == [i \in DOMAIN gains |-> gains[i] * gains[i]]
<1>1. PICK sum, squares \in Int : sum = TotalOf(gains, DOMAIN gains) /\ squares = TotalOf(squared, DOMAIN gains)
  <2>1. \A i \in DOMAIN gains : squared[i] \in Int
    OBVIOUS
  <2> HIDE DEF squared
  <2> QED  BY <2>1, TotalsAreWhole
<1>2. PICK returns \in Int : returns = Len(Candles) - 1 - LookBack
  <2>1. PICK n, back \in Nat : n = Len(Candles) /\ back = LookBack
    BY CandlesAreBars, EvolutionAssumption
  <2>2. n - 1 - back \in Int
    OBVIOUS
  <2> QED  BY <2>1, <2>2
<1>3. PICK spread \in Int : spread = returns * squares - sum * sum
  OBVIOUS
<1>4. spread > 0 => Root(spread) \in Nat \ {0}
  <2> SUFFICES ASSUME spread > 0 PROVE Root(spread) \in Nat \ {0}
    OBVIOUS
  <2> DEFINE S == {r \in 1 .. spread : r * r <= spread}
  <2>1. 1 \in S
    OBVIOUS
  <2>2. IsFiniteSet(S) /\ S # {} /\ S \subseteq Int /\ \A r \in S : r \in Nat \ {0}
    <3>1. IsFiniteSet(1 .. spread)
      BY FS_Interval
    <3> QED  BY <2>1, <3>1, FS_Subset
  <2> HIDE DEF S
  <2>3. Max(S) \in S
    BY <2>2, ExtremesExist
  <2> QED  BY <2>2, <2>3 DEF Root, S
<1>5. Sharpe(gains) = IF returns > 1 /\ spread > 0 THEN (Annualised * sum) \div Root(spread) ELSE 0
  BY <1>1, <1>2, <1>3 DEF Sharpe
<1>6. ASSUME spread > 0 PROVE (Annualised * sum) \div Root(spread) \in Int
  <2>1. PICK root \in Nat \ {0} : root = Root(spread)
    BY <1>4, <1>6
  <2>2. PICK part \in Int : part = Annualised * sum
    BY DEF Annualised
  <2>3. part \div root \in Int
    OBVIOUS
  <2> QED  BY <2>1, <2>2, <2>3
<1> QED  BY <1>5, <1>6

LEMMA FitnessIsWhole ==
    ASSUME NEW g \in GeneVectors
    PROVE  GeFitness(g) \in Int /\ Judged(g) \in Int
<1> DEFINE gains == Gains(g)
           won == {i \in DOMAIN gains : gains[i] > 0}
<1>1. /\ IsFiniteSet(DOMAIN gains) /\ DOMAIN gains \subseteq Nat
      /\ \A i \in DOMAIN gains : gains[i] \in Int
  BY GainsAreWhole
<1> HIDE DEF gains
<1>2. IsFiniteSet(won) /\ IsFiniteSet(DOMAIN gains \ won) /\ won \subseteq DOMAIN gains
  BY <1>1, FS_Subset
<1>3. PICK trades, wins \in Nat : trades = Cardinality(DOMAIN gains) /\ wins = Cardinality(won)
  BY <1>1, <1>2, FS_CardinalityType
<1>4. PICK loss \in Nat : loss = 0 - TotalOf(gains, DOMAIN gains \ won)
  <2>1. \A i \in DOMAIN gains \ won : gains[i] \in Int /\ gains[i] <= 0
    BY <1>1
  <2>2. TotalOf(gains, DOMAIN gains \ won) \in Int /\ TotalOf(gains, DOMAIN gains \ won) <= 0
    BY <1>2, <2>1, TotalsAreWhole
  <2> QED  BY <2>2
<1>5. PICK profit \in Int : profit = TotalOf(gains, won)
  BY <1>1, <1>2, TotalsAreWhole
<1>6. PICK sharpe, fall \in Int : sharpe = Sharpe(gains) /\ fall = MaxDrawdownOf(gains)
  BY <1>1, SharpeIsWhole, DrawdownIsWhole
<1>7. PICK factor \in Int :
        factor = CASE loss # 0 -> (100 * profit) \div loss
                   [] loss = 0 /\ won # {} -> 150 [] OTHER -> 0
  <2>1. CASE loss # 0
    <3>1. PICK part \in Int : part = 100 * profit
      OBVIOUS
    <3>2. part \div loss \in Int
      BY <2>1
    <3> QED  BY <2>1, <3>1, <3>2
  <2>2. CASE loss = 0
    BY <2>2
  <2> QED  BY <2>1, <2>2
<1> HIDE DEF won
<1>8. \A x \in Int : Short(x) \in Int
  <2>1. ASSUME NEW x \in Int PROVE Short(x) \in Int
    <3>1. Max({0, x}) \in {0, x}
      <4>1. 0 \in Int
        OBVIOUS
      <4> QED  BY <4>1, GreaterOfTwo, Zenon
    <3> QED  BY <3>1 DEF Short
  <2> QED  BY <2>1
<1>9. ASSUME ~(trades < MinTrades) PROVE (100 * wins) \div trades \in Int
  <2>1. trades \in Nat \ {0}
    BY <1>9, EvolutionAssumption
  <2>2. PICK part \in Int : part = 100 * wins
    OBVIOUS
  <2> QED  BY <2>1, <2>2
<1>10. GeFitness(g) =
         IF trades < MinTrades THEN -500
         ELSE sharpe - 10 * Short(fall - 20) - 5 * Short(30 - (100 * wins) \div trades) - 2 * Short(150 - factor)
  BY <1>3, <1>4, <1>5, <1>6, <1>7, ZenonT(30) DEF GeFitness, gains, won
<1>11. GeFitness(g) \in Int
  <2>1. CASE trades < MinTrades
    BY <1>10, <2>1
  <2>2. CASE ~(trades < MinTrades)
    <3>1. PICK a, b, c \in Int : /\ a = Short(fall - 20) /\ b = Short(30 - (100 * wins) \div trades)
                                 /\ c = Short(150 - factor)
      BY <1>8, <1>9, <2>2
    <3> QED  BY <1>10, <2>2, <3>1
  <2> QED  BY <2>1, <2>2
<1> QED  BY <1>11 DEF Judged

Individual == [genes : GeneVectors, fitness : Int]

\* Every place is taken by someone, the first by the fittest.
LEMMA PlacesAreTaken ==
    ASSUME gePool \in Seq(Individual), NEW i \in DOMAIN gePool
    PROVE  /\ Elite(i) \in Individual /\ \E j \in DOMAIN gePool : Elite(i) = gePool[j]
           /\ i = 1 => \A k \in DOMAIN gePool : gePool[k].fitness <= Elite(i).fitness
<1> DEFINE D == DOMAIN gePool
           Ahead(j) == {k \in D : \/ gePool[k].fitness > gePool[j].fitness
                                  \/ gePool[k].fitness = gePool[j].fitness /\ k <= j}
           place == [j \in D |-> Place(j)]
<1>1. PICK n \in Nat : n = Len(gePool) /\ D = 1 .. n
  OBVIOUS
<1>2. PICK fit \in [D -> Int] : \A k \in D : fit[k] = gePool[k].fitness
  <2>1. \A k \in D : gePool[k] \in Individual
    OBVIOUS
  <2>2. [k \in D |-> gePool[k].fitness] \in [D -> Int]
    BY <2>1 DEF Individual
  <2> QED  BY <2>2
<1>3. \A j, k \in D : k \in Ahead(j) <=> fit[k] > fit[j] \/ (fit[k] = fit[j] /\ k <= j)
  BY <1>2
<1>4. IsFiniteSet(D) /\ Cardinality(D) = n
  <2>1. IsFiniteSet(1 .. n) /\ Cardinality(1 .. n) = IF 1 > n THEN 0 ELSE n - 1 + 1
    BY FS_Interval
  <2>2. (IF 1 > n THEN 0 ELSE n - 1 + 1) = n
    OBVIOUS
  <2> QED  BY <1>1, <2>1, <2>2
<1>5. \A j \in D : Ahead(j) \subseteq D /\ Place(j) = Cardinality(Ahead(j))
  BY DEF Place
<1> HIDE DEF Ahead
<1>6. \A j \in D : IsFiniteSet(Ahead(j)) /\ Place(j) \in Nat /\ Place(j) <= n
  BY <1>4, <1>5, FS_Subset, FS_CardinalityType
<1>7. \A j \in D : j \in Ahead(j)
  BY <1>1, <1>2, <1>3
<1>8. \A j \in D : Place(j) # 0
  BY <1>5, <1>6, <1>7, FS_EmptySet
<1>9. \A j \in D : Place(j) \in 1 .. n
  <2>1. ASSUME NEW j \in D PROVE Place(j) \in 1 .. n
    <3>1. PICK c \in Nat : c = Place(j)
      BY <1>6
    <3>2. c <= n /\ c # 0
      BY <1>6, <1>8, <3>1
    <3> QED  BY <3>1, <3>2
  <2> QED  BY <2>1
<1>10. ASSUME NEW j \in D, NEW k \in D, j # k, j \in Ahead(k) PROVE Place(j) # Place(k)
  <2>1. Ahead(j) \subseteq Ahead(k)
    BY <1>1, <1>2, <1>3, <1>5, <1>10
  <2>2. k \notin Ahead(j)
    BY <1>1, <1>2, <1>3, <1>10
  <2>3. Cardinality(Ahead(j)) # Cardinality(Ahead(k))
    BY <1>6, <1>7, <2>1, <2>2, FS_Subset
  <2> QED  BY <1>5, <2>3
<1>11. \A j, k \in D : j # k => j \in Ahead(k) \/ k \in Ahead(j)
  BY <1>1, <1>2, <1>3
<1>12. place \in Injection(D, D)
  <2>1. place \in [D -> D]
    BY <1>1, <1>9
  <2>2. \A j, k \in D : place[j] = place[k] => j = k
    BY <1>10, <1>11
  <2> QED  BY <2>1, <2>2 DEF Injection, IsInjective
<1>13. place \in Surjection(D, D)
  BY <1>4, <1>12, FS_Injection
<1>14. PICK j \in D : Place(j) = i /\ Elite(i) = gePool[j]
  <2>1. \E j \in D : Place(j) = i
    BY <1>13 DEF Surjection
  <2> DEFINE e == CHOOSE j \in D : Place(j) = i
  <2>2. e \in D /\ Place(e) = i
    BY <2>1
  <2>3. Elite(i) = gePool[e]
    BY DEF Elite
  <2> HIDE DEF e
  <2> QED  BY <2>2, <2>3
<1>15. ASSUME i = 1, NEW k \in D PROVE fit[k] <= fit[j]
  <2>1. SUFFICES ASSUME ~(fit[k] <= fit[j]) PROVE FALSE
    OBVIOUS
  <2>2. k \in Ahead(j) /\ j \in Ahead(j) /\ k # j
    BY <1>1, <1>2, <1>3, <1>7, <2>1
  <2>3. Cardinality({k, j}) = 2 /\ {k, j} \subseteq Ahead(j)
    <3>1. IsFiniteSet({k}) /\ Cardinality({k}) = 1
      BY FS_Singleton
    <3>2. Cardinality({k} \union {j}) = 2
      <4>1. j \notin {k}
        BY <2>2
      <4>2. Cardinality({k} \union {j}) = Cardinality({k}) + 1
        BY <3>1, <4>1, FS_AddElement
      <4>3. Cardinality({k} \union {j}) = 1 + 1
        BY <3>1, <4>2, Zenon
      <4>4. 1 + 1 = 2
        OBVIOUS
      <4> QED  BY <4>3, <4>4, Zenon
    <3>3. {k} \union {j} = {k, j}
      OBVIOUS
    <3> QED  BY <2>2, <3>2, <3>3
  <2>4. 2 <= Cardinality(Ahead(j))
    BY <1>6, <2>3, FS_Subset
  <2>5. Cardinality(Ahead(j)) = 1
    BY <1>5, <1>14, <1>15
  <2> QED  BY <2>4, <2>5
<1>16. gePool[j] \in Individual
  OBVIOUS
<1> QED  BY <1>2, <1>14, <1>15, <1>16

\* A population has someone in it, and each has its genes and a number for its fitness.
EvolutionInv == gePool \in Seq(Individual) /\ gePool # <<>>

LEMMA ScoringScores ==
    ASSUME EvolutionInv, ScoreGeneration
    PROVE  EvolutionInv'
<1>1. PICK n \in Nat : n = Len(gePool) /\ DOMAIN gePool = 1 .. n /\ n # 0
  BY DEF EvolutionInv
<1>2. gePool' = [i \in 1 .. n |-> [gePool[i] EXCEPT !.fitness = Judged(gePool[i].genes)]]
  BY <1>1 DEF ScoreGeneration
<1>3. ASSUME NEW i \in 1 .. n PROVE gePool'[i] \in Individual
  <2>1. gePool[i] \in Individual
    BY <1>1 DEF EvolutionInv
  <2>2. gePool[i].genes \in GeneVectors
    BY <2>1 DEF Individual
  <2>3. PICK score \in Int : score = Judged(gePool[i].genes)
    BY <2>2, FitnessIsWhole
  <2>4. gePool'[i] = [gePool[i] EXCEPT !.fitness = score]
    BY <1>2, <2>3
  <2> QED  BY <2>1, <2>4 DEF Individual
<1>4. DOMAIN gePool' = 1 .. n /\ gePool' = [i \in 1 .. n |-> gePool'[i]]
  BY <1>2
<1> HIDE DEF Individual
<1>5. gePool' \in Seq(Individual)
  BY <1>3, <1>4
<1>6. gePool' # <<>>
  BY <1>1, <1>4
<1> QED  BY <1>5, <1>6 DEF EvolutionInv

LEMMA BreedingFills ==
    ASSUME EvolutionInv, Evolve
    PROVE  EvolutionInv'
<1>1. PICK n \in Nat : n = Len(gePool) /\ DOMAIN gePool = 1 .. n /\ 1 \in 1 .. n
  BY DEF EvolutionInv
<1>2. gePool \in Seq(Individual) /\ EliteCount \in Nat \ {0}
  BY EvolutionAssumption DEF EvolutionInv
<1>3. PICK born \in [EliteCount + 1 .. n -> Children] :
        gePool' = [i \in 1 .. n |-> IF i <= EliteCount THEN Elite(i) ELSE born[i]]
  BY <1>1 DEF Evolve
<1>4. Children \subseteq Individual
  <2>1. ASSUME NEW i \in Winners PROVE gePool[i].genes \in GeneVectors
    <3>1. i \in 1 .. n
      BY <1>1 DEF Winners
    <3>2. gePool[i] \in Individual
      BY <1>1, <1>2, <3>1
    <3> QED  BY <3>2 DEF Individual
  <2>2. \A g \in GeneVectors : Newborn(g) \in Individual
    BY DEF Newborn, Individual, Unscored
  <2> QED  BY <2>1, <2>2, ChildrenHaveGenes DEF Children
<1>5. \A i \in 1 .. n : gePool'[i] \in Individual
  <2>1. ASSUME NEW i \in 1 .. n PROVE gePool'[i] \in Individual
    <3>1. CASE i <= EliteCount
      BY <1>1, <1>2, <1>3, <3>1, PlacesAreTaken
    <3>2. CASE ~(i <= EliteCount)
      <4>1. i \in EliteCount + 1 .. n
        BY <1>2, <3>2
      <4> QED  BY <1>3, <1>4, <3>2, <4>1
    <3> QED  BY <3>1, <3>2
  <2> QED  BY <2>1
<1>6. gePool' \in Seq(Individual) /\ gePool' # <<>>
  BY <1>1, <1>3, <1>5
<1> QED  BY <1>6 DEF EvolutionInv

\* The first population has its genes.
LEMMA EvolutionStarts == GeInit => EvolutionInv
<1>1. SUFFICES ASSUME GeInit PROVE EvolutionInv
  OBVIOUS
<1>2. PICK pool \in FirstPools : gePool = [i \in DOMAIN pool |-> Newborn(pool[i])]
  BY <1>1 DEF GeInit
<1>3. pool \in Seq(GeneVectors) /\ pool # <<>>
  BY <1>2, EvolutionAssumption DEF GeneVectors
<1>4. PICK n \in Nat : n = Len(pool) /\ DOMAIN pool = 1 .. n /\ n # 0
  BY <1>3
<1>5. \A i \in 1 .. n : Newborn(pool[i]) \in Individual
  BY <1>3, <1>4 DEF Newborn, Individual, Unscored
<1>6. gePool = [i \in 1 .. n |-> Newborn(pool[i])]
  BY <1>2, <1>4
<1>7. gePool \in Seq(Individual) /\ gePool # <<>>
  BY <1>4, <1>5, <1>6
<1> QED  BY <1>7 DEF EvolutionInv

\* A population that is scored or bred.
LEMMA EvolutionKeeps == EvolutionInv /\ [GeNext]_geVars => EvolutionInv'
<1>1. ASSUME EvolutionInv, ScoreGeneration PROVE EvolutionInv'
  BY <1>1, ScoringScores
<1>2. ASSUME EvolutionInv, Evolve PROVE EvolutionInv'
  BY <1>2, BreedingFills
<1>3. ASSUME EvolutionInv, UNCHANGED geVars PROVE EvolutionInv'
  BY <1>3, Zenon DEF EvolutionInv, geVars
<1> QED  BY <1>1, <1>2, <1>3 DEF GeNext

\* A vector of genes within the bounds of its genes.
Within(g) == \A n \in Genes : Min(GeneValues[n]) <= g[n] /\ g[n] <= Max(GeneValues[n])

\* The bounds of a gene are two of its values, and none of its values is beyond them.
LEMMA BoundsOfGenes ==
    ASSUME NEW n \in Genes
    PROVE  /\ Min(GeneValues[n]) \in Nat /\ Max(GeneValues[n]) \in Nat
           /\ Min(GeneValues[n]) \in GeneValues[n] /\ Max(GeneValues[n]) \in GeneValues[n]
           /\ \A v \in GeneValues[n] : Min(GeneValues[n]) <= v /\ v <= Max(GeneValues[n])
<1> DEFINE S == GeneValues[n]
<1>1. IsFiniteSet(S) /\ S # {} /\ S \subseteq Nat
  BY EvolutionAssumption
<1> HIDE DEF S
<1>2. S \subseteq Int
  BY <1>1
<1>3. /\ Max(S) \in S /\ \A y \in S : y <= Max(S)
      /\ Min(S) \in S /\ \A y \in S : Min(S) <= y
  BY <1>1, <1>2, ExtremesExist
<1>4. Min(S) \in Nat /\ Max(S) \in Nat
  BY <1>1, <1>3
<1> QED  BY <1>3, <1>4, Zenon DEF S

LEMMA ClampsAreWithin ==
    ASSUME NEW n \in Genes, NEW v \in Int
    PROVE  Min(GeneValues[n]) <= Clamp(n, v) /\ Clamp(n, v) <= Max(GeneValues[n])
<1>1. PICK low, high \in Nat : low = Min(GeneValues[n]) /\ high = Max(GeneValues[n]) /\ low <= high
  <2>1. Min(GeneValues[n]) <= Max(GeneValues[n])
    BY BoundsOfGenes
  <2> QED  BY <2>1, BoundsOfGenes
<1>2. PICK least \in Int : least = Min({high, v}) /\ least <= high
  BY LesserOfTwo
<1>3. Max({low, least}) \in {low, least} /\ low <= Max({low, least})
  BY GreaterOfTwo
<1> DEFINE m == Max({low, least})
<1> HIDE DEF m
<1>4. low <= m /\ m <= high
  BY <1>1, <1>2, <1>3 DEF m
<1>5. Clamp(n, v) = m
  BY <1>1, <1>2, Zenon DEF Clamp, m
<1> QED  BY <1>1, <1>4, <1>5

\* Repairs keep to the bounds: the weights have 0 and 1 among theirs, and there is a target
\* above every stop.
LEMMA RepairsAreWithin ==
    ASSUME NEW g \in GeneVectors, Within(g)
    PROVE  Within(Repaired(g))
<1>0. "sl" \in Genes /\ "tp" \in Genes /\ "trend" \in Genes /\ "momentum" \in Genes
  BY EvolutionAssumption
<1>1. PICK s, t \in Nat : s = g["sl"] /\ t = g["tp"]
  BY <1>0 DEF GeneVectors
<1>2. PICK trend, rest, above \in Nat :
        /\ trend <= 12 /\ rest <= 12 /\ above = IF t <= s THEN s + 1 ELSE t
        /\ Repaired(g) = [g EXCEPT !.trend = trend, !.momentum = rest, !.tp = above]
  <2>1. \E trend, rest, above \in Nat :
          /\ trend <= 12 /\ rest <= 12
          /\ above = IF g["tp"] <= g["sl"] THEN g["sl"] + 1 ELSE g["tp"]
          /\ Repaired(g) = [g EXCEPT !.trend = trend, !.momentum = rest, !.tp = above]
    BY RepairsOf, Zenon
  <2> QED  BY <1>1, <2>1
<1>3. ASSUME NEW n \in {"trend", "momentum"}, NEW x \in Nat, x <= 12
      PROVE  Min(GeneValues[n]) <= x /\ x <= Max(GeneValues[n])
  <2>1. n \in Genes /\ 0 \in GeneValues[n] /\ 12 \in GeneValues[n]
    BY <1>0, EvolutionAssumption DEF WeightUnit12
  <2>2. PICK low, high \in Nat : low = Min(GeneValues[n]) /\ high = Max(GeneValues[n])
    BY <2>1, BoundsOfGenes
  <2>3. low <= 0 /\ 12 <= high
    BY <2>1, <2>2, BoundsOfGenes
  <2>4. low <= x /\ x <= high
    BY <1>3, <2>3
  <2> QED  BY <2>2, <2>4
<1>4. Min(GeneValues["tp"]) <= above /\ above <= Max(GeneValues["tp"])
  <2>1. PICK high \in Nat : high = Max(GeneValues["sl"]) /\ high \in GeneValues["sl"] /\ s <= high
    BY <1>0, <1>1, BoundsOfGenes DEF Within
  <2>2. PICK beyond \in GeneValues["tp"] : high < beyond
    BY <2>1, EvolutionAssumption
  <2>3. PICK least, most \in Nat : least = Min(GeneValues["tp"]) /\ most = Max(GeneValues["tp"])
    BY <1>0, BoundsOfGenes
  <2>4. beyond \in Nat /\ beyond <= most
    <3>1. GeneValues["tp"] \subseteq Nat
      BY <1>0, EvolutionAssumption
    <3>2. beyond <= Max(GeneValues["tp"])
      BY <1>0, BoundsOfGenes
    <3> QED  BY <2>3, <3>1, <3>2
  <2>5. least <= t /\ t <= most
    BY <1>0, <1>1, <2>3 DEF Within
  <2>6. least <= above /\ above <= most
    BY <1>1, <1>2, <2>1, <2>2, <2>4, <2>5
  <2> QED  BY <2>3, <2>6
<1>5. /\ Min(GeneValues["trend"]) <= trend /\ trend <= Max(GeneValues["trend"])
      /\ Min(GeneValues["momentum"]) <= rest /\ rest <= Max(GeneValues["momentum"])
  BY <1>2, <1>3
<1>6. ASSUME NEW n \in Genes
      PROVE  Min(GeneValues[n]) <= Repaired(g)[n] /\ Repaired(g)[n] <= Max(GeneValues[n])
  <2> DEFINE r == Repaired(g)
  <2>1. /\ r["trend"] = trend /\ r["momentum"] = rest /\ r["tp"] = above
        /\ n \notin {"trend", "momentum", "tp"} => r[n] = g[n]
    BY <1>0, <1>2 DEF GeneVectors
  <2> HIDE DEF r
  <2>2. CASE n = "trend"
    BY <1>5, <2>1, <2>2, Zenon DEF r
  <2>3. CASE n = "momentum"
    BY <1>5, <2>1, <2>3, Zenon DEF r
  <2>4. CASE n = "tp"
    BY <1>4, <2>1, <2>4, Zenon DEF r
  <2>5. CASE n \notin {"trend", "momentum", "tp"}
    <3>1. r[n] = g[n]
      BY <2>1, <2>5
    <3>2. Min(GeneValues[n]) <= g[n] /\ g[n] <= Max(GeneValues[n])
      BY Zenon DEF Within
    <3> QED  BY <3>1, <3>2, Zenon DEF r
  <2> QED  BY <2>2, <2>3, <2>4, <2>5
<1> QED  BY <1>6 DEF Within

LEMMA ChildrenAreWithin ==
    ASSUME NEW p \in GeneVectors, NEW q \in GeneVectors, Within(p), Within(q),
           NEW c \in Crossovers(p, q), NEW m \in Mutations(c)
    PROVE  Within(Projected(m))
<1>1. c \in GeneVectors /\ Within(c)
  <2>1. PICK S \in SUBSET Genes : c = [n \in Genes |-> IF n \in S THEN p[n] ELSE q[n]]
    BY DEF Crossovers
  <2>2. c \in GeneVectors /\ \A n \in Genes : c[n] \in {p[n], q[n]}
    BY <2>1 DEF GeneVectors
  <2> QED  BY <2>2 DEF Within
<1>2. m \in GeneVectors /\ Within(m)
  <2>1. ASSUME NEW n \in Genes, NEW d \in {-6, 6}, m = [c EXCEPT ![n] = Clamp(n, @ + d)]
        PROVE  m \in GeneVectors /\ Within(m)
    <3>1. PICK v \in Nat : v = Clamp(n, c[n] + d)
      BY <1>1, ClampsAreGenes DEF GeneVectors
    <3>2. c[n] + d \in Int
      BY <1>1 DEF GeneVectors
    <3>3. Min(GeneValues[n]) <= v /\ v <= Max(GeneValues[n])
      BY <3>1, <3>2, ClampsAreWithin
    <3>4. m = [c EXCEPT ![n] = v]
      BY <2>1, <3>1
    <3>5. m \in GeneVectors /\ \A k \in Genes : m[k] = IF k = n THEN v ELSE c[k]
      BY <1>1, <3>4 DEF GeneVectors
    <3> QED  BY <1>1, <3>3, <3>5 DEF Within
  <2> QED  BY <1>1, <2>1 DEF Mutations
<1>3. Within(Repaired(m))
  BY <1>2, RepairsAreWithin
<1>4. Within([n \in Genes |-> Clamp(n, Repaired(m)[n])])
  <2>1. ASSUME NEW n \in Genes PROVE Repaired(m)[n] \in Int
    <3>1. PICK low, high \in Nat : low = Min(GeneValues[n]) /\ high = Max(GeneValues[n])
      BY BoundsOfGenes
    <3>2. Repaired(m) \in GeneVectors
      BY <1>2, RepairsOf, ZenonT(30) DEF GeneVectors
    <3> QED  BY <3>2 DEF GeneVectors
  <2>2. \A n \in Genes : /\ Min(GeneValues[n]) <= Clamp(n, Repaired(m)[n])
                         /\ Clamp(n, Repaired(m)[n]) <= Max(GeneValues[n])
    BY <2>1, ClampsAreWithin
  <2> QED  BY <2>2 DEF Within
<1> QED  BY <1>2, <1>3, <1>4, Zenon DEF Projected

\* What every population keeps to.
PopulationInv ==
    /\ \A i \in DOMAIN gePool : Within(gePool[i].genes)
    /\ gePc \in {"first", "scored", "bred"}

LEMMA GenomesAreVectors ==
    ASSUME EvolutionInv, NEW i \in DOMAIN gePool
    PROVE  gePool[i] \in Individual /\ gePool[i].genes \in GeneVectors
<1>1. gePool[i] \in Individual
  <2>1. gePool \in Seq(Individual)
    BY DEF EvolutionInv
  <2> QED  BY <2>1
<1> QED  BY <1>1 DEF Individual

LEMMA PopulationsKeep ==
    ASSUME EvolutionInv, PopulationInv, [GeNext]_geVars
    PROVE  PopulationInv'
<1>1. PICK n \in Nat : n = Len(gePool) /\ DOMAIN gePool = 1 .. n
  BY DEF EvolutionInv
<1>2. /\ gePool \in Seq(Individual)
      /\ \A i \in 1 .. n : gePool[i] \in Individual /\ gePool[i].genes \in GeneVectors /\ Within(gePool[i].genes)
  <2>1. gePool \in Seq(Individual)
    BY DEF EvolutionInv
  <2>2. \A i \in DOMAIN gePool : gePool[i] \in Individual /\ gePool[i].genes \in GeneVectors
    BY GenomesAreVectors
  <2>3. \A i \in DOMAIN gePool : Within(gePool[i].genes)
    BY DEF PopulationInv
  <2> QED  BY <1>1, <2>1, <2>2, <2>3
<1>3. CASE ScoreGeneration
  <2>1. /\ gePc' = "scored"
        /\ gePool' = [i \in 1 .. n |-> [gePool[i] EXCEPT !.fitness = Judged(gePool[i].genes)]]
    BY <1>1, <1>3, Zenon DEF ScoreGeneration
  <2>2. \A i \in 1 .. n : gePool'[i].genes = gePool[i].genes
    BY <1>2, <2>1 DEF Individual
  <2>3. \A i \in DOMAIN gePool' : Within(gePool'[i].genes)
    BY <1>2, <2>1, <2>2
  <2> QED  BY <2>1, <2>3 DEF PopulationInv
<1>4. CASE Evolve
  <2>1. PICK born \in [EliteCount + 1 .. n -> Children] :
          gePool' = [i \in 1 .. n |-> IF i <= EliteCount THEN Elite(i) ELSE born[i]]
    BY <1>1, <1>4 DEF Evolve
  <2>2. gePc' = "bred"
    BY <1>4 DEF Evolve
  <2>3. ASSUME NEW child \in Children PROVE Within(child.genes)
    <3>1. PICK i \in Winners, j \in Winners :
            \E c \in Crossovers(gePool[i].genes, gePool[j].genes) :
              \E m \in Mutations(c) : child = Newborn(Projected(m))
      BY DEF Children
    <3>4. PICK c \in Crossovers(gePool[i].genes, gePool[j].genes) :
            \E m \in Mutations(c) : child = Newborn(Projected(m))
      BY <3>1
    <3>5. PICK m \in Mutations(c) : child = Newborn(Projected(m))
      BY <3>4
    <3>2. i \in 1 .. n /\ j \in 1 .. n
      BY <1>1 DEF Winners
    <3>3. Within(Projected(m))
      BY <1>2, <3>2, ChildrenAreWithin
    <3> QED  BY <3>3, <3>5 DEF Newborn
  <2>4. ASSUME NEW i \in 1 .. n PROVE Within(gePool'[i].genes)
    <3>1. CASE i <= EliteCount
      <4>1. PICK j \in DOMAIN gePool : Elite(i) = gePool[j]
        BY <1>1, <1>2, PlacesAreTaken
      <4> QED  BY <1>1, <1>2, <2>1, <3>1, <4>1
    <3>2. CASE ~(i <= EliteCount)
      <4>1. i \in EliteCount + 1 .. n
        BY <3>2, EvolutionAssumption
      <4>2. gePool'[i] = born[i] /\ born[i] \in Children
        BY <2>1, <3>2, <4>1
      <4> QED  BY <2>3, <4>2
    <3> QED  BY <3>1, <3>2
  <2>5. DOMAIN gePool' = 1 .. n
    BY <2>1
  <2> QED  BY <2>2, <2>4, <2>5 DEF PopulationInv
<1>5. CASE UNCHANGED geVars
  BY <1>5, Zenon DEF PopulationInv, geVars
<1> QED  BY <1>3, <1>4, <1>5 DEF GeNext

\* Whatever the candles and the entry rules, the score of a genome is a number; and whatever
\* crossovers, mutations and repairs a child goes through, its genes stay in their bounds,
\* though only what cannot be repaired is clamped after the repair: for any genes whose
\* weights may be nothing or all and whose targets reach beyond every stop
\* (genetic_optimizer.py:271-306, 1121-1230).
THEOREM GeneTypes == GeSpec => []GeTypeOK
<1>1. GeInit => PopulationInv
  <2>1. SUFFICES ASSUME GeInit PROVE PopulationInv
    OBVIOUS
  <2>2. PICK pool \in FirstPools : gePool = [i \in DOMAIN pool |-> Newborn(pool[i])]
    BY <2>1 DEF GeInit
  <2>3. ASSUME NEW i \in DOMAIN pool PROVE Within(gePool[i].genes)
    <3>1. \A n \in Genes : pool[i][n] \in GeneValues[n]
      BY <2>2, EvolutionAssumption
    <3>2. gePool[i].genes = pool[i]
      BY <2>2 DEF Newborn
    <3> QED  BY <3>1, <3>2, BoundsOfGenes DEF Within
  <2>4. DOMAIN gePool = DOMAIN pool
    BY <2>2
  <2>5. gePc = "first"
    BY <2>1 DEF GeInit
  <2> QED  BY <2>3, <2>4, <2>5 DEF PopulationInv
<1>2. EvolutionInv /\ PopulationInv /\ [GeNext]_geVars => PopulationInv'
  BY PopulationsKeep
<1>3. EvolutionInv /\ PopulationInv => GeTypeOK
  <2> SUFFICES ASSUME EvolutionInv, PopulationInv PROVE GeTypeOK
    OBVIOUS
  <2>1. \A i \in DOMAIN gePool : gePool[i].fitness \in Int /\ DOMAIN gePool[i].genes = Genes
    BY GenomesAreVectors DEF GeneVectors, Individual
  <2>2. \A i \in DOMAIN gePool : \A n \in Genes : /\ gePool[i].genes[n] >= Min(GeneValues[n])
                                                  /\ gePool[i].genes[n] <= Max(GeneValues[n])
    <3>1. ASSUME NEW i \in DOMAIN gePool, NEW n \in Genes
          PROVE  gePool[i].genes[n] >= Min(GeneValues[n]) /\ gePool[i].genes[n] <= Max(GeneValues[n])
      <4>1. PICK v \in Nat : v = gePool[i].genes[n]
        BY GenomesAreVectors DEF GeneVectors
      <4>2. PICK low, high \in Nat : low = Min(GeneValues[n]) /\ high = Max(GeneValues[n])
        BY BoundsOfGenes
      <4>3. low <= v /\ v <= high
        BY <4>1, <4>2 DEF PopulationInv, Within
      <4> QED  BY <4>1, <4>2, <4>3
    <3> QED  BY <3>1
  <2> QED  BY <2>1, <2>2, Zenon DEF PopulationInv, GeTypeOK
<1> QED  BY <1>1, <1>2, <1>3, EvolutionStarts, EvolutionKeeps, PTL DEF GeSpec

-----------------------------------------------------------------------------
(* Signals and regimes (config/tasks.py, strategies/regime_switcher.py).    *)

Totals == {Confluence(SignalsFrom(r)).total : r \in Fetches}

\* While a task runs, each of its attempts before this one has left a score at most, and
\* none a signal.
SignalsInv ==
    /\ sgJob \in Jobs /\ sgPc \in {"idle", "run", "done", "failed"}
    /\ sgTries \in 0 .. Max({SignalRetries, IndicatorRetries})
    /\ sgScores \in Seq(Totals) /\ sgSignals \in Seq({"LONG", "SHORT"})
    /\ sgPc = "run" => sgSignals = <<>> /\ Len(sgScores) <= sgTries
    /\ OneSignalPerTask

RegimeInv == sgRegime \in Regimes \union {"unknown"} /\ sgChanges \in 0 .. HistoryMax

LEMMA TheLarger ==
    ASSUME NEW a \in Int, NEW b \in Int
    PROVE  Max({a, b}) \in {a, b} /\ Max({a, b}) >= a /\ Max({a, b}) >= b
<1>1. \E x \in {a, b} : \A y \in {a, b} : x >= y
  <2>1. CASE a >= b
    BY <2>1
  <2>2. CASE b >= a
    BY <2>2
  <2> QED  BY <2>1, <2>2
<1> QED  BY <1>1 DEF Max

LEMMA SomeTries ==
    /\ SignalRetries \in Nat /\ IndicatorRetries \in Nat
    /\ Max({SignalRetries, IndicatorRetries}) \in Nat
    /\ \A limit \in {SignalRetries, IndicatorRetries} : limit <= Max({SignalRetries, IndicatorRetries})
BY SignalAssumption, TheLarger

LEMMA RetryKeeps ==
    ASSUME SignalsInv, sgPc = "run", NEW limit \in {SignalRetries, IndicatorRetries}, Retry(limit)
    PROVE  /\ sgPc' \in {"run", "failed"} /\ sgTries' \in 0 .. Max({SignalRetries, IndicatorRetries})
           /\ sgTries' >= sgTries
           /\ sgPc' = "run" => sgTries' = sgTries + 1
BY SomeTries DEF Retry, SignalsInv

LEMMA SignalsStart == SgInit => SignalsInv /\ RegimeInv
<1> SUFFICES ASSUME SgInit PROVE SignalsInv /\ RegimeInv  OBVIOUS
<1>1. 0 \in 0 .. Max({SignalRetries, IndicatorRetries}) /\ 0 \in 0 .. HistoryMax
  BY SignalAssumption, SomeTries
<1> QED  BY <1>1 DEF SgInit, SignalsInv, RegimeInv, OneSignalPerTask, Jobs, Regimes

\* What an attempt stores: the score first, the signal with the end of the task only.
LEMMA StoreKeeps ==
    ASSUME SignalsInv, sgPc = "run", NEW r \in Fetches, NEW h1 \in BOOLEAN,
           StoreResults(Confluence(SignalsFrom(r)), h1), UNCHANGED sgJob
    PROVE  SignalsInv'
<1> DEFINE c == Confluence(SignalsFrom(r))
<1>1. c.total \in Totals
  BY DEF Totals
<1>2. c.direction \in {"LONG", "SHORT", "NEUTRAL"}
  BY DEF Confluence
<1>3. sgSignals = <<>> /\ Len(sgScores) <= sgTries /\ sgTries \in Nat /\ sgTries \in Int /\ Len(sgScores) \in Nat
  BY DEF SignalsInv
<1>4. StoreResults(c, h1)
  OBVIOUS
<1> HIDE DEF c
<1>5. CASE ~Fits(c.total)
  <2>1. sgScores' = sgScores /\ sgSignals' = sgSignals /\ Retry(SignalRetries)
    BY <1>4, <1>5 DEF StoreResults
  <2> QED  BY <1>3, <2>1, RetryKeeps DEF SignalsInv, OneSignalPerTask
<1>6. CASE Fits(c.total)
  <2>1. sgScores' = Append(sgScores, c.total)
    BY <1>4, <1>6 DEF StoreResults
  <2>2. /\ sgScores' \in Seq(Totals) /\ Len(sgScores') = Len(sgScores) + 1 /\ sgScores' # <<>>
        /\ sgScores'[Len(sgScores')] = c.total
    BY <1>1, <1>3, <2>1 DEF SignalsInv
  <2>3. CASE ShouldTrade(c) /\ h1
    <3>1. sgSignals' = <<c.direction>> /\ sgPc' = "done" /\ sgTries' = sgTries
      BY <1>3, <1>4, <1>6, <2>3, SMTT(30) DEF StoreResults, TaskDone
    <3>2. c.direction \in {"LONG", "SHORT"} /\ c.total >= 55
      BY <1>2, <2>3 DEF ShouldTrade
    <3> QED  BY <1>3, <2>2, <3>1, <3>2 DEF SignalsInv, OneSignalPerTask
  <2>4. CASE ~(ShouldTrade(c) /\ h1)
    <3>1. sgSignals' = <<>>
      BY <1>3, <1>4, <2>4 DEF StoreResults
    <3>2. CASE ShouldTrade(c) => h1
      <4>1. sgPc' = "done" /\ sgTries' = sgTries
        BY <1>4, <1>6, <3>2 DEF StoreResults, TaskDone
      <4> QED  BY <1>3, <2>2, <3>1, <4>1 DEF SignalsInv, OneSignalPerTask
    <3>3. CASE ~(ShouldTrade(c) => h1)
      <4>1. Retry(SignalRetries)
        BY <1>4, <1>6, <3>3 DEF StoreResults
      <4> QED  BY <1>3, <2>2, <3>1, <4>1, RetryKeeps DEF SignalsInv, OneSignalPerTask
    <3> QED  BY <3>2, <3>3
  <2> QED  BY <2>3, <2>4
<1> QED  BY <1>5, <1>6

LEMMA TasksKeep ==
    ASSUME SignalsInv, TaskNext \/ UNCHANGED taskVars
    PROVE  SignalsInv'
<1>1. ASSUME NEW j \in Jobs, StartTask(j) PROVE SignalsInv'
  <2>1. 0 \in 0 .. Max({SignalRetries, IndicatorRetries})
    BY SomeTries
  <2> QED  BY <1>1, <2>1 DEF StartTask, SignalsInv, OneSignalPerTask
<1>2. ASSUME NEW r \in Fetches, NEW s \in BOOLEAN, NEW h1 \in BOOLEAN, GenerateSignals(r, s, h1) PROVE SignalsInv'
  <2>1. CASE s
    BY <1>2, <2>1, StoreKeeps DEF GenerateSignals
  <2>2. CASE ~s
    BY <1>2, <2>2, RetryKeeps DEF GenerateSignals, SignalsInv, OneSignalPerTask
  <2> QED  BY <2>1, <2>2
<1>3. ASSUME NEW ok \in BOOLEAN, CalculateIndicators(ok) PROVE SignalsInv'
  <2>1. CASE ok
    BY <1>3, <2>1 DEF CalculateIndicators, TaskDone, SignalsInv, OneSignalPerTask
  <2>2. CASE ~ok
    BY <1>3, <2>2, RetryKeeps DEF CalculateIndicators, SignalsInv, OneSignalPerTask
  <2> QED  BY <2>1, <2>2
<1>4. CASE UNCHANGED taskVars
  BY <1>4 DEF taskVars, SignalsInv, OneSignalPerTask
<1> QED  BY <1>1, <1>2, <1>3, <1>4 DEF TaskNext

LEMMA RegimesKeep ==
    ASSUME RegimeInv, RegimeNext \/ UNCHANGED regimeVars
    PROVE  RegimeInv'
<1>1. ASSUME NEW r \in Regimes \union {"unknown"}, Switched(r) PROVE RegimeInv'
  BY <1>1, SignalAssumption DEF Switched, RegimeInv
<1>2. CASE DetectRegime
  <2>1. ASSUME NEW r \in Regimes \union {"unknown"}, NEW c \in BOOLEAN, FromModel(r, c) PROVE RegimeInv'
    BY <1>1, <2>1 DEF FromModel, RegimeInv
  <2>2. ASSUME NEW i \in BOOLEAN, NEW v \in BOOLEAN, NEW n \in BOOLEAN, NEW adx \in {19, 20, 30, 31},
               FromIndicators(i, v, adx, n)
        PROVE  RegimeInv'
    BY <1>1, <2>2 DEF FromIndicators, Regimes
  <2> QED  BY <1>2, <2>1, <2>2 DEF DetectRegime
<1>3. ASSUME NEW s \in {"BUY", "SELL"}, NEW a \in {0, 1}, PlanOrder(s, 100, a, 80, 120) PROVE RegimeInv'
  BY <1>3 DEF PlanOrder, RegimeInv
<1>4. CASE UNCHANGED regimeVars
  BY <1>4 DEF regimeVars, RegimeInv
<1> QED  BY <1>2, <1>3, <1>4 DEF RegimeNext

LEMMA SignalsHold == SignalsInv /\ RegimeInv => SgTypeOK
BY DEF SignalsInv, RegimeInv, SgTypeOK

\* However often a task is retried after storing part of its rows, it leaves one signal at
\* most, with its last score; the switcher's history keeps to its limit
\* (config/tasks.py:110-214, strategies/regime_switcher.py:102-139).
THEOREM SignalTypes == SgSpec => []SgTypeOK
<1>1. ASSUME TaskNext PROVE UNCHANGED regimeVars
  BY <1>1 DEF TaskNext, StartTask, GenerateSignals, CalculateIndicators
<1>2. ASSUME RegimeNext PROVE UNCHANGED taskVars
  BY <1>2 DEF RegimeNext, DetectRegime, PlanOrder
<1>3. SignalsInv /\ RegimeInv /\ [SgNext]_sgVars => (SignalsInv /\ RegimeInv)'
  BY <1>1, <1>2, TasksKeep, RegimesKeep DEF SgNext, sgVars
<1> QED  BY <1>3, SignalsStart, SignalsHold, PTL DEF SgSpec

-----------------------------------------------------------------------------
(* The risk rules (risk_management/models.py, profit_target_manager.py).   *)

Creating == {w \in Workers : rrSaw[w] = "create"}

\* Who is about to create a settings row found none; so rows and such workers together are
\* no more than the workers.
RiskInv ==
    /\ rrDrawdown \in Drawdowns \union {0} /\ rrPnl \in Int /\ rrLoss \in Nat
    /\ rrCount \in 0 .. MaxCount /\ rrStreak \in 0 .. MaxStreak + 1
    /\ rrFlags \subseteq {"daily_loss", "drawdown", "target", "max_trades", "breaker"}
    /\ rrDay \in 1 .. MaxDays
    /\ rrClosed \in Seq(Int) /\ Len(rrClosed) = rrCount /\ DayMetrics(rrClosed).pnl = rrPnl
    /\ rrRisk \in Int /\ rrRisk <= StartEquity
    /\ \A t \in rrTargets : t.day \in 1 .. rrDay /\ t.daily \in MinTarget .. MaxTarget
    /\ rrSettings \in Nat /\ rrSaw \in [Workers -> {"nothing", "create", "row", "raised"}]
    /\ rrSettings + Cardinality(Creating) <= Cardinality(Workers)

\* The metrics of a day take its results one by one.
LEMMA MetricsAdd ==
    ASSUME NEW s \in Seq(Int), NEW r \in Int
    PROVE  DayMetrics(Append(s, r)).pnl = DayMetrics(s).pnl + r /\ DayMetrics(s).pnl \in Int
<1> DEFINE n == Len(s) + 1
           more == Append(s, r)
           Won(q) == {i \in DOMAIN q : q[i] > 0}
           Lost(q) == {i \in DOMAIN q : q[i] < 0}
<1>1. /\ more \in Seq(Int) /\ DOMAIN s = 1 .. n - 1 /\ DOMAIN more = (1 .. n - 1) \union {n}
      /\ n \in Nat \ {0} /\ n \notin DOMAIN s
      /\ more[n] = r /\ \A i \in DOMAIN s : more[i] = s[i] /\ s[i] \in Int
  OBVIOUS
<1>2. \A q \in {s, more} : DayMetrics(q).pnl = SumOver(q, Won(q)) + SumOver(q, Lost(q))
  BY DEF DayMetrics, SumOver
<1>3. IsFiniteSet(DOMAIN s)
  BY <1>1, FS_Interval
<1>4. IsFiniteSet(Won(s)) /\ IsFiniteSet(Lost(s))
  BY <1>3, FS_Subset
<1> HIDE DEF more
<1>5. /\ SumOver(s, Won(s)) = SumOver(more, Won(s)) /\ SumOver(s, Won(s)) \in Int
      /\ SumOver(s, Lost(s)) = SumOver(more, Lost(s)) /\ SumOver(s, Lost(s)) \in Int
  <2>1. \A x \in Won(s) : s[x] \in Int /\ s[x] = more[x]
    BY <1>1
  <2>2. \A x \in Lost(s) : s[x] \in Int /\ s[x] = more[x]
    BY <1>1
  <2> HIDE DEF Won, Lost
  <2> QED  BY <1>4, <2>1, <2>2, SumCongruence, SumType
<1>6. CASE r > 0
  <2>1. Won(more) = Won(s) \union {n} /\ Lost(more) = Lost(s) /\ n \notin Won(s)
    BY <1>1, <1>6
  <2>2. \A x \in Won(s) \union {n} : more[x] \in Int
    BY <1>1
  <2> HIDE DEF Won, Lost
  <2>3. SumOver(more, Won(s) \union {n}) = more[n] + SumOver(more, Won(s))
    BY <1>4, <2>1, <2>2, SumAdd
  <2> HIDE DEF n
  <2>4. SumOver(more, Won(more)) = r + SumOver(s, Won(s)) /\ SumOver(more, Lost(more)) = SumOver(s, Lost(s))
    BY <1>1, <1>5, <2>1, <2>3
  <2> QED  BY <1>2, <1>5, <2>4 DEF more
<1>7. CASE r < 0
  <2>1. Lost(more) = Lost(s) \union {n} /\ Won(more) = Won(s) /\ n \notin Lost(s)
    BY <1>1, <1>7
  <2>2. \A x \in Lost(s) \union {n} : more[x] \in Int
    BY <1>1
  <2> HIDE DEF Won, Lost
  <2>3. SumOver(more, Lost(s) \union {n}) = more[n] + SumOver(more, Lost(s))
    BY <1>4, <2>1, <2>2, SumAdd
  <2> HIDE DEF n
  <2>4. SumOver(more, Lost(more)) = r + SumOver(s, Lost(s)) /\ SumOver(more, Won(more)) = SumOver(s, Won(s))
    BY <1>1, <1>5, <2>1, <2>3
  <2> QED  BY <1>2, <1>5, <2>4 DEF more
<1>8. CASE r = 0
  <2>1. Lost(more) = Lost(s) /\ Won(more) = Won(s)
    BY <1>1, <1>8
  <2> HIDE DEF Won, Lost, n
  <2> QED  BY <1>2, <1>5, <1>8, <2>1 DEF more
<1> QED  BY <1>2, <1>5, <1>6, <1>7, <1>8

LEMMA NoMetrics == DayMetrics(<<>>).pnl = 0
<1>1. DayMetrics(<<>>).pnl = SumOver(<<>>, {}) + SumOver(<<>>, {})
  <2>1. {i \in DOMAIN <<>> : <<>>[i] > 0} = {} /\ {i \in DOMAIN <<>> : <<>>[i] < 0} = {}
    OBVIOUS
  <2> QED  BY <2>1 DEF DayMetrics, SumOver
<1> QED  BY <1>1, SumEmpty

\* The three tables of a drawdown say the same (risk_management/models.py:539-722).
LEMMA TablesAlwaysAgree == \A dd \in Drawdowns : TablesAgree(dd)
<1> TAKE dd \in Drawdowns
<1>0. dd \in Int /\ 0 <= dd /\ dd < 99900
  BY RiskAssumption, SMTT(30)
<1>1. CASE dd < 500
  BY <1>0, <1>1 DEF TablesAgree, Tier, Protocol, DrawdownScale
<1>2. CASE dd >= 500 /\ dd < 1000
  <2>1. Tier(dd) = [tier |-> 1, size |-> 50, trades |-> 5, auto |-> TRUE] /\ DrawdownScale(dd) = 6
    BY <1>0, <1>2 DEF Tier, DrawdownScale
  <2>2. Protocol(dd) = [size |-> 50, trades |-> 5, gold |-> TRUE, manual |-> FALSE]
    BY <1>0, <1>2 DEF Protocol
  <2> QED  BY <2>1, <2>2 DEF TablesAgree
<1>3. CASE dd >= 1000 /\ dd < 1500
  <2>1. Tier(dd) = [tier |-> 2, size |-> 25, trades |-> 3, auto |-> TRUE] /\ DrawdownScale(dd) = 3
    BY <1>0, <1>3 DEF Tier, DrawdownScale
  <2>2. Protocol(dd) = [size |-> 25, trades |-> 3, gold |-> TRUE, manual |-> FALSE]
    BY <1>0, <1>3 DEF Protocol
  <2> QED  BY <2>1, <2>2 DEF TablesAgree
<1>4. CASE dd >= 1500
  <2>1. /\ Tier(dd).size = 0 /\ Tier(dd).trades = 0 /\ Tier(dd).tier # 0 /\ Tier(dd).auto = FALSE
        /\ DrawdownScale(dd) = 0
    BY <1>0, <1>4 DEF Tier, DrawdownScale
  <2>2. Protocol(dd) = [size |-> 0, trades |-> 0, gold |-> FALSE, manual |-> TRUE]
    BY <1>0, <1>4 DEF Protocol
  <2> QED  BY <2>1, <2>2 DEF TablesAgree
<1> QED  BY <1>0, <1>1, <1>2, <1>3, <1>4

\* A deeper drawdown never loosens a rule.
LEMMA DeeperIsStricter ==
    RiskInv => \A d, e \in Drawdowns, s \in {"standard", "gold_edge"} : Stricter(d, e, s)
<1> SUFFICES ASSUME RiskInv, NEW d \in Drawdowns, NEW e \in Drawdowns, NEW s \in {"standard", "gold_edge"}, d <= e
             PROVE  Stricter(d, e, s)
  BY DEF Stricter
<1>0. \A x \in Drawdowns : x \in Int /\ 0 <= x /\ x < 99900
  BY RiskAssumption, SMTT(30)
<1>1. /\ d \in Int /\ 0 <= d /\ d < 99900 /\ e \in Int /\ 0 <= e /\ e < 99900
      /\ rrCount \in Int /\ rrStreak \in Int
  BY <1>0 DEF RiskInv
<1>2. Tier(e).size <= Tier(d).size /\ DrawdownScale(e) <= DrawdownScale(d)
  BY <1>1 DEF Tier, DrawdownScale
<1>3. "breaker" \in Recovery(s, d) => "breaker" \in Recovery(s, e)
  <2>1. /\ Tier(d).tier <= Tier(e).tier /\ {Tier(d).tier, Tier(e).tier} \subseteq 0 .. 4
        /\ ~Tier(d).auto => ~Tier(e).auto /\ Tier(e).tier # 0
        /\ Tier(d).tier # 0 /\ Tier(d).trades > 0 /\ rrCount >= Tier(d).trades
             => Tier(e).tier # 0 /\ (~Tier(e).auto \/ (Tier(e).trades > 0 /\ rrCount >= Tier(e).trades))
    BY <1>1 DEF Tier
  <2> QED  BY <2>1 DEF Recovery
<1>4. Raised(s, d) \subseteq Raised(s, e)
  <2>1. Limits(s).drawdown \in Int
    BY RiskAssumption, SMTT(30) DEF Limits
  <2>2. d >= Limits(s).drawdown => e >= Limits(s).drawdown
    BY <1>1, <2>1
  <2> QED  BY <2>2 DEF Raised
<1>5. GoldBreaker(rrStreak, rrCount, d, 15) => GoldBreaker(rrStreak, rrCount, e, 15)
  BY <1>1 DEF GoldBreaker
<1>6. AllowsNewTrade(e) => AllowsNewTrade(d)
  BY <1>1 DEF AllowsNewTrade, DrawdownScale
<1> QED  BY <1>2, <1>3, <1>4, <1>5, <1>6 DEF Stricter

LEMMA RiskConstants ==
    /\ StartEquity \in Nat /\ (\A r \in Results : r \in Int) /\ (\A d \in Drawdowns : d \in Int)
    /\ MaxStreak \in Nat /\ MaxCount \in Nat /\ MaxDays \in Nat \ {0}
    /\ (\A r \in WinRates : r \in Int) /\ (\A s \in EquityScales : s \in Int)
BY RiskAssumption

LEMMA CreatingIsFinite ==
    /\ IsFiniteSet(Creating) /\ Cardinality(Creating) \in Nat
    /\ Cardinality(Creating) <= Cardinality(Workers) /\ Cardinality(Workers) \in Nat
<1>1. IsFiniteSet(Workers) /\ Creating \subseteq Workers
  BY RiskAssumption DEF Creating
<1> QED  BY <1>1, FS_Subset, FS_CardinalityType

LEMMA RiskStarts == RiskInit => RiskInv
<1> SUFFICES ASSUME RiskInit PROVE RiskInv
  OBVIOUS
<1>1. Creating = {} /\ Cardinality({}) = 0
  BY FS_EmptySet DEF RiskInit, Creating
<1>2. DayMetrics(rrClosed).pnl = 0 /\ rrClosed \in Seq(Int) /\ Len(rrClosed) = 0
  BY NoMetrics DEF RiskInit
<1> QED  BY <1>1, <1>2, RiskAssumption, CreatingIsFinite, SMTT(30) DEF RiskInit, RiskInv

\* A day's loss in percent is a number that is not negative.
LEMMA LossIsNatural ==
    ASSUME NEW p \in Int, p < 0, StartEquity > 0
    PROVE  -PnlPercent(p) \in Nat
<1> DEFINE q == (-(10000 * p)) \div StartEquity
<1>1. ~(10000 * p >= 0) /\ -(10000 * p) \in Nat /\ StartEquity \in Nat \ {0}
  BY RiskAssumption
<1>2. q \in Nat
  BY <1>1
<1>3. PnlPercent(p) = -q
  BY <1>1 DEF PnlPercent, Halving
<1> QED  BY <1>2, <1>3

LEMMA TargetsAreClamped ==
    ASSUME NEW rate \in Int, NEW regime \in DOMAIN RegimeScale, NEW dd \in Int, NEW scale \in Int
    PROVE  DailyTarget(rate, regime, dd, scale) \in MinTarget .. MaxTarget
<1> DEFINE a == BaseTarget(rate) * RegimeScale[regime] * DrawdownScale(dd) * scale
           t == a \div 10000
<1>1. BaseTarget(rate) \in Int /\ RegimeScale[regime] \in Int /\ DrawdownScale(dd) \in Int
  BY DEF BaseTarget, RegimeScale, DrawdownScale
<1>2. a \in Int
  <2> HIDE DEF a
  <2>1. BaseTarget(rate) * RegimeScale[regime] \in Int
    BY <1>1
  <2>2. (BaseTarget(rate) * RegimeScale[regime]) * DrawdownScale(dd) \in Int
    BY <1>1, <2>1
  <2> QED  BY <2>2 DEF a
<1> HIDE DEF a
<1>3. t \in Int
  BY <1>2
<1>4. DailyTarget(rate, regime, dd, scale) = Clamped(t)
  BY DEF DailyTarget, a
<1> HIDE DEF t
<1> QED  BY <1>3, <1>4 DEF Clamped, MinTarget, MaxTarget

LEMMA SettingsKeep ==
    ASSUME RiskInv, SettingsNext PROVE RiskInv'
<1>1. UNCHANGED riskVars
  BY DEF SettingsNext, GetActive, CreateActive
<1>2. PICK w \in Workers : GetActive(w) \/ CreateActive(w)
  BY DEF SettingsNext
<1>3. CASE GetActive(w)
  <2>1. rrSettings' = rrSettings /\ rrSaw' \in [Workers -> {"nothing", "create", "row", "raised"}]
    BY <1>3 DEF GetActive, RiskInv
  <2>2. CASE rrSettings = 0
    <3>1. Creating' \subseteq Workers /\ IsFiniteSet(Workers)
      BY RiskAssumption DEF Creating
    <3>2. Cardinality(Creating') <= Cardinality(Workers) /\ Cardinality(Creating') \in Nat
      BY <3>1, FS_Subset, FS_CardinalityType
    <3> QED  BY <1>1, <2>1, <2>2, <3>2, CreatingIsFinite DEF RiskInv, riskVars
  <2>3. CASE rrSettings # 0
    <3>1. Creating' \subseteq Creating
      BY <1>3, <2>3 DEF GetActive, RiskInv, Creating
    <3>2. Cardinality(Creating') <= Cardinality(Creating) /\ Cardinality(Creating') \in Nat
      BY <3>1, CreatingIsFinite, FS_Subset, FS_CardinalityType
    <3> QED  BY <1>1, <2>1, <3>2, CreatingIsFinite DEF RiskInv, riskVars
  <2> QED  BY <2>2, <2>3
<1>4. CASE CreateActive(w)
  <2>1. /\ rrSettings' = rrSettings + 1 /\ w \in Creating /\ Creating' = Creating \ {w}
        /\ rrSaw' \in [Workers -> {"nothing", "create", "row", "raised"}]
    BY <1>4 DEF CreateActive, RiskInv, Creating
  <2>2. Cardinality(Creating') = Cardinality(Creating) - 1
    BY <2>1, CreatingIsFinite, FS_RemoveElement
  <2> QED  BY <1>1, <2>1, <2>2, CreatingIsFinite DEF RiskInv, riskVars
<1> QED  BY <1>2, <1>3, <1>4

LEMMA RisksKeep ==
    ASSUME RiskInv, RiskNext PROVE RiskInv'
<1> USE RiskConstants
<1>1. Creating' = Creating /\ rrSettings' = rrSettings /\ rrSaw' = rrSaw
  BY DEF RiskNext, UpdateDailyPnl, RecordGoldEdgeTrade, MoveDrawdown, CheckCircuitBreaker, ApplyDrawdownRecovery,
         ResetDaily, ComputeTargets, EnforceTargets, SizePosition, settingsVars, Creating
<1>2. ASSUME NEW r \in Results, UpdateDailyPnl(r) PROVE RiskInv'
  <2>1. /\ rrClosed' \in Seq(Int) /\ Len(rrClosed') = rrCount'
        /\ DayMetrics(rrClosed').pnl = rrPnl' /\ rrPnl' \in Int /\ rrCount' \in 0 .. MaxCount
    <3>1. DayMetrics(Append(rrClosed, r)).pnl = DayMetrics(rrClosed).pnl + r
      BY MetricsAdd DEF RiskInv
    <3>2. /\ rrClosed' = Append(rrClosed, r) /\ rrPnl' = rrPnl + r /\ rrCount' = rrCount + 1
          /\ rrCount < MaxCount
      BY <1>2 DEF UpdateDailyPnl
    <3> QED  BY <3>1, <3>2 DEF RiskInv
  <2>2. rrLoss' \in Nat
    BY <1>2, <2>1, LossIsNatural DEF UpdateDailyPnl, RiskInv
  <2> QED  BY <1>1, <1>2, <2>1, <2>2 DEF UpdateDailyPnl, RiskInv
<1>3. ASSUME NEW r \in Results, RecordGoldEdgeTrade(r) PROVE RiskInv'
  BY <1>1, <1>3 DEF RecordGoldEdgeTrade, RiskInv
<1>4. ASSUME NEW dd \in Drawdowns, MoveDrawdown(dd) PROVE RiskInv'
  BY <1>1, <1>4 DEF MoveDrawdown, RiskInv
<1>5. ASSUME NEW s \in {"standard", "gold_edge"}, CheckCircuitBreaker(s) \/ ApplyDrawdownRecovery(s)
      PROVE RiskInv'
  <2>1. rrFlags' \subseteq {"daily_loss", "drawdown", "target", "max_trades", "breaker"}
    BY <1>5 DEF CheckCircuitBreaker, ApplyDrawdownRecovery, Raised, Recovery, RiskInv
  <2> QED  BY <1>1, <1>5, <2>1 DEF CheckCircuitBreaker, ApplyDrawdownRecovery, RiskInv
<1>6. CASE ResetDaily
  BY <1>1, <1>6, NoMetrics DEF ResetDaily, RiskInv
<1>7. ASSUME NEW rate \in WinRates, NEW regime \in DOMAIN RegimeScale, NEW scale \in EquityScales,
             NEW whole \in BOOLEAN, ComputeTargets(rate, regime, scale, whole)
      PROVE RiskInv'
  <2>1. DailyTarget(rate, regime, rrDrawdown, scale) \in MinTarget .. MaxTarget
    BY TargetsAreClamped DEF RiskInv
  <2> QED  BY <1>1, <1>7, <2>1 DEF ComputeTargets, RiskInv
<1>8. CASE EnforceTargets
  BY <1>1, <1>8 DEF EnforceTargets, RiskInv
<1>9. CASE SizePosition(1)
  <2>1. rrRisk' \in Int /\ rrRisk' <= StartEquity
    BY <1>9 DEF SizePosition, RiskAmount, Budget, RiskInv
  <2> QED  BY <1>1, <1>9, <2>1 DEF SizePosition, RiskInv
<1> QED  BY <1>2, <1>3, <1>4, <1>5, <1>6, <1>7, <1>8, <1>9 DEF RiskNext

LEMMA RiskHolds == RiskInv => RiskTypeOK
<1> SUFFICES ASSUME RiskInv PROVE RiskTypeOK
  OBVIOUS
<1>1. DayMetrics(rrClosed).total = rrCount
  BY DEF DayMetrics, RiskInv
<1>2. rrSettings \in 0 .. Cardinality(Workers)
  BY CreatingIsFinite DEF RiskInv
<1> QED  BY <1>1, <1>2, TablesAlwaysAgree, DeeperIsStricter DEF RiskInv, RiskTypeOK

\* The metrics computed from a day's trades are what the monitor counted one by one; the three tables
\* of a drawdown agree, and a deeper one never loosens a rule, whatever was traded; targets keep to
\* their bounds, a position's risk to the equity, and no more active settings rows than workers are
\* ever made (risk_management/models.py:539-955, views.py:60-80, profit_target_manager.py:54-240).
THEOREM RiskTypes == RiskSpec => []RiskTypeOK
<1>1. RiskInv /\ [RiskNext \/ SettingsNext]_rrVars => RiskInv'
  <2> SUFFICES ASSUME RiskInv, [RiskNext \/ SettingsNext]_rrVars PROVE RiskInv'
    OBVIOUS
  <2>1. CASE UNCHANGED rrVars
    BY <2>1 DEF rrVars, riskVars, settingsVars, RiskInv, Creating
  <2> QED  BY <2>1, RisksKeep, SettingsKeep
<1> QED  BY <1>1, RiskStarts, RiskHolds, PTL DEF RiskSpec

-----------------------------------------------------------------------------
(* The whole state of the guards: buckets, block, histories and trust.     *)

\* A history has no device twice and keeps to its limit; a thread may hold an old one.
History(devices) ==
    devices \in Seq(Devices) /\ Len(devices) <= MaxDeviceHistory /\ IsInjective(devices)

TrustInv ==
    /\ History(ztDevices)
    /\ DOMAIN ztRead = GuardThreads
    /\ \A t \in GuardThreads : \A seen \in ztRead[t] :
         /\ seen.step = "device" => History(seen.devices)
         /\ seen.step = "score" => seen.match \in BOOLEAN
    /\ ztScore \in 65 .. 100

\* The parts of the firewall's state that BucketInv does not bound.
GateInv ==
    /\ rgClock \in 1 .. GuardClock
    /\ \A b \in Buckets : rgTokens[b] <= BucketCapacity[b] * RateWindow /\ rgFilled[b] >= 1
    /\ rgUnblock \in 0 .. rgClock + BlockDuration

LEMMA NewDeviceRemembered ==
    ASSUME NEW devices, History(devices), NEW d \in Devices, ~Contains(devices, d)
    PROVE  History(Remember(devices, d))
<1>1. CASE Len(devices) >= MaxDeviceHistory
  <2>1. Remember(devices, d) = <<>>
    BY <1>1 DEF Remember
  <2> QED  BY <2>1, GuardAssumption DEF History, IsInjective
<1>2. CASE Len(devices) < MaxDeviceHistory
  <2>1. Remember(devices, d) = Append(devices, d)
    BY <1>2, GuardAssumption DEF Remember, History
  <2>2. \A i \in DOMAIN devices : devices[i] # d
    BY DEF Contains, History
  <2>3. IsInjective(Append(devices, d))
    <3> SUFFICES ASSUME NEW i \in DOMAIN Append(devices, d), NEW j \in DOMAIN Append(devices, d),
                        Append(devices, d)[i] = Append(devices, d)[j]
                 PROVE  i = j
      BY DEF IsInjective
    <3>1. devices \in Seq(Devices) /\ \A m, n \in DOMAIN devices : devices[m] = devices[n] => m = n
      BY DEF History, IsInjective
    <3> QED  BY <2>2, <3>1
  <2> QED  BY <1>2, <2>1, <2>3, GuardAssumption DEF History
<1> QED  BY <1>1, <1>2, GuardAssumption DEF History

\* A score is the sum of its factors, each within its bounds.
LEMMA ScoresAreBounded ==
    ASSUME NEW match \in BOOLEAN, NEW times, NEW timeScore \in TimeScores
    PROVE  TrustScore(match, times, timeScore) \in 65 .. 100
<1>1. timeScore \in {5, 8, 15}
  BY GuardAssumption
<1>2. (Reputation * 25) \div 100 = 25
  BY DEF Reputation
<1> DEFINE Known == IF match THEN 20 ELSE 10
           Paced == IF Len(times) > FloodRequests THEN 5 ELSE IF Len(times) > BusyRequests THEN 10 ELSE 20
<1>3. Known \in {10, 20} /\ Paced \in {5, 10, 20}
  OBVIOUS
<1>4. TrustScore(match, times, timeScore) = 20 + 25 + Known + timeScore + Paced
  BY <1>2 DEF TrustScore
<1> HIDE DEF Known, Paced
<1> QED  BY <1>1, <1>3, <1>4

\* The most that a segment asks for.
LEMMA HighestDemand ==
    Max({RequiredTrust[s] : s \in DOMAIN RequiredTrust}) \in 0 .. 90
<1> DEFINE S == {RequiredTrust[s] : s \in DOMAIN RequiredTrust}
<1>1. S = {50, 60, 70, 80, 85, 90}
  <2>1. DOMAIN RequiredTrust = {"admin", "execute", "trading", "payments", "accounts", "signals",
                                "market_data", "analytics", "notifications", "other"}
    BY DEF RequiredTrust
  <2>2. /\ RequiredTrust["admin"] = 90 /\ RequiredTrust["execute"] = 80 /\ RequiredTrust["trading"] = 70
        /\ RequiredTrust["payments"] = 85 /\ RequiredTrust["accounts"] = 60 /\ RequiredTrust["signals"] = 60
        /\ RequiredTrust["market_data"] = 50 /\ RequiredTrust["analytics"] = 50
        /\ RequiredTrust["notifications"] = 50 /\ RequiredTrust["other"] = 60
    BY DEF RequiredTrust
  <2> QED  BY <2>1, <2>2
<1>2. Max(S) = CHOOSE x \in S : \A y \in S : x >= y
  BY DEF Max
<1>3. 90 \in S /\ \A y \in S : 90 >= y
  BY <1>1
<1>4. Max(S) \in S
  BY <1>2, <1>3
<1> QED  BY <1>1, <1>4

LEMMA TrustKeeps ==
    ASSUME TrustInv, TrustNext \/ UNCHANGED trustVars
    PROVE  TrustInv'
<1>1. ASSUME NEW t \in GuardThreads, VerifyBegin(t) PROVE TrustInv'
  BY <1>1 DEF VerifyBegin, TrustInv, History
<1>2. ASSUME NEW t \in GuardThreads, NEW d \in Devices, VerifyDevice(t, d) PROVE TrustInv'
  <2>1. PICK seen \in ztRead[t] :
          /\ seen.step = "device"
          /\ ztDevices' = IF Contains(seen.devices, d) THEN ztDevices ELSE Remember(seen.devices, d)
          /\ ztRead' = [ztRead EXCEPT ![t] =
                 {[step |-> "score", match |-> DeviceMatch(seen.devices, d), times |-> ztTimes]}]
          /\ ztScore' = ztScore
    BY <1>2 DEF VerifyDevice
  <2>2. History(seen.devices) /\ History(ztDevices)
    BY <2>1 DEF TrustInv
  <2>3. History(ztDevices')
    BY <2>1, <2>2, NewDeviceRemembered
  <2>4. DeviceMatch(seen.devices, d) \in BOOLEAN
    BY DEF DeviceMatch, Contains
  <2>5. ASSUME NEW s \in GuardThreads, NEW x \in ztRead'[s]
        PROVE  (x.step = "device" => History(x.devices)) /\ (x.step = "score" => x.match \in BOOLEAN)
    BY <2>1, <2>4 DEF TrustInv
  <2> QED  BY <2>1, <2>3, <2>5 DEF TrustInv, History
<1>3. ASSUME NEW t \in GuardThreads, NEW timeScore \in TimeScores, VerifyEnd(t, timeScore)
      PROVE  TrustInv'
  <2>1. PICK seen \in ztRead[t] :
          /\ seen.step = "score"
          /\ ztRead' = [ztRead EXCEPT ![t] = {}] /\ ztDevices' = ztDevices
          /\ \E times : ztScore' = TrustScore(seen.match, times, timeScore)
    BY <1>3 DEF VerifyEnd
  <2>2. ztScore' \in 65 .. 100
    BY <2>1, ScoresAreBounded DEF TrustInv
  <2> QED  BY <2>1, <2>2 DEF TrustInv, History
<1>4. CASE ForgetHistory
  <2>1. ztDevices' \in {<<>>, ztDevices} /\ UNCHANGED <<ztRead, ztScore>>
    BY <1>4 DEF ForgetHistory
  <2>2. History(<<>>)
    BY GuardAssumption DEF History, IsInjective
  <2> QED  BY <2>1, <2>2 DEF TrustInv, History
<1>5. CASE GuardTick \/ UNCHANGED trustVars
  <2>1. UNCHANGED trustVars
    BY <1>5 DEF GuardTick
  <2> QED  BY <2>1 DEF trustVars, TrustInv, History
<1> QED  BY <1>1, <1>2, <1>3, <1>4, <1>5 DEF TrustNext

LEMMA GateKeeps ==
    ASSUME BucketInv, GateInv, [GateNext \/ TrustNext]_guardVars
    PROVE  GateInv'
<1> USE GuardAssumption
<1>1. ASSUME NEW t \in GuardThreads, Consume(t) PROVE GateInv'
  <2>1. PICK b \in Buckets, spent \in Nat :
          /\ rgTokens' = [rgTokens EXCEPT ![b] = spent] /\ rgFilled' = [rgFilled EXCEPT ![b] = rgClock]
          /\ rgClock' = rgClock /\ spent <= BucketCapacity[b] * RateWindow
    <3>1. PICK b \in Buckets, spent \in Nat, full \in Nat :
            /\ rgTokens' = [rgTokens EXCEPT ![b] = spent] /\ rgFilled' = [rgFilled EXCEPT ![b] = rgClock]
            /\ rgClock' = rgClock /\ full <= BucketCapacity[b] * RateWindow
            /\ spent = full \/ spent = full - RateWindow
      BY <1>1, BucketSpent
    <3>2. PICK most \in Nat : most = BucketCapacity[b] * RateWindow
      BY DEF Buckets
    <3>3. spent <= most
      BY <3>1, <3>2
    <3> QED  BY <3>1, <3>2, <3>3, Zenon
  <2>2. rgUnblock' \in 0 .. rgClock + BlockDuration
    BY <1>1 DEF Consume, GateInv
  <2>3. ASSUME NEW c \in Buckets
        PROVE  rgTokens'[c] <= BucketCapacity[c] * RateWindow /\ rgFilled'[c] >= 1
    <3>1. rgTokens \in [Buckets -> Nat] /\ rgFilled \in [Buckets -> Nat] /\ rgClock >= 1
          /\ rgTokens[c] <= BucketCapacity[c] * RateWindow /\ rgFilled[c] >= 1
      BY DEF BucketInv, GateInv
    <3>2. CASE c = b
      BY <2>1, <3>1, <3>2
    <3>3. CASE c # b
      BY <2>1, <3>1, <3>3
    <3> QED  BY <3>2, <3>3
  <2> QED  BY <2>1, <2>2, <2>3 DEF GateInv
<1>2. ASSUME NEW t \in GuardThreads, NEW endpoint \in BOOLEAN, Arrive(t, endpoint) PROVE GateInv'
  <2>1. UNCHANGED <<rgClock, rgTokens, rgFilled>> /\ rgUnblock' = 0
    BY <1>2 DEF Arrive
  <2> QED  BY <2>1 DEF GateInv
<1>3. CASE GuardTick
  <2>1. UNCHANGED <<rgTokens, rgFilled, rgUnblock>> /\ rgClock' = rgClock + 1 /\ rgClock < GuardClock
    BY <1>3 DEF GuardTick, gateVars
  <2>2. rgClock' \in 1 .. GuardClock /\ rgUnblock' \in 0 .. rgClock' + BlockDuration
    BY <2>1 DEF GateInv
  <2> QED  BY <2>1, <2>2 DEF GateInv
<1>4. CASE Unblock
  <2>1. UNCHANGED <<rgClock, rgTokens, rgFilled>> /\ rgUnblock' = 0
    BY <1>4 DEF Unblock
  <2> QED  BY <2>1 DEF GateInv
<1>5. CASE (TrustNext /\ ~GuardTick) \/ UNCHANGED guardVars
  <2>1. UNCHANGED <<rgClock, rgTokens, rgFilled, rgUnblock>>
    BY <1>5 DEF TrustNext, VerifyBegin, VerifyDevice, VerifyEnd, ForgetHistory, gateVars, guardVars
  <2> QED  BY <2>1 DEF GateInv
<1> QED  BY <1>1, <1>2, <1>3, <1>4, <1>5 DEF GateNext, TrustNext

\* Tokens, blocks and scores keep to their bounds, a device history to its length and
\* without repetition, however two threads write it back; and a user on a known device
\* with a fresh token may do everything (waf.py:220-290, zero_trust.py:29-304).
THEOREM GuardTypes == GuardSpec => []GuardTypeOK
<1>1. GuardInit => BucketInv /\ GateInv /\ TrustInv
  <2> SUFFICES ASSUME GuardInit PROVE BucketInv /\ GateInv /\ TrustInv
    OBVIOUS
  <2>1. BucketInv
    BY BucketsStart
  <2>2. BucketCapacity["ep"] * RateWindow \in Nat /\ BucketCapacity["ip"] * RateWindow \in Nat
    BY GuardAssumption
  <2>3. GateInv
    BY <2>2, GuardAssumption DEF GuardInit, GateInv, Buckets
  <2>4. TrustInv
    BY GuardAssumption DEF GuardInit, TrustInv, History, IsInjective
  <2> QED  BY <2>1, <2>3, <2>4
<1>2. BucketInv /\ GateInv /\ TrustInv /\ [GateNext \/ TrustNext]_guardVars => (BucketInv /\ GateInv /\ TrustInv)'
  <2> SUFFICES ASSUME BucketInv, GateInv, TrustInv, [GateNext \/ TrustNext]_guardVars
               PROVE  (BucketInv /\ GateInv /\ TrustInv)'
    OBVIOUS
  <2>1. BucketInv' /\ GateInv'
    BY BucketsKeep, GateKeeps
  <2>2. TrustNext \/ UNCHANGED trustVars
    BY DEF GateNext, Arrive, Consume, Unblock, GuardTick, guardVars
  <2> QED  BY <2>1, <2>2, TrustKeeps
<1>3. BucketInv /\ GateInv /\ TrustInv => GuardTypeOK
  <2> SUFFICES ASSUME BucketInv, GateInv, TrustInv PROVE GuardTypeOK
    OBVIOUS
  <2>1. TrustScore(TRUE, <<>>, 15) = 100
    BY GuardAssumption DEF TrustScore, Reputation
  <2>2. Max({RequiredTrust[s] : s \in DOMAIN RequiredTrust}) <= 100
    BY HighestDemand
  <2>3. ASSUME NEW b \in Buckets
        PROVE  rgTokens[b] \in 0 .. BucketCapacity[b] * RateWindow /\ rgFilled[b] \in 1 .. rgClock
    <3>1. rgTokens[b] \in Nat /\ rgFilled[b] \in Nat /\ rgFilled[b] <= rgClock
      BY DEF BucketInv
    <3>2. BucketCapacity[b] * RateWindow \in Int /\ rgClock \in Int
      BY GuardAssumption DEF BucketInv, Buckets
    <3> QED  BY <3>1, <3>2 DEF GateInv
  <2> QED  BY <2>1, <2>2, <2>3 DEF BucketInv, GateInv, TrustInv, History, GuardTypeOK
<1> QED  BY <1>1, <1>2, <1>3, PTL DEF GuardSpec

-----------------------------------------------------------------------------
(* The whole state of the monitor: logs, verdicts, events and integrity.   *)

\* Each worker that saves an event has read a row there is, or that there is none.
EventInv ==
    /\ evRows \in Seq([type : {"login_failure", "waf_block"}, at : Int, follows : Int])
    /\ \A i \in DOMAIN evRows : evRows[i].follows \in 0 .. i - 1
    /\ evRead \in [EventWorkers -> Int]
    /\ \A w \in EventWorkers : evRead[w] = -1 \/ evRead[w] \in 0 .. Len(evRows)
    /\ \A w \in EventWorkers : evRead[w] <= MaxEvents
    /\ evRaised \in BOOLEAN

VerdictInv ==
    /\ idClock \in 1 .. MonitorClock
    /\ DOMAIN idLog = Logs /\ idLog["rate"] = {}
    /\ idVerdict.level \in DOMAIN Rank

FilesInv == DOMAIN raFiles \subseteq SourceFiles

\* The worst of some levels is one of them.
LEMMA WorstIsOne ==
    ASSUME NEW levels, levels \subseteq DOMAIN Rank, levels # {}
    PROVE  Worst(levels) \in levels
<1>1. DOMAIN Rank = {"NONE", "LOW", "INFO", "MEDIUM", "HIGH", "CRITICAL"}
  BY DEF Rank
<1>2. /\ Rank["NONE"] = 0 /\ Rank["LOW"] = 1 /\ Rank["INFO"] = 2
      /\ Rank["MEDIUM"] = 3 /\ Rank["HIGH"] = 4 /\ Rank["CRITICAL"] = 5
  BY DEF Rank
<1>3. \E l \in levels : \A m \in levels : Rank[m] <= Rank[l]
  <2>1. CASE "CRITICAL" \in levels
    BY <1>1, <1>2, <2>1
  <2>2. CASE "CRITICAL" \notin levels /\ "HIGH" \in levels
    BY <1>1, <1>2, <2>2
  <2>3. CASE "CRITICAL" \notin levels /\ "HIGH" \notin levels /\ "MEDIUM" \in levels
    BY <1>1, <1>2, <2>3
  <2>4. CASE levels \subseteq {"NONE", "LOW", "INFO"} /\ "INFO" \in levels
    BY <1>2, <2>4
  <2>5. CASE levels \subseteq {"NONE", "LOW"} /\ "LOW" \in levels
    BY <1>2, <2>5
  <2>6. CASE levels = {"NONE"}
    BY <1>2, <2>6
  <2> QED  BY <1>1, <2>1, <2>2, <2>3, <2>4, <2>5, <2>6
<1> QED  BY <1>3 DEF Worst

\* What is found wrong with a request, a sign-in or a trade adds levels to the first.
LEMMA LevelIsKnown ==
    ASSUME NEW first \in DOMAIN Rank, NEW more \in SUBSET DOMAIN Rank, NEW blocked,
           Verdict({first} \union more, blocked)
    PROVE  idVerdict'.level \in DOMAIN Rank
<1>1. Worst({first} \union more) \in DOMAIN Rank
  BY WorstIsOne
<1> QED  BY <1>1 DEF Verdict

LEMMA SomeLevels ==
    {"NONE", "LOW", "INFO", "MEDIUM", "HIGH", "CRITICAL"} = DOMAIN Rank
BY DEF Rank

\* No request stays in the log of the rate analyzer.
LEMMA RateStaysEmpty ==
    ASSUME VerdictInv, NEW new, Logged(new),
           "rate" \in DOMAIN new => new["rate"] = {}
    PROVE  DOMAIN idLog' = Logs /\ idLog'["rate"] = {}
BY MonitorAssumption DEF VerdictInv, Logged

LEMMA VerdictsKeep ==
    ASSUME VerdictInv, [RequestsNext \/ LoginsNext \/ TradesNext \/ SiemNext \/ RaspNext]_monitorVars
    PROVE  VerdictInv'
<1>1. ASSUME NEW target \in Targets, NEW matched \in {"INFO", "MEDIUM", "HIGH"}, AnalyzeRequest(target, matched)
      PROVE  VerdictInv'
  <2> DEFINE new == [rate |-> WriteRate, endpoints |-> Write("endpoints", target), params |-> Write("params", target)]
  <2>1. Logged(new) /\ new["rate"] = {} /\ UNCHANGED idClock
    BY <1>1 DEF AnalyzeRequest, VerdictInv, WriteRate, Recent
  <2>2. DOMAIN idLog' = Logs /\ idLog'["rate"] = {}
    BY <2>1, RateStaysEmpty
  <2>3. idVerdict'.level \in DOMAIN Rank
    <3>1. PICK more \in SUBSET {"MEDIUM", "LOW"} :
            \E blocked : Verdict({Worst({matched} \union more)}, blocked)
      <4> DEFINE busy == IF Spike(WriteRate) \/ Sustained(WriteRate) THEN {"MEDIUM"} ELSE {}
                 broad == IF Abused(Write("endpoints", target), Write("params", target)) THEN {"LOW"} ELSE {}
      <4>1. \E blocked : Verdict({Worst({matched} \union busy \union broad)}, blocked)
        BY <1>1 DEF AnalyzeRequest
      <4>2. busy \union broad \in SUBSET {"MEDIUM", "LOW"}
        OBVIOUS
      <4> HIDE DEF busy, broad
      <4>3. {matched} \union busy \union broad = {matched} \union (busy \union broad)
        OBVIOUS
      <4> QED  BY <4>1, <4>2, <4>3
    <3>2. Worst({matched} \union more) \in DOMAIN Rank
      BY WorstIsOne, SomeLevels
    <3>3. \E blocked : Verdict({Worst({matched} \union more)} \union {}, blocked)
      <4>1. {Worst({matched} \union more)} \union {} = {Worst({matched} \union more)}
        OBVIOUS
      <4> QED  BY <3>1, <4>1
    <3> QED  BY <3>2, <3>3, LevelIsKnown
  <2> QED  BY <2>1, <2>2, <2>3 DEF VerdictInv
<1>2. ASSUME NEW u \in LoginUsers, NEW watched \in BOOLEAN, NEW success \in BOOLEAN, NEW unusual \in BOOLEAN,
             AnalyzeLogin(u, watched, success, unusual)
      PROVE  VerdictInv'
  <2> DEFINE both == [logins |-> Write("logins", success), ip |-> Write("ip", u)]
             one == [ip |-> Write("ip", u)]
  <2>1. (Logged(both) \/ Logged(one)) /\ UNCHANGED idClock
    BY <1>2 DEF AnalyzeLogin
  <2>2. DOMAIN idLog' = Logs /\ idLog'["rate"] = {}
    <3>1. "rate" \notin DOMAIN both /\ "rate" \notin DOMAIN one
      OBVIOUS
    <3> QED  BY <2>1, <3>1, RateStaysEmpty
  <2>3. \E more \in SUBSET DOMAIN Rank : \E blocked : Verdict({"INFO"} \union more, blocked)
    <3>1. PICK a \in SUBSET {"HIGH"}, b \in SUBSET {"CRITICAL"}, c \in SUBSET {"LOW"} :
            \E blocked : Verdict({"INFO"} \union a \union b \union c, blocked)
      <4> DEFINE force == watched /\ ~success
                            /\ BruteForce(Write("logins", success))
                 stuffing == Stuffing(Write("ip", u))
                 a == IF force THEN {"HIGH"} ELSE {}
                 b == IF stuffing THEN {"CRITICAL"} ELSE {}
                 c == IF unusual THEN {"LOW"} ELSE {}
      <4>1. \E blocked : Verdict({"INFO"} \union a \union b \union c, blocked)
        BY <1>2 DEF AnalyzeLogin
      <4>2. a \in SUBSET {"HIGH"} /\ b \in SUBSET {"CRITICAL"} /\ c \in SUBSET {"LOW"}
        OBVIOUS
      <4> QED  BY <4>1, <4>2
    <3>2. {"INFO"} \union a \union b \union c = {"INFO"} \union (a \union b \union c)
      OBVIOUS
    <3>3. a \union b \union c \in SUBSET DOMAIN Rank
      BY SomeLevels
    <3> QED  BY <3>1, <3>2, <3>3
  <2>4. idVerdict'.level \in DOMAIN Rank
    BY <2>3, LevelIsKnown, SomeLevels
  <2> QED  BY <2>1, <2>2, <2>4 DEF VerdictInv
<1>3. ASSUME NEW volume \in Volumes, NEW closed \in BOOLEAN, NEW crowded \in BOOLEAN,
             AnalyzeTrade(volume, closed, crowded)
      PROVE  VerdictInv'
  <2> DEFINE new == [trades |-> Write("trades", volume)]
  <2>1. Logged(new) /\ UNCHANGED idClock
    BY <1>3 DEF AnalyzeTrade
  <2>2. DOMAIN idLog' = Logs /\ idLog'["rate"] = {}
    <3>1. "rate" \notin DOMAIN new
      OBVIOUS
    <3> QED  BY <2>1, <3>1, RateStaysEmpty
  <2>3. \E more \in SUBSET DOMAIN Rank : \E blocked : Verdict({"INFO"} \union more, blocked)
    <3>1. PICK a \in SUBSET {"HIGH"}, b \in SUBSET {"MEDIUM"}, c \in SUBSET {"LOW"} :
            \E blocked : Verdict({"INFO"} \union a \union b \union c, blocked)
      <4> DEFINE unusual == UnusualSize(CountedVolume(volume), volume)
                 a == IF unusual THEN {"HIGH"} ELSE {}
                 b == IF closed THEN {"MEDIUM"} ELSE {}
                 c == IF crowded THEN {"LOW"} ELSE {}
      <4>1. \E blocked : Verdict({"INFO"} \union a \union b \union c, blocked)
        BY <1>3, Zenon DEF AnalyzeTrade
      <4>2. a \in SUBSET {"HIGH"} /\ b \in SUBSET {"MEDIUM"} /\ c \in SUBSET {"LOW"}
        OBVIOUS
      <4> QED  BY <4>1, <4>2
    <3>2. {"INFO"} \union a \union b \union c = {"INFO"} \union (a \union b \union c)
      OBVIOUS
    <3>3. a \union b \union c \in SUBSET DOMAIN Rank
      BY SomeLevels
    <3> QED  BY <3>1, <3>2, <3>3
  <2>4. idVerdict'.level \in DOMAIN Rank
    BY <2>3, LevelIsKnown, SomeLevels
  <2> QED  BY <2>1, <2>2, <2>4 DEF VerdictInv
<1>4. CASE BlockedRequest
  <2>1. Verdict({"CRITICAL"}, TRUE) /\ UNCHANGED <<idClock, idLog>>
    BY <1>4 DEF BlockedRequest
  <2>2. Worst({"CRITICAL"}) \in DOMAIN Rank
    BY WorstIsOne, SomeLevels
  <2> QED  BY <2>1, <2>2 DEF VerdictInv, Verdict
<1>5. CASE Cleanup
  <2>1. UNCHANGED <<idClock, idVerdict>> /\ idLog' = [k \in Logs |-> Recent(idLog[k], KeptFor[k])]
    BY <1>5 DEF Cleanup, Kept
  <2>2. idLog'["rate"] = {}
    BY <2>1, MonitorAssumption DEF VerdictInv, Recent
  <2> QED  BY <2>1, <2>2 DEF VerdictInv
<1>6. CASE MonitorTick \/ EventTick
  BY <1>6, MonitorAssumption DEF MonitorTick, EventTick, VerdictInv
<1>7. CASE \/ RaspNext \/ UNCHANGED monitorVars
           \/ \E w \in EventWorkers : BeginSave(w) \/ \E type \in {"login_failure", "waf_block"} : FinishSave(w, type)
  <2>1. UNCHANGED idsVars
    BY <1>7 DEF RaspNext, monitorVars, BeginSave, FinishSave, RemoveFile, WriteFile, StoreBaseline,
                VerifyIntegrity, RestartRasp
  <2> QED  BY <2>1 DEF VerdictInv, idsVars
<1> QED
  BY <1>1, <1>2, <1>3, <1>4, <1>5, <1>6, <1>7 DEF RequestsNext, LoginsNext, TradesNext, SiemNext

LEMMA EventsKeep ==
    ASSUME EventInv, VerdictInv, SiemNext \/ UNCHANGED siemVars
    PROVE  EventInv'
<1>1. ASSUME NEW w \in EventWorkers, BeginSave(w) PROVE EventInv'
  <2>1. /\ evRead' = [evRead EXCEPT ![w] = Len(evRows)] /\ UNCHANGED <<evRows, evRaised>>
        /\ Len(evRows) + Cardinality({v \in EventWorkers : evRead[v] # -1}) < MaxEvents
    BY <1>1 DEF BeginSave
  <2>2. Cardinality({v \in EventWorkers : evRead[v] # -1}) \in Nat
    BY MonitorAssumption, FS_Subset, FS_CardinalityType
  <2>3. Len(evRows) \in Nat /\ Len(evRows) <= MaxEvents
    BY <2>1, <2>2, MonitorAssumption, SMTT(30) DEF EventInv
  <2> QED  BY <2>1, <2>3 DEF EventInv
<1>2. ASSUME NEW w \in EventWorkers, NEW type \in {"login_failure", "waf_block"}, FinishSave(w, type)
      PROVE  EventInv'
  <2> DEFINE row == [type |-> type, at |-> idClock, follows |-> evRead[w]]
  <2>1. /\ evRows' = Append(evRows, row) /\ evRead[w] # -1
        /\ evRead' = [evRead EXCEPT ![w] = -1] /\ evRaised' = RuleRaises(Append(evRows, row), type)
    BY <1>2 DEF FinishSave
  <2>2. evRead[w] \in 0 .. Len(evRows)
    BY <2>1 DEF EventInv
  <2>3. row \in [type : {"login_failure", "waf_block"}, at : Int, follows : Int]
    BY <2>2 DEF VerdictInv
  <2>4. /\ evRows' \in Seq([type : {"login_failure", "waf_block"}, at : Int, follows : Int])
        /\ Len(evRows') = Len(evRows) + 1
        /\ \A i \in DOMAIN evRows : evRows'[i] = evRows[i]
        /\ evRows'[Len(evRows) + 1] = row /\ DOMAIN evRows' = 1 .. Len(evRows) + 1
        /\ DOMAIN evRows = 1 .. Len(evRows) /\ Len(evRows) \in Nat
    BY <2>1, <2>3 DEF EventInv
  <2>5. \A i \in DOMAIN evRows' : evRows'[i].follows \in 0 .. i - 1
    <3> HIDE DEF row
    <3>1. row.follows \in 0 .. Len(evRows)
      BY <2>2 DEF row
    <3>2. PICK n \in Nat : n = Len(evRows)
      BY <2>4
    <3>3. \A i \in 1 .. n : evRows'[i].follows \in 0 .. i - 1
      BY <2>4, <3>2 DEF EventInv
    <3> QED  BY <2>4, <3>1, <3>2, <3>3
  <2>6. evRaised' \in BOOLEAN
    BY <2>1 DEF RuleRaises
  <2>7. \A v \in EventWorkers : /\ evRead'[v] = -1 \/ evRead'[v] \in 0 .. Len(evRows')
                                /\ evRead'[v] <= MaxEvents
    BY <2>1, <2>4, MonitorAssumption, SMTT(30) DEF EventInv
  <2> QED  BY <2>1, <2>4, <2>5, <2>6, <2>7 DEF EventInv
<1>3. CASE EventTick \/ UNCHANGED siemVars
  <2>1. UNCHANGED siemVars
    BY <1>3 DEF EventTick
  <2> QED  BY <2>1 DEF EventInv, siemVars
<1> QED  BY <1>1, <1>2, <1>3 DEF SiemNext

LEMMA FilesKeep ==
    ASSUME FilesInv, RaspNext \/ UNCHANGED raspVars
    PROVE  FilesInv'
<1>1. ASSUME NEW f \in SourceFiles, RemoveFile(f) PROVE FilesInv'
  BY <1>1 DEF RemoveFile, Restrict, FilesInv
<1>2. ASSUME NEW f \in SourceFiles, NEW c \in Contents, WriteFile(f, c) PROVE FilesInv'
  BY <1>2 DEF WriteFile, FilesInv
<1>3. CASE StoreBaseline \/ VerifyIntegrity \/ RestartRasp \/ UNCHANGED raspVars
  BY <1>3 DEF StoreBaseline, VerifyIntegrity, RestartRasp, raspVars, FilesInv
<1> QED  BY <1>1, <1>2, <1>3 DEF RaspNext

\* Whatever is analysed, pruned and saved at the same time: an event follows an older one,
\* every verdict has a level, no request stays in the rate analyzer's log, and a file the
\* check refuses is among the reported changes (intrusion_detection.py:195-880,
\* siem.py:45-175, rasp.py:46-193).
THEOREM MonitorTypes == MonitorSpec => []MonitorTypeOK
<1> DEFINE Next == RequestsNext \/ LoginsNext \/ TradesNext \/ SiemNext \/ RaspNext
           Inv == LogInv /\ VerdictInv /\ EventInv /\ FilesInv
<1>1. MonitorInit => Inv
  <2> SUFFICES ASSUME MonitorInit PROVE Inv
    OBVIOUS
  <2>1. VerdictInv /\ FilesInv
    BY MonitorAssumption, SomeLevels DEF MonitorInit, VerdictInv, FilesInv
  <2>2. EventInv
    <3>1. evRows = <<>> /\ evRead = [w \in EventWorkers |-> -1] /\ -1 <= MaxEvents
      BY MonitorAssumption DEF MonitorInit
    <3>2. /\ evRows \in Seq([type : {"login_failure", "waf_block"}, at : Int, follows : Int])
          /\ \A i \in DOMAIN evRows : evRows[i].follows \in 0 .. i - 1
      BY <3>1
    <3>3. /\ evRead \in [EventWorkers -> Int]
          /\ \A w \in EventWorkers : evRead[w] = -1 \/ evRead[w] \in 0 .. Len(evRows)
          /\ \A w \in EventWorkers : evRead[w] <= MaxEvents
      BY <3>1
    <3>4. evRaised \in BOOLEAN
      BY DEF MonitorInit
    <3> QED  BY <3>2, <3>3, <3>4 DEF EventInv
  <2> QED  BY <2>1, <2>2, LogsStart
<1>2. Inv /\ [Next]_monitorVars => Inv'
  <2> SUFFICES ASSUME Inv, [Next]_monitorVars PROVE Inv'
    OBVIOUS
  <2>1. LogInv' /\ VerdictInv'
    BY LogsKeep, VerdictsKeep
  <2>2. SiemNext \/ UNCHANGED siemVars
    BY DEF RequestsNext, LoginsNext, TradesNext, RaspNext, monitorVars, AnalyzeRequest, BlockedRequest, Cleanup,
           MonitorTick, AnalyzeLogin, AnalyzeTrade, RemoveFile, WriteFile, StoreBaseline, VerifyIntegrity, RestartRasp
  <2>3. RaspNext \/ UNCHANGED raspVars
    BY DEF RequestsNext, LoginsNext, TradesNext, SiemNext, monitorVars, AnalyzeRequest, BlockedRequest, Cleanup,
           MonitorTick, AnalyzeLogin, AnalyzeTrade, BeginSave, FinishSave, EventTick
  <2> QED  BY <2>1, <2>2, <2>3, EventsKeep, FilesKeep
<1>3. Inv => MonitorTypeOK
  <2> SUFFICES ASSUME Inv PROVE MonitorTypeOK
    OBVIOUS
  <2>1. evRead \in [EventWorkers -> -1 .. MaxEvents]
    <3>1. ASSUME NEW w \in EventWorkers PROVE evRead[w] \in -1 .. MaxEvents
      <4>1. PICK n \in Nat : n = Len(evRows)
        BY DEF EventInv
      <4>2. (evRead[w] = -1 \/ evRead[w] \in 0 .. n) /\ evRead[w] <= MaxEvents
        BY <4>1, Zenon DEF EventInv
      <4> QED  BY <4>2, MonitorAssumption
    <3> QED  BY <3>1 DEF EventInv
  <2> QED  BY <2>1 DEF MonitorTypeOK, LogInv, VerdictInv, EventInv, FilesInv, Changed
<1> QED  BY <1>1, <1>2, <1>3, PTL DEF MonitorSpec

-----------------------------------------------------------------------------
(* The parameter searches (ml/genetic_optimizer.py,                         *)
(* ml/enhancements/self_optimizing_system.py).                              *)

\* Of finitely many candidates measured in whole numbers one is the best.
LEMMA BestIsThere ==
    ASSUME NEW D, IsFiniteSet(D), D # {}, NEW f \in [D -> Int]
    PROVE  \E i \in D : \A j \in D : f[i] >= f[j]
<1> DEFINE S == {f[i] : i \in D}
<1>1. IsFiniteSet(S) /\ S \subseteq Int /\ S # {}
  BY ValuesAreFinite
<1>2. Max(S) \in S /\ \A y \in S : y <= Max(S)
  <2> HIDE DEF S
  <2> QED  BY <1>1, ExtremesExist
<1>3. PICK i \in D : f[i] = Max(S)
  BY <1>2
<1>4. ASSUME NEW j \in D PROVE f[i] >= f[j]
  <2>1. f[j] \in S /\ f[i] \in Int /\ f[j] \in Int
    OBVIOUS
  <2>2. f[j] <= f[i]
    BY <1>2, <1>3, <2>1
  <2> QED  BY <2>1, <2>2
<1> QED  BY <1>4

Candidates == [genes : Genomes, fitness : Int]
Pools == [1 .. PoolSize -> Candidates]

\* A search that was asked for has its population until it ends, and a best once it was judged.
OptimizerInv ==
    /\ gsPc \in {"idle", "evaluate", "judge", "evolve", "finish", "raised"} /\ gsWanted \in 0 .. 2
    /\ gsPool = <<>> \/ gsPool \in Pools
    /\ gsPc \in {"evaluate", "judge"} => gsPool \in Pools
    /\ gsBest = <<>> \/ \E c \in Candidates : gsBest = <<c>>
    /\ gsPc = "finish" => gsBest # <<>>
    /\ gsSaved \in Seq(Int) /\ Len(gsSaved) <= MaxSaved

LEMMA OptimizerKeeps ==
    ASSUME OptimizerInv, OptimizerNext
    PROVE  OptimizerInv'
<1>1. ASSUME NEW n \in 1 .. 2, NEW g \in [1 .. PoolSize -> Genomes], StartSearch(n, g)
      PROVE  OptimizerInv'
  <2>1. [i \in 1 .. PoolSize |-> [genes |-> g[i], fitness |-> 0]] \in Pools
    BY DEF Pools, Candidates
  <2>2. gsPool' \in Pools /\ gsPc' = "evaluate" /\ gsWanted' \in 0 .. 2 /\ gsBest' = <<>> /\ gsSaved' = gsSaved
    BY <1>1, <2>1 DEF StartSearch
  <2> QED  BY <2>2, Zenon DEF OptimizerInv
<1>2. ASSUME NEW failed \in SUBSET DOMAIN gsPool, EvaluatePool(failed)
      PROVE  OptimizerInv'
  <2>1. gsPool \in Pools /\ DOMAIN gsPool = 1 .. PoolSize
    BY <1>2 DEF EvaluatePool, OptimizerInv, Pools
  <2> DEFINE score(i) == IF i \in failed THEN FailScore ELSE Fitness(gsPool[i].genes)
  <2>2. ASSUME NEW i \in 1 .. PoolSize PROVE [gsPool[i] EXCEPT !.fitness = score(i)] \in Candidates
    <3>1. gsPool[i] \in Candidates
      BY <2>1 DEF Pools
    <3>2. score(i) \in Int
      BY <3>1, SearchAssumption DEF Candidates, FailScore
    <3> HIDE DEF score
    <3> QED  BY <3>1, <3>2 DEF Candidates
  <2>3. gsPool' = [i \in 1 .. PoolSize |-> [gsPool[i] EXCEPT !.fitness = score(i)]]
    BY <1>2, <2>1, Zenon DEF EvaluatePool
  <2> HIDE DEF score
  <2>4. gsPool' \in Pools
    BY <2>2, <2>3 DEF Pools
  <2>5. gsPc' = "judge" /\ gsWanted' = gsWanted /\ gsBest' = gsBest /\ gsSaved' = gsSaved
    BY <1>2 DEF EvaluatePool
  <2> QED  BY <2>4, <2>5, Zenon DEF OptimizerInv
<1>3. CASE Judge
  <2>1. gsPool \in Pools /\ DOMAIN gsPool = 1 .. PoolSize
    BY <1>3 DEF Judge, OptimizerInv, Pools
  <2> DEFINE judged == [i \in DOMAIN gsPool |->
                          [gsPool[i] EXCEPT !.fitness = IF Feasible(gsPool[i].genes) THEN @ ELSE @ - 5]]
             leader == CHOOSE c \in Range(judged) : \A d \in Range(judged) : c.fitness >= d.fitness
  <2>2. judged \in Pools
    <3>1. ASSUME NEW i \in 1 .. PoolSize
          PROVE  [gsPool[i] EXCEPT !.fitness = IF Feasible(gsPool[i].genes) THEN @ ELSE @ - 5] \in Candidates
      <4>1. gsPool[i] \in Candidates
        BY <2>1 DEF Pools
      <4>2. CASE Feasible(gsPool[i].genes)
        BY <4>1, <4>2 DEF Candidates
      <4>3. CASE ~Feasible(gsPool[i].genes)
        BY <4>1, <4>3 DEF Candidates
      <4> QED  BY <4>2, <4>3
    <3> QED  BY <2>1, <3>1 DEF Pools
  <2>3. /\ gsPool' = judged /\ gsBest' = BestEver(gsBest, leader) /\ gsPc' \in {"finish", "evolve"}
        /\ gsWanted' = gsWanted /\ gsSaved' = gsSaved
    BY <1>3, Zenon DEF Judge
  <2> HIDE DEF judged
  <2>4. leader \in Candidates
    <3>1. PICK n \in Nat \ {0} : n = PoolSize
      BY SearchAssumption
    <3>2. IsFiniteSet(1 .. n) /\ 1 .. n # {}
      <4>1. IsFiniteSet(1 .. n)
        BY FS_Interval
      <4>2. 1 \in 1 .. n
        OBVIOUS
      <4> QED  BY <4>1, <4>2
    <3>3. \A i \in 1 .. n : judged[i] \in Candidates
      BY <2>2, <3>1 DEF Pools
    <3>4. [i \in 1 .. n |-> judged[i].fitness] \in [1 .. n -> Int]
      BY <3>3 DEF Candidates
    <3>5. PICK i \in 1 .. n : \A j \in 1 .. n : [k \in 1 .. n |-> judged[k].fitness][i] >= [k \in 1 .. n |-> judged[k].fitness][j]
      BY <3>2, <3>4, BestIsThere
    <3>6. \A j \in 1 .. n : judged[i].fitness >= judged[j].fitness
      BY <3>5
    <3>7. Range(judged) = {judged[j] : j \in 1 .. n}
      BY <2>2, <3>1 DEF Range, Pools
    <3>8. judged[i] \in Range(judged) /\ \A d \in Range(judged) : judged[i].fitness >= d.fitness
      BY <3>6, <3>7
    <3>9. leader \in Range(judged)
      BY <3>8, Zenon
    <3> QED  BY <3>3, <3>7, <3>9
  <2> HIDE DEF leader
  <2>5. \/ gsBest' = gsBest /\ gsBest # <<>>
        \/ gsBest' = <<leader>>
    BY <2>3, Zenon DEF BestEver
  <2>6. gsBest' # <<>> /\ \E c \in Candidates : gsBest' = <<c>>
    <3>1. <<leader>> # <<>>
      OBVIOUS
    <3> QED  BY <2>4, <2>5, <3>1, Zenon DEF OptimizerInv
  <2>7. gsPool' \in Pools /\ gsPc' \notin {"evaluate", "judge"}
    BY <2>2, <2>3
  <2>8. gsPc' \in {"idle", "evaluate", "judge", "evolve", "finish", "raised"}
    BY <2>3
  <2> QED  BY <2>3, <2>6, <2>7, <2>8, Zenon DEF OptimizerInv
<1>4. CASE EvolveRaises
  BY <1>4 DEF EvolveRaises, OptimizerInv
<1>5. CASE FinishSearch
  <2>1. PICK c \in Candidates : gsBest = <<c>>
    <3>1. gsPc = "finish"
      BY <1>5 DEF FinishSearch
    <3>2. (gsBest = <<>> \/ \E c \in Candidates : gsBest = <<c>>) /\ gsBest # <<>>
      BY <3>1 DEF OptimizerInv
    <3> QED  BY <3>2
  <2>2. gsBest[1].fitness \in Int
    BY <2>1 DEF Candidates
  <2>3. \/ gsSaved' = gsSaved
        \/ gsSaved' = Append(gsSaved, gsBest[1].fitness) /\ Len(gsSaved) < MaxSaved
    BY <1>5 DEF FinishSearch
  <2>4. gsSaved \in Seq(Int) /\ Len(gsSaved) <= MaxSaved /\ MaxSaved \in Nat
    BY SearchAssumption DEF OptimizerInv
  <2>5. gsSaved' \in Seq(Int) /\ Len(gsSaved') <= MaxSaved
    <3>1. CASE gsSaved' = gsSaved
      BY <2>4, <3>1
    <3>2. CASE gsSaved' = Append(gsSaved, gsBest[1].fitness) /\ Len(gsSaved) < MaxSaved
      <4>1. PICK x \in Int : x = gsBest[1].fitness
        BY <2>2
      <4>2. PICK k \in Nat : k = Len(gsSaved)
        BY <2>4
      <4>3. Append(gsSaved, x) \in Seq(Int) /\ Len(Append(gsSaved, x)) = k + 1
        BY <2>4, <4>2
      <4> QED  BY <2>4, <3>2, <4>1, <4>2, <4>3
    <3> QED  BY <2>3, <3>1, <3>2
  <2>6. gsPc' = "idle" /\ gsWanted' = gsWanted /\ gsPool' = gsPool /\ gsBest' = gsBest
    BY <1>5 DEF FinishSearch
  <2> QED  BY <2>5, <2>6, Zenon DEF OptimizerInv
<1> QED  BY <1>1, <1>2, <1>3, <1>4, <1>5 DEF OptimizerNext

\* The parameters in use are the best so far, and the threshold stays in its range.
TuningInv ==
    /\ soBestParams \in SoParams /\ soCurrent = soBestParams
    /\ soThreshold \in LowThreshold .. HighThreshold
    /\ soRun \in {"never", "fresh", "due"}

LEMMA TuningKeeps ==
    ASSUME TuningInv, TuningNext
    PROVE  TuningInv'
<1>1. ASSUME NEW d \in SoData, NEW T \in (SUBSET SoParams) \ {{}}, RunOptimization(d, T)
      PROVE  TuningInv'
  <2> DEFINE best == CHOOSE p \in T : \A q \in T : SoFitness(d, p) >= SoFitness(d, q)
  <2>1. best \in T
    <3>1. IsFiniteSet(T) /\ T # {}
      BY SearchAssumption, FS_Subset
    <3>2. [p \in T |-> SoFitness(d, p)] \in [T -> Int]
      BY SearchAssumption
    <3>3. PICK p \in T : \A q \in T : [r \in T |-> SoFitness(d, r)][p] >= [r \in T |-> SoFitness(d, r)][q]
      BY <3>1, <3>2, BestIsThere
    <3>4. \A q \in T : SoFitness(d, p) >= SoFitness(d, q)
      BY <3>3
    <3> QED  BY <3>4, Zenon
  <2> DEFINE better == SoFitness(d, best) > soBest
  <2> HIDE DEF best
  <2> HIDE DEF better
  <2>2. /\ soBestParams' = IF better THEN best ELSE soBestParams
        /\ soCurrent' = IF better THEN best ELSE soBestParams
        /\ soThreshold' \in LowThreshold .. HighThreshold /\ soRun' = "fresh"
    BY <1>1 DEF RunOptimization, best, better
  <2> QED  BY <2>1, <2>2 DEF TuningInv
<1>2. CASE OptimizationDue
  BY <1>2 DEF OptimizationDue, TuningInv
<1>3. ASSUME NEW p \in BOOLEAN, UpdateFromTrade(p)
      PROVE  TuningInv'
  <2>1. PICK low, high, now \in Int : low = LowThreshold /\ high = HighThreshold /\ now = soThreshold /\ low <= now /\ now <= high
    BY SearchAssumption DEF TuningInv
  <2>2. Highest({low, now - 1}) \in low .. high
    <3>1. \E x \in {low, now - 1} : \A y \in {low, now - 1} : x >= y
      BY <2>1
    <3>2. Highest({low, now - 1}) = CHOOSE x \in {low, now - 1} : \A y \in {low, now - 1} : x >= y
      BY DEF Highest
    <3>3. Highest({low, now - 1}) \in {low, now - 1} /\ Highest({low, now - 1}) >= low
      BY <3>1, <3>2
    <3> QED  BY <2>1, <3>3
  <2>3. Lowest({high, now + 1}) \in low .. high
    <3>1. \E x \in {high, now + 1} : \A y \in {high, now + 1} : x <= y
      BY <2>1
    <3>2. Lowest({high, now + 1}) = CHOOSE x \in {high, now + 1} : \A y \in {high, now + 1} : x <= y
      BY DEF Lowest
    <3>3. Lowest({high, now + 1}) \in {high, now + 1} /\ Lowest({high, now + 1}) <= high
      BY <3>1, <3>2
    <3> QED  BY <2>1, <3>3
  <2>4. soThreshold' \in LowThreshold .. HighThreshold
    BY <1>3, <2>1, <2>2, <2>3, Zenon DEF UpdateFromTrade
  <2> QED  BY <1>3, <2>4, Zenon DEF UpdateFromTrade, TuningInv
<1> QED  BY <1>1, <1>2, <1>3 DEF TuningNext

\* Whatever fails in an evaluation, a search has one best, and its results on disk are bounded;
\* whatever the trades and the optimizer do, the parameters in use are the best ones so far
\* and the threshold stays in its range (genetic_optimizer.py, self_optimizing_system.py).
THEOREM SearchTypes == SearchSpec => []SearchTypeOK
<1>1. SearchInit => OptimizerInv /\ TuningInv
  <2>1. <<>> \in Seq(Int) /\ Len(<<>>) = 0 /\ MaxSaved \in Nat
    BY SearchAssumption
  <2> QED  BY <2>1 DEF SearchInit, OptimizerInv, TuningInv
<1>2. OptimizerInv /\ TuningInv /\ [SearchNext]_searchVars => OptimizerInv' /\ TuningInv'
  <2> SUFFICES ASSUME OptimizerInv, TuningInv, [SearchNext]_searchVars PROVE OptimizerInv' /\ TuningInv'
    OBVIOUS
  <2>1. CASE OptimizerNext
    <3>1. UNCHANGED soVars
      BY <2>1, Zenon DEF OptimizerNext, StartSearch, EvaluatePool, Judge, EvolveRaises, FinishSearch
    <3> QED  BY <2>1, <3>1, OptimizerKeeps, Zenon DEF TuningInv, soVars
  <2>2. CASE TuningNext
    <3>1. UNCHANGED gsVars
      BY <2>2, Zenon DEF TuningNext, RunOptimization, OptimizationDue, UpdateFromTrade
    <3> QED  BY <2>2, <3>1, TuningKeeps, Zenon DEF OptimizerInv, gsVars
  <2>3. CASE UNCHANGED searchVars
    BY <2>3, Zenon DEF OptimizerInv, TuningInv, searchVars, gsVars, soVars
  <2> QED  BY <2>1, <2>2, <2>3 DEF SearchNext
<1>3. OptimizerInv /\ TuningInv => SearchTypeOK
  <2> SUFFICES ASSUME OptimizerInv, TuningInv PROVE SearchTypeOK
    OBVIOUS
  <2>1. gsPool = <<>> \/ DOMAIN gsPool = 1 .. PoolSize
    BY DEF OptimizerInv, Pools
  <2>2. Len(gsBest) <= 1
    <3>1. CASE gsBest = <<>>
      BY <3>1
    <3>2. ASSUME NEW c, gsBest = <<c>> PROVE Len(gsBest) <= 1
      BY <3>2
    <3> QED  BY <3>1, <3>2 DEF OptimizerInv
  <2> QED  BY <2>1, <2>2, Zenon DEF SearchTypeOK, OptimizerInv, TuningInv
<1> QED  BY <1>1, <1>2, <1>3, PTL DEF SearchSpec

-----------------------------------------------------------------------------
(* Gold Edge (gold_edge/entry_logic.py, gold_edge/services.py).             *)

\* A clipped number is within its bounds.
LEMMA ClipsAreWithin ==
    ASSUME NEW x \in Int, NEW lo \in Int, NEW hi \in Int, lo <= hi
    PROVE  Clipped(x, lo, hi) \in lo .. hi
<1>1. PICK least \in Int : least = Min({hi, x}) /\ least <= hi
  BY LesserOfTwo
<1>2. Max({lo, least}) \in {lo, least} /\ lo <= Max({lo, least})
  BY GreaterOfTwo
<1>3. Clipped(x, lo, hi) = Max({lo, least})
  BY <1>1 DEF Clipped
<1> QED  BY <1>1, <1>2, <1>3

\* The composite, in hundredths of a percent.
Composites == {x \in Int : -10000 <= x /\ x <= 10000}

\* What holds of every answer, whatever the scores and the price.
SoundAnswer(r) ==
    /\ r.action \in {"ENTRY", "WATCH", "NO_TRADE"}
    /\ r.direction \in {"LONG", "SHORT", "NEUTRAL"}
    /\ r.combined \in CombinedScores
    /\ r.action = "ENTRY" \/ r.reasons # {}
    /\ r.action = "ENTRY" => r.reasons \subseteq {"weak"}

LEMMA AnswersAreBounded ==
    ASSUME NEW composite \in Composites, NEW zone \in FilterZones,
           NEW layer, NEW pos, NEW direction
    PROVE  Combined(Max({composite, -composite}), BorderScore(layer, pos, direction), FilterScore[zone]) \in CombinedScores
<1>1. PICK n \in Int : n = Max({composite, -composite}) /\ 0 <= n /\ n <= 10000
  <2>1. PICK up, down \in Int : up = composite /\ down = -composite /\ up + down = 0 /\ up <= 10000 /\ down <= 10000
    BY DEF Composites
  <2>2. Max({up, down}) \in {up, down} /\ up <= Max({up, down}) /\ down <= Max({up, down})
    BY GreaterOfTwo
  <2>3. Max({up, down}) \in Int /\ 0 <= Max({up, down}) /\ Max({up, down}) <= 10000
    BY <2>1, <2>2
  <2> QED  BY <2>1, <2>3
<1>2. PICK b \in {100, 80, 60, 40, 30, 20} : b = BorderScore(layer, pos, direction)
  BY DEF BorderScore
<1>3. PICK f \in {100, 50, 60, 0, 20} : f = FilterScore[zone]
  <2>1. \A ratio, low, high : FilterZone(ratio, low, high) \in {"quiet", "ideal", "volatile", "extreme"}
    BY DEF FilterZone
  <2>2. zone \in {"quiet", "ideal", "volatile", "extreme", "unknown"}
    BY <2>1 DEF FilterZones
  <2> QED  BY <2>2 DEF FilterScore
<1>4. Combined(n, b, f) \in CombinedScores
  <2>1. 20 <= b /\ b <= 100 /\ 0 <= f /\ f <= 100 /\ b \in Int /\ f \in Int
    OBVIOUS
  <2>2. 5 * n + 300 * b + 200 * f \in Nat /\ 5 * n + 300 * b + 200 * f <= 100000
    BY <1>1, <2>1
  <2> QED  BY <2>2 DEF Combined, CombinedScores
<1> QED  BY <1>1, <1>2, <1>3, <1>4

LEMMA AnswersAreSound ==
    ASSUME NEW composite \in Composites, NEW offset, NEW zone \in FilterZones, NEW atr
    PROVE  SoundAnswer(Evaluate(composite, offset, zone, atr))
<1> DEFINE direction == GecDirection(composite)
           gec == Max({composite, -composite})
           border == IF atr = 0 THEN BorderScore(0, 50, direction)
                                ELSE BorderScore(Layer(offset), PricePosition(offset), direction)
           combined == Combined(gec, border, FilterScore[zone])
           action == IF direction # "NEUTRAL" /\ combined >= 1000 * MinCombined /\ AllowEntry(zone)
                       THEN "ENTRY"
                     ELSE IF direction # "NEUTRAL" /\ combined >= 800 * MinCombined
                       THEN "WATCH" ELSE "NO_TRADE"
           reasons == {r \in {"neutral", "weak", "filter", "combined"} :
                         CASE r = "neutral" -> direction = "NEUTRAL"
                           [] r = "weak" -> gec < 100 * MinGecScore
                           [] r = "filter" -> ~AllowEntry(zone)
                           [] r = "combined" -> combined < 1000 * MinCombined}
           answer == Evaluate(composite, offset, zone, atr)
<1>1. answer = [action |-> action, direction |-> direction, combined |-> combined,
                levels |-> IF action = "ENTRY" THEN Levels(direction, atr) ELSE NoLevels, reasons |-> reasons]
  BY DEF Evaluate
<1> HIDE DEF answer, reasons, action, combined, border, gec
<1>2. direction \in {"LONG", "SHORT", "NEUTRAL"}
  BY DEF GecDirection
<1>3. combined \in CombinedScores
  <2>1. PICK layer, pos : border = BorderScore(layer, pos, direction)
    BY DEF border
  <2> HIDE DEF direction
  <2>2. Combined(Max({composite, -composite}), BorderScore(layer, pos, direction), FilterScore[zone]) \in CombinedScores
    BY AnswersAreBounded
  <2> QED  BY <2>1, <2>2, Zenon DEF combined, gec
<1> HIDE DEF direction
<1>4. /\ answer.action = action /\ answer.direction = direction
      /\ answer.combined = combined /\ answer.reasons = reasons
  BY <1>1
<1>5. PICK total \in Int, least \in Nat : total = combined /\ least = MinCombined
  BY <1>3, GoldAssumption DEF CombinedScores
<1>6. /\ action \in {"ENTRY", "WATCH", "NO_TRADE"}
      /\ action = "ENTRY" <=> direction # "NEUTRAL" /\ total >= 1000 * least /\ AllowEntry(zone)
  BY <1>5 DEF action
<1>7. /\ direction = "NEUTRAL" => "neutral" \in reasons
      /\ ~AllowEntry(zone) => "filter" \in reasons
      /\ total < 1000 * least => "combined" \in reasons
  BY <1>5 DEF reasons
<1>8. /\ "neutral" \in reasons => direction = "NEUTRAL"
      /\ "filter" \in reasons => ~AllowEntry(zone)
      /\ "combined" \in reasons => total < 1000 * least
      /\ reasons \subseteq {"neutral", "weak", "filter", "combined"}
  <2>1. reasons \subseteq {"neutral", "weak", "filter", "combined"}
    BY DEF reasons
  <2>2. "neutral" \in reasons => direction = "NEUTRAL"
    BY DEF reasons
  <2>3. "filter" \in reasons => ~AllowEntry(zone)
    BY DEF reasons
  <2>4. "combined" \in reasons => combined < 1000 * MinCombined
    BY DEF reasons
  <2> QED  BY <1>5, <2>1, <2>2, <2>3, <2>4
<1>9. total >= 1000 * least <=> ~(total < 1000 * least)
  BY <1>5
<1>10. action = "ENTRY" \/ reasons # {}
  BY <1>6, <1>7, <1>9
<1>11. action = "ENTRY" => reasons \subseteq {"weak"}
  <2> SUFFICES ASSUME action = "ENTRY" PROVE reasons \subseteq {"weak"}
    OBVIOUS
  <2>1. "neutral" \notin reasons /\ "filter" \notin reasons /\ "combined" \notin reasons
    BY <1>6, <1>8, <1>9
  <2> QED  BY <1>8, <2>1
<1>12. SoundAnswer(answer)
  BY <1>2, <1>3, <1>4, <1>6, <1>10, <1>11, Zenon DEF SoundAnswer
<1> QED  BY <1>12 DEF answer

LEMMA PipelinesAreSound ==
    ASSUME NEW r \in PipelineResults
    PROVE  SoundAnswer(r)
<1>1. CASE r = NoData
  BY <1>1 DEF NoData, SoundAnswer, CombinedScores
<1>2. ASSUME NEW m \in GoldScores, NEW v \in GoldScores, NEW d \in GoldScores \union {0},
             NEW o \in Offsets, NEW z \in FilterZones, NEW a \in {0, 1},
             r = Evaluate(Composite(m, m, v, d), o, z, a)
      PROVE  SoundAnswer(r)
  <2>1. m \in Int /\ v \in Int /\ d \in Int
    BY GoldAssumption
  <2>2. PICK x \in Int : x = 30 * m + 30 * m + 20 * v + 20 * d
    BY <2>1
  <2>3. PICK top \in Int : top = 10000
    OBVIOUS
  <2>4. -top \in Int /\ -top <= top /\ Clipped(x, -top, top) \in -top .. top
    <3>1. -top \in Int /\ -top <= top
      BY <2>3
    <3>2. PICK low \in Int : low = -top /\ low <= top
      BY <3>1
    <3>3. Clipped(x, low, top) \in low .. top
      BY <3>2, ClipsAreWithin
    <3> QED  BY <3>2, <3>3
  <2>5. Composite(m, m, v, d) \in Composites
    <3>1. Composite(m, m, v, d) = Clipped(x, -10000, 10000)
      BY <2>2 DEF Composite
    <3>2. Composite(m, m, v, d) = Clipped(x, -top, top)
      BY <2>3, <3>1
    <3>3. PICK c \in -top .. top : c = Clipped(x, -top, top)
      BY <2>4
    <3>4. c \in Int /\ -10000 <= c /\ c <= 10000
      BY <2>3
    <3> QED  BY <3>2, <3>3, <3>4 DEF Composites
  <2> QED  BY <1>2, <2>5, AnswersAreSound, Zenon
<1>3. r = NoData \/ \E m \in GoldScores, v \in GoldScores, d \in GoldScores \union {0},
                       o \in Offsets, z \in FilterZones, a \in {0, 1} :
                         r = Evaluate(Composite(m, m, v, d), o, z, a)
  BY DEF PipelineResults
<1> QED  BY <1>1, <1>2, <1>3

\* Every stored signal is of a symbol and an answer that asks for something.
GoldInv ==
    /\ SoundAnswer(goldResult)
    /\ goldSignals \in Seq([symbol : GoldSymbols, result : {r \in PipelineResults : Actionable(r)}])
    /\ goldScan \in Seq(GoldSymbols) /\ IsInjective(goldScan)

LEMMA GoldKeeps ==
    ASSUME GoldInv, [GoldNext]_goldVars
    PROVE  GoldInv'
<1>1. ASSUME NEW s \in GoldSymbols, NEW r \in PipelineResults, NEW c \in BOOLEAN, NEW k \in BOOLEAN, Analyse(s, r, c, k)
      PROVE  GoldInv'
  <2>1. goldResult' = r /\ goldScan' = goldScan
    BY <1>1 DEF Analyse
  <2>2. \/ goldSignals' = goldSignals
        \/ Actionable(r) /\ goldSignals' = Append(goldSignals, [symbol |-> s, result |-> r])
    BY <1>1 DEF Analyse
  <2> DEFINE Rows == [symbol : GoldSymbols, result : {q \in PipelineResults : Actionable(q)}]
  <2>3. Actionable(r) => [symbol |-> s, result |-> r] \in Rows
    OBVIOUS
  <2>4. goldSignals \in Seq(Rows)
    BY DEF GoldInv
  <2> HIDE DEF Rows
  <2>5. goldSignals' \in Seq(Rows)
    BY <2>2, <2>3, <2>4
  <2>6. SoundAnswer(goldResult')
    BY <2>1, PipelinesAreSound
  <2> QED  BY <2>1, <2>5, <2>6 DEF GoldInv, Rows
<1>2. ASSUME NEW rs \in [GoldSymbols -> PipelineResults], ScanSymbols(rs)
      PROVE  GoldInv'
  <2> DEFINE found == {s \in GoldSymbols : Actionable(rs[s])}
  <2>1. PICK n \in Nat : n = Cardinality(found)
    BY GoldAssumption, FS_Subset, FS_CardinalityType
  <2>2. /\ goldScan' \in [1 .. n -> found]
        /\ \A i, j \in 1 .. n : i < j => goldScan'[i] # goldScan'[j]
    BY <1>2, <2>1 DEF ScanSymbols
  <2>3. goldScan' \in Seq(GoldSymbols)
    BY <2>2
  <2>4. IsInjective(goldScan')
    BY <2>2 DEF IsInjective
  <2> QED  BY <1>2, <2>3, <2>4 DEF ScanSymbols, GoldInv
<1>3. CASE UNCHANGED goldVars
  BY <1>3 DEF goldVars, GoldInv
<1> QED  BY <1>1, <1>2, <1>3 DEF GoldNext, AnalyseNext, ScanNext

\* For any scores, prices and thresholds: what is not entered has a reason, a signal that is
\* stored to be entered passed the filter and the threshold, and the combined score stays
\* between 0 and 100 (entry_logic.py:207-293).
THEOREM GoldTypes == GoldSpec => []GoldTypeOK
<1>1. GoldInit => GoldInv
  <2>1. <<>> \in Seq(GoldSymbols) /\ IsInjective(<<>>)
    BY DEF IsInjective
  <2>2. SoundAnswer(NoData)
    BY DEF SoundAnswer, NoData, CombinedScores
  <2> QED  BY <2>1, <2>2 DEF GoldInit, GoldInv
<1>2. GoldInv /\ [GoldNext]_goldVars => GoldInv'
  BY GoldKeeps
<1>3. GoldInv => GoldTypeOK
  <2> SUFFICES ASSUME GoldInv PROVE GoldTypeOK
    OBVIOUS
  <2>1. ASSUME NEW i \in DOMAIN goldSignals
        PROVE  /\ goldSignals[i].symbol \in GoldSymbols /\ goldSignals[i].result.action \in {"ENTRY", "WATCH"}
               /\ goldSignals[i].result.action = "ENTRY" => goldSignals[i].result.reasons \subseteq {"weak"}
    <3> DEFINE Wanted == {q \in PipelineResults : Actionable(q)}
    <3>1. goldSignals[i] \in [symbol : GoldSymbols, result : Wanted]
      <4> DEFINE Rows == [symbol : GoldSymbols, result : Wanted]
      <4>1. goldSignals \in Seq(Rows)
        BY DEF GoldInv
      <4> HIDE DEF Rows
      <4>2. goldSignals[i] \in Rows
        BY <4>1
      <4> QED  BY <4>2 DEF Rows
    <3>2. goldSignals[i].symbol \in GoldSymbols /\ goldSignals[i].result \in PipelineResults /\ Actionable(goldSignals[i].result)
      BY <3>1
    <3>3. SoundAnswer(goldSignals[i].result)
      BY <3>2, PipelinesAreSound
    <3> QED  BY <3>2, <3>3, Zenon DEF SoundAnswer, Actionable
  <2>2. SoundAnswer(goldResult) /\ goldScan \in Seq(GoldSymbols) /\ IsInjective(goldScan)
    BY DEF GoldInv
  <2>3. goldResult.combined \in CombinedScores
    BY <2>2, Zenon DEF SoundAnswer
  <2>4. goldResult.action \in {"ENTRY", "WATCH", "NO_TRADE"} /\ goldResult.direction \in {"LONG", "SHORT", "NEUTRAL"}
    BY <2>2, Zenon DEF SoundAnswer
  <2>5. RefusalsHaveReasons
    BY <2>1, <2>2, Zenon DEF SoundAnswer, RefusalsHaveReasons
  <2> QED  BY <2>1, <2>2, <2>3, <2>4, <2>5 DEF GoldTypeOK
<1> QED  BY <1>1, <1>2, <1>3, PTL DEF GoldSpec

-----------------------------------------------------------------------------
(* The V6 cycle (ml/v6_orchestrator.py, ml/strategy_diversification.py).    *)

\* What was scanned, ranked and not yet traded, and the signal made of it.  No profit but
\* zero is ever learned, and between cycles nothing of the last one is left.
ScannedInv ==
    /\ v6Phase = "idle" => v6Opps = <<>> /\ v6Pred = {} /\ v6Size = 0
    /\ v6Phase # "idle" => v6Ready /\ v6Market \in V6Markets
    /\ v6Opps \in Seq(Range(v6Opps)) /\ Range(v6Opps) \subseteq DOMAIN v6Market
    /\ IsInjective(v6Opps)
    /\ \A s \in Range(v6Opps) : Liquid(v6Market[s])
    /\ v6Pred \subseteq Range(v6Opps)

SizedInv ==
    /\ v6Phase \in {"risk", "execution"} =>
         /\ v6Signal.symbol \in Range(v6Opps)
         /\ v6Signal.entry = v6Market[v6Signal.symbol].price
    /\ v6Size \in {0, 100}
    /\ v6Phase = "execution" => v6Size = 100

V6Inv ==
    /\ v6Phase \in {"idle", "analysis", "signal", "risk", "execution"}
    /\ ScannedInv
    /\ SizedInv
    /\ v6Kelly \in Seq({0}) /\ Len(v6Kelly) <= KellyWindow
    /\ v6Rates \in Seq(V6Regimes \X {80, 120}) /\ Len(v6Rates) <= MaxRates

LEMMA ScoresAreNumbers == ASSUME NEW q, Quoted(q) PROVE OpportunityScore(q) \in Int
<1>1. PICK spread \in Nat, volume \in Nat : spread = q.spread /\ volume = q.volume
  BY DEF Quoted
<1>2. Least(1000, q.volume) \in Int
  BY <1>1 DEF Least
<1>3. OpportunityScore(q) = 6 * Least(1000, q.volume) + 4 * (1000 - 200 * spread)
  BY <1>1 DEF OpportunityScore
<1>4. QED
  BY <1>2, <1>3

\* What is scanned is of the market, and there are finitely many symbols.
LEMMA ScannedIsFinite ==
    ASSUME NEW market
    PROVE  /\ IsFiniteSet(Scanned(market)) /\ Scanned(market) \subseteq DOMAIN market
           /\ \A s \in Scanned(market) : Liquid(market[s]) /\ RankOf(s) \in Nat
<1> DEFINE n == Len(V6Symbols)
<1>1. n \in Nat /\ DOMAIN V6Symbols = 1 .. n
  BY V6Assumption
<1>2. Range(V6Symbols) = {V6Symbols[i] : i \in 1 .. n}
  BY <1>1 DEF Range
<1>3. IsFiniteSet(Range(V6Symbols))
  <2> HIDE DEF n
  <2>1. IsFiniteSet(1 .. n)
    BY <1>1, FS_Interval
  <2>2. V6Symbols \in [1 .. n -> Range(V6Symbols)]
    BY <1>1, V6Assumption
  <2>3. V6Symbols \in Surjection(1 .. n, Range(V6Symbols))
    BY <1>2, <2>2 DEF Surjection
  <2>4. QED
    BY <2>1, <2>3, FS_Surjection
<1>4. Scanned(market) \subseteq Range(V6Symbols)
  BY DEF Scanned
<1>5. ASSUME NEW s \in Scanned(market) PROVE RankOf(s) \in Nat
  <2>1. \E i \in DOMAIN V6Symbols : V6Symbols[i] = s
    BY <1>2, <1>4, <1>1
  <2>2. RankOf(s) \in DOMAIN V6Symbols
    BY <2>1 DEF RankOf
  <2>3. QED
    BY <1>1, <2>2
<1>6. QED
  BY <1>3, <1>4, <1>5, FS_Subset DEF Scanned

\* A ranking lists what was scanned, each symbol once.
LEMMA RankingsListOnce ==
    ASSUME NEW market \in V6Markets, NEW ranked \in Rankings(market)
    PROVE  ranked \in Seq(Scanned(market)) /\ IsInjective(ranked)
<1> DEFINE n == Cardinality(Scanned(market))
<1>1. n \in Nat
  BY ScannedIsFinite, FS_CardinalityType
<1>2. ranked \in [1 .. n -> Scanned(market)]
  BY DEF Rankings
<1>3. ranked \in Seq(Scanned(market))
  <2> HIDE DEF n
  <2>1. QED
    BY <1>1, <1>2
<1>4. ASSUME NEW i \in DOMAIN ranked, NEW j \in DOMAIN ranked, i < j
      PROVE  ranked[i] # ranked[j]
  <2>1. Precedes(market, ranked[i], ranked[j])
    BY <1>4 DEF Rankings
  <2>2. ranked[i] \in Scanned(market)
    BY <1>2
  <2>3. RankOf(ranked[i]) \in Nat /\ ranked[i] \in DOMAIN market
    BY <2>2, ScannedIsFinite
  <2>4. Quoted(market[ranked[i]])
    BY <2>3, V6Assumption
  <2>5. OpportunityScore(market[ranked[i]]) \in Int
    BY <2>4, ScoresAreNumbers
  <2>6. QED
    BY <2>1, <2>3, <2>5 DEF Precedes
<1>5. IsInjective(ranked)
  <2> HIDE DEF n
  <2>1. DOMAIN ranked = 1 .. n
    BY <1>2
  <2>2. ASSUME NEW i \in DOMAIN ranked, NEW j \in DOMAIN ranked, ranked[i] = ranked[j]
        PROVE  i = j
    BY <1>1, <1>4, <2>1, <2>2
  <2>3. QED
    BY <2>2 DEF IsInjective
<1>6. QED
  BY <1>3, <1>5

\* Positive closes add up to a positive number.
LEMMA ClosesAddUp ==
    ASSUME NEW bars \in Seq(PriceBars), NEW n \in Nat \ {0}, n <= Len(bars)
    PROVE  SumOf(ClosesOf(bars, n)) \in Nat \ {0}
<1> DEFINE closes == ClosesOf(bars, n)
<1>1. ASSUME NEW i \in 1 .. n PROVE closes[i] \in Nat \ {0}
  <2>1. Len(bars) - n + i \in 1 .. Len(bars)
    OBVIOUS
  <2>2. bars[Len(bars) - n + i] \in PriceBars
    BY <2>1
  <2>3. bars[Len(bars) - n + i].close \in Nat \ {0}
    BY <2>2 DEF PriceBars
  <2>4. QED
    BY <2>3 DEF ClosesOf
<1>2. DOMAIN closes = 1 .. n
  BY DEF ClosesOf
<1> HIDE DEF closes
<1>3. IsFiniteSet(1 .. n) /\ Cardinality(1 .. n) = n
  BY FS_Interval
<1>4. SumOver(closes, 1 .. n) \in Int
  BY <1>1, <1>3, SumType
<1>5. (-1) * SumOver(closes, 1 .. n) <= 0 * SumOver(closes, 1 .. n) + (-1) * Cardinality(1 .. n)
  <2>1. \A i \in 1 .. n : closes[i] \in Int /\ (-1) * closes[i] <= 0 * closes[i] + (-1)
    BY <1>1
  <2>2. (-1) \in Int /\ 0 \in Int
    OBVIOUS
  <2>3. QED
    BY <1>3, <2>1, <2>2, SumsCompare
<1>6. SumOver(closes, 1 .. n) \in Nat \ {0}
  BY <1>3, <1>4, <1>5
<1>7. SumOf(closes) = SumOver(closes, 1 .. n)
  BY <1>2 DEF SumOf, SumAt, SumOver
<1>8. QED
  BY <1>6, <1>7 DEF closes

\* A ratio of numbers that are not negative is not negative.
LEMMA RatiosArePositive ==
    ASSUME NEW a \in Nat, NEW b \in Nat \ {0}
    PROVE  a \div b \in Nat
OBVIOUS

\* A capped strength, and the side a vote takes with it.
LEMMA CappedStrength ==
    ASSUME NEW a \in Int, NEW b \in Nat \ {0}
    PROVE  Strength(a, b) \in Nat /\ Strength(a, b) <= 90
<1>1. 10000 * Magnitude(a) \in Nat
  BY DEF Magnitude
<1>2. (10000 * Magnitude(a)) \div b \in Nat
  BY <1>1, RatiosArePositive
<1>3. QED
  BY <1>2 DEF Least, Strength

WithinOf(x, c) == x \in Int /\ -c <= x /\ x <= c

Leaning(vote) == vote.dir * vote.confidence

LEMMA VotesTakeSides ==
    ASSUME NEW c \in Nat
    PROVE  Leaning(NoVote) = 0 /\ Leaning(Vote(1, c)) = c /\ Leaning(Vote(-1, c)) = -c
BY DEF Leaning, NoVote, Vote

\* The close of the last bar of a feed, and of any other.
LEMMA ClosesArePositive ==
    ASSUME NEW bars \in Seq(PriceBars), NEW i \in 1 .. Len(bars)
    PROVE  bars[i].close \in Nat \ {0}
<1>1. bars[i] \in PriceBars
  OBVIOUS
<1>2. QED
  BY <1>1 DEF PriceBars

LEMMA ScalpingSide ==
    ASSUME NEW bars \in Seq(PriceBars)
    PROVE  WithinOf(Leaning(ScalpingVote(bars)), 90)
<1>1. CASE Len(bars) < MomentumBars
  <2>1. Leaning(ScalpingVote(bars)) = 0
    BY <1>1, VotesTakeSides DEF ScalpingVote
  <2>2. QED
    BY <2>1 DEF WithinOf
<1>2. CASE ~(Len(bars) < MomentumBars)
  <2>1. MomentumBars \in Nat \ {0}
    BY V6Assumption
  <2>2. Len(bars) - MomentumBars + 1 \in 1 .. Len(bars) /\ Len(bars) \in 1 .. Len(bars)
    BY <1>2, <2>1
  <2>3. PICK first \in Nat \ {0} : first = bars[Len(bars) - MomentumBars + 1].close
    BY <2>2, ClosesArePositive
  <2>4. CloseOf(bars) \in Nat \ {0}
    BY <2>2, ClosesArePositive DEF CloseOf
  <2> DEFINE move == CloseOf(bars) - first
             strength == Strength(move, first)
  <2>5. strength \in Nat /\ strength <= 90
    <3>1. CloseOf(bars) - first \in Int
      BY <2>3, <2>4
    <3>2. first \in Nat \ {0}
      BY <2>3
    <3> HIDE DEF move
    <3>3. QED
      BY ONLY <3>1, <3>2, CappedStrength DEF strength, move
  <2>6. ScalpingVote(bars) = IF 1000 * move > first THEN Vote(1, strength)
                             ELSE IF 1000 * move < -first THEN Vote(-1, strength)
                             ELSE NoVote
    BY <1>2, <2>3 DEF ScalpingVote
  <2> HIDE DEF move, strength
  <2>7. ScalpingVote(bars) \in {Vote(1, strength), Vote(-1, strength), NoVote}
    BY <2>6
  <2>8. QED
    <3>2. Leaning(ScalpingVote(bars)) \in {strength, -strength, 0}
      BY <2>5, <2>7, VotesTakeSides
    <3>3. QED
      BY <2>5, <3>2 DEF WithinOf
<1>3. QED
  BY <1>1, <1>2

\* Where the last close stands of the short average.
OffAverage(bars) == FastBars * CloseOf(bars) - SumOf(ClosesOf(bars, FastBars))

\* The trend strategy votes for the side of the average the close is on.
LEMMA TrendSide ==
    ASSUME NEW bars \in Seq(PriceBars)
    PROVE  /\ WithinOf(Leaning(TrendVote(bars)), 90)
           /\ Leaning(TrendVote(bars)) > 0 => OffAverage(bars) > 0
           /\ Leaning(TrendVote(bars)) < 0 => OffAverage(bars) < 0
<1>1. FastBars \in Nat \ {0} /\ SlowBars \in Nat \ {0} /\ FastBars <= SlowBars
  BY V6Assumption
<1>2. CASE Len(bars) < SlowBars
  <2>1. Leaning(TrendVote(bars)) = 0
    BY <1>2, VotesTakeSides DEF TrendVote
  <2>2. QED
    BY <2>1 DEF WithinOf
<1>3. CASE ~(Len(bars) < SlowBars)
  <2>1. PICK f \in Nat \ {0}, s \in Nat \ {0} :
            f = SumOf(ClosesOf(bars, FastBars)) /\ s = SumOf(ClosesOf(bars, SlowBars))
    BY <1>1, <1>3, ClosesAddUp
  <2>2. PICK close \in Nat \ {0} : close = CloseOf(bars)
    BY <1>1, <1>3, ClosesArePositive DEF CloseOf
  <2> DEFINE fast == f * SlowBars
             slow == s * FastBars
             now == close * SlowBars * FastBars
             strength == Strength(fast - slow, slow)
  <2>3. fast \in Nat /\ slow \in Nat \ {0} /\ now \in Nat
    BY <1>1, <2>1, <2>2
  <2>4. strength \in Nat /\ strength <= 90
    <3>1. fast - slow \in Int
      BY <2>3
    <3> HIDE DEF fast, slow
    <3>2. QED
      BY <2>3, <3>1, CappedStrength
  <2>5. TrendVote(bars) = IF fast > slow /\ now > fast THEN Vote(1, strength)
                          ELSE IF fast < slow /\ now < fast THEN Vote(-1, strength)
                          ELSE NoVote
    BY <1>3, <2>1, <2>2 DEF TrendVote
  <2>6. now > fast => FastBars * close > f
    BY <1>1, <2>1, <2>2
  <2>7. now < fast => FastBars * close < f
    BY <1>1, <2>1, <2>2
  <2>8. OffAverage(bars) = FastBars * close - f
    BY <2>1, <2>2 DEF OffAverage
  <2> HIDE DEF fast, slow, now, strength
  <2>9. CASE TrendVote(bars) = Vote(1, strength) /\ now > fast
    <3>1. Leaning(TrendVote(bars)) = strength
      BY <2>4, <2>9, VotesTakeSides
    <3>2. FastBars * close - f > 0
      BY <1>1, <2>1, <2>2, <2>6, <2>9
    <3>3. QED
      BY <2>4, <2>8, <3>1, <3>2 DEF WithinOf
  <2>10. CASE TrendVote(bars) = Vote(-1, strength) /\ now < fast
    <3>1. Leaning(TrendVote(bars)) = -strength
      BY <2>4, <2>10, VotesTakeSides
    <3>2. FastBars * close - f < 0
      BY <1>1, <2>1, <2>2, <2>7, <2>10
    <3>3. QED
      BY <2>4, <2>8, <3>1, <3>2 DEF WithinOf
  <2>11. CASE TrendVote(bars) = NoVote
    <3>1. Leaning(TrendVote(bars)) = 0
      BY <2>11, VotesTakeSides
    <3>2. QED
      BY <3>1 DEF WithinOf
  <2>12. QED
    BY <2>5, <2>9, <2>10, <2>11
<1>4. QED
  BY <1>2, <1>3

\* The reversion strategy votes for the other side.
LEMMA ReversionSide ==
    ASSUME NEW bars \in Seq(PriceBars)
    PROVE  /\ WithinOf(Leaning(ReversionVote(bars)), 85)
           /\ OffAverage(bars) > 0 => Leaning(ReversionVote(bars)) <= 0
           /\ OffAverage(bars) < 0 => Leaning(ReversionVote(bars)) >= 0
<1>1. Leaning(NoVote) = 0 /\ Leaning(Vote(1, 85)) = 85 /\ Leaning(Vote(-1, 85)) = -85
  BY VotesTakeSides
<1>2. CASE ReversionVote(bars) = NoVote
  BY <1>1, <1>2 DEF WithinOf
<1>3. CASE ReversionVote(bars) # NoVote
  <2>1. FastBars <= Len(bars)
    <3>1. FastBars \in Nat /\ Len(bars) \in Nat
      BY V6Assumption
    <3>2. QED
      BY <1>3, <3>1 DEF ReversionVote
  <2>2. OffAverage(bars) \in Int
    <3>1. FastBars \in Nat \ {0} /\ Len(bars) \in Nat
      BY V6Assumption
    <3>2. SumOf(ClosesOf(bars, FastBars)) \in Int
      BY <2>1, <3>1, ClosesAddUp
    <3>3. CloseOf(bars) \in Int
      BY <2>1, <3>1, ClosesArePositive DEF CloseOf
    <3>4. QED
      BY <3>1, <3>2, <3>3 DEF OffAverage
  <2>3. ReversionVote(bars) = Vote(IF OffAverage(bars) < 0 THEN 1 ELSE -1, 85)
    BY <1>3 DEF ReversionVote, OffAverage
  <2>4. CASE OffAverage(bars) < 0
    <3>1. Leaning(ReversionVote(bars)) = 85
      BY <1>1, <2>3, <2>4
    <3>2. QED
      BY <2>2, <2>4, <3>1 DEF WithinOf
  <2>5. CASE ~(OffAverage(bars) < 0)
    <3>1. Leaning(ReversionVote(bars)) = -85
      BY <1>1, <2>3, <2>5
    <3>2. QED
      BY <2>2, <2>5, <3>1 DEF WithinOf
  <2>6. QED
    BY <2>4, <2>5
<1>4. QED
  BY <1>2, <1>3

LEMMA BreakoutSide == \A bars : WithinOf(Leaning(BreakoutVote(bars)), 75)
<1>1. Leaning(NoVote) = 0 /\ Leaning(Vote(1, 75)) = 75 /\ Leaning(Vote(-1, 75)) = -75
  BY VotesTakeSides
<1>2. \A bars : BreakoutVote(bars) \in {NoVote, Vote(1, 75), Vote(-1, 75)}
  BY DEF BreakoutVote
<1>3. QED
  BY <1>1, <1>2 DEF WithinOf

\* With the weights it starts with the strategies are never surer than 60.75%: trend and
\* reversion cannot vote for the same side.
LEMMA DefaultsNeverAgree ==
    ASSUME NEW bars \in Seq(PriceBars)
    PROVE  ~Agreed(bars, DefaultWeights)
<1> DEFINE s == Leaning(ScalpingVote(bars))
           t == Leaning(TrendVote(bars))
           r == Leaning(ReversionVote(bars))
           b == Leaning(BreakoutVote(bars))
<1>1. s \in Int /\ -90 <= s /\ s <= 90
  BY ScalpingSide DEF WithinOf
<1>2. t \in Int /\ -90 <= t /\ t <= 90
  BY TrendSide DEF WithinOf
<1>3. r \in Int /\ -85 <= r /\ r <= 85
  BY ReversionSide DEF WithinOf
<1>4. b \in Int /\ -75 <= b /\ b <= 75
  BY BreakoutSide DEF WithinOf
<1>5. (t > 0 => r <= 0) /\ (t < 0 => r >= 0)
  BY TrendSide, ReversionSide
<1>6. Leaning(NewsVote) = 0
  BY VotesTakeSides DEF NewsVote
<1>7. CombinedScore(bars, DefaultWeights) = s * 30 + t * 25 + r * 15 + b * 15 + 0 * 15
  BY <1>6 DEF CombinedScore, DefaultWeights, Leaning
<1> HIDE DEF s, t, r, b
<1>8. /\ CombinedScore(bars, DefaultWeights) \in Int
      /\ -6075 <= CombinedScore(bars, DefaultWeights)
      /\ CombinedScore(bars, DefaultWeights) <= 6075
  BY <1>1, <1>2, <1>3, <1>4, <1>5, <1>7
<1>9. QED
  BY <1>8 DEF Agreed, Magnitude

\* A history of zeros has no winner: the Kelly fraction is the least, and no volatility
\* makes the size larger than the smallest.
LEMMA ZerosSizeLeast ==
    ASSUME NEW history \in Seq({0}), NEW ratio
    PROVE  SizeFor(history, ratio) = 100
<1>1. Len(history) \in Nat /\ KellyLeast \in Nat \ {0}
  BY V6Assumption
<1>2. WinsOf(history) = {}
  BY DEF WinsOf
<1>3. Cardinality(WinsOf(history)) = 0
  BY <1>2, FS_EmptySet
<1>4. WinRate(history) = 0
  <2>1. CASE Len(history) < KellyLeast
    BY <2>1 DEF WinRate
  <2>2. CASE ~(Len(history) < KellyLeast)
    <3>1. WinRate(history) = 0 \div Len(history)
      BY <1>3, <2>2 DEF WinRate
    <3>2. Len(history) \in Nat \ {0}
      BY <1>1, <2>2
    <3>3. \A n \in Nat \ {0} : 0 \div n = 0
      OBVIOUS
    <3>4. QED
      BY <3>1, <3>2, <3>3
  <2>3. QED
    BY <2>1, <2>2
<1>5. KellyFraction(history) = 1
  BY <1>4 DEF KellyFraction
<1>6. KellyMultiplier(history) = 60
  BY <1>4, <1>5 DEF KellyMultiplier, Least
<1>7. VolatilityScale(ratio) \in {120, 100, 70, 40}
  BY DEF VolatilityScale
<1>8. SizeFor(history, ratio) = Most(100, Least(200, (60 * VolatilityScale(ratio)) \div 100))
  BY <1>6 DEF SizeFor
<1>9. (60 * VolatilityScale(ratio)) \div 100 \in {72, 60, 42, 24}
  BY <1>7
<1>10. QED
  BY <1>8, <1>9 DEF Most, Least

\* What is kept of a learned history are zeros again, no more than the window.
LEMMA LearnedAreZeros ==
    ASSUME NEW history \in Seq({0})
    PROVE  Learned(history) \in Seq({0}) /\ Len(Learned(history)) <= KellyWindow
<1> DEFINE longer == Append(history, 0)
           n == Len(longer)
           first == Most(1, n - KellyWindow + 1)
<1>1. longer \in Seq({0}) /\ n \in Nat /\ KellyWindow \in Nat
  BY AppendProperties, V6Assumption
<1>2. first \in Int /\ 1 <= first /\ n - KellyWindow + 1 <= first
  BY <1>1 DEF Most
<1>3. \A i \in first .. n : longer[i] \in {0}
  BY <1>1, <1>2
<1>4. Learned(history) = SubSeq(longer, first, n)
  BY DEF Learned, LastOf
<1> HIDE DEF longer, n, first
<1>5. /\ SubSeq(longer, first, n) \in Seq({0})
      /\ Len(SubSeq(longer, first, n)) = IF first <= n THEN n - first + 1 ELSE 0
  BY <1>1, <1>2, <1>3, SubSeqProperties
<1>6. QED
  BY <1>1, <1>2, <1>4, <1>5

\* The first of a ranking are listed once too, and were scanned.
LEMMA FirstsAreScanned ==
    ASSUME NEW market \in V6Markets, NEW ranked \in Rankings(market)
    PROVE  LET firsts == SubSeq(ranked, 1, Least(TopFive, Len(ranked)))
           IN /\ firsts \in Seq(Range(firsts)) /\ Range(firsts) \subseteq Scanned(market)
              /\ IsInjective(firsts)
<1> DEFINE k == Least(TopFive, Len(ranked))
           firsts == SubSeq(ranked, 1, k)
<1>1. ranked \in Seq(Scanned(market)) /\ IsInjective(ranked)
  BY RankingsListOnce
<1>2. k \in Nat /\ k <= Len(ranked)
  BY <1>1 DEF Least, TopFive
<1>3. DOMAIN firsts = 1 .. k /\ \A i \in 1 .. k : firsts[i] = ranked[i]
  BY <1>1, <1>2
<1>4. \A i \in 1 .. k : i \in DOMAIN ranked /\ ranked[i] \in Scanned(market)
  BY <1>1, <1>2
<1>5. firsts \in Seq(Scanned(market))
  BY <1>1, <1>2
<1> HIDE DEF k, firsts
<1>6. Range(firsts) \subseteq Scanned(market)
  BY <1>3, <1>4 DEF Range
<1>7. firsts \in Seq(Range(firsts))
  BY <1>2, <1>3, <1>5 DEF Range
<1>8. IsInjective(firsts)
  BY <1>1, <1>3, <1>4 DEF IsInjective
<1>9. QED
  BY <1>6, <1>8, <1>7 DEF firsts, k

\* A signal is of an opportunity, at the market's price.
LEMMA SignalsAreListed ==
    ASSUME v6Opps \in Seq(Range(v6Opps)), V6Signalled # <<>>
    PROVE  /\ V6Signalled.symbol \in Range(v6Opps)
           /\ V6Signalled.entry = v6Market[V6Signalled.symbol].price
           /\ \E i \in DOMAIN v6Opps : Agreed(v6Market[v6Opps[i]].bars, v6Weights)
<1> DEFINE agreed == {i \in DOMAIN v6Opps : Agreed(v6Market[v6Opps[i]].bars, v6Weights)}
<1>1. agreed # {}
  BY DEF V6Signalled
<1>2. agreed \subseteq 1 .. Len(v6Opps) /\ Len(v6Opps) \in Nat
  OBVIOUS
<1> HIDE DEF agreed
<1>3. IsFiniteSet(agreed) /\ agreed \subseteq Int
  <2>1. IsFiniteSet(1 .. Len(v6Opps))
    BY <1>2, FS_Interval
  <2>2. IsFiniteSet(agreed)
    BY <1>2, <2>1, FS_Subset
  <2>3. QED
    BY <1>2, <2>2
<1>4. Min(agreed) \in agreed
  BY <1>1, <1>3, ExtremesExist
<1> USE DEF agreed
<1>5. V6Signalled.symbol = v6Opps[Min(agreed)]
      /\ V6Signalled.entry = v6Market[v6Opps[Min(agreed)]].price
  BY <1>1 DEF V6Signalled
<1>6. QED
  BY <1>4, <1>5 DEF Range

LEMMA V6InitInv == V6Init => V6Inv
<1>1. <<>> \in Seq({0}) /\ <<>> \in Seq(V6Regimes \X {80, 120}) /\ Len(<<>>) = 0
  OBVIOUS
<1>2. Range(<<>>) = {} /\ IsInjective(<<>>) /\ <<>> \in Seq({})
  BY DEF Range, IsInjective
<1>3. KellyWindow \in Nat /\ MaxRates \in Nat
  BY V6Assumption
<1>4. QED
  BY <1>1, <1>2, <1>3 DEF V6Init, V6Inv, ScannedInv, SizedInv

\* The end of a cycle leaves nothing of it.
LEMMA V6EndIsEmpty == V6End => ScannedInv' /\ SizedInv'
<1>1. Range(<<>>) = {} /\ IsInjective(<<>>) /\ <<>> \in Seq({})
  BY DEF Range, IsInjective
<1>2. QED
  BY <1>1 DEF V6End, ScannedInv, SizedInv

LEMMA V6ScanInv == ASSUME V6Inv, NEW market \in V6Markets, V6Scan(market) PROVE V6Inv'
<1>1. UNCHANGED <<v6Kelly, v6Rates>> /\ v6Phase = "idle" /\ v6Ready'
  BY DEF V6Scan, v6Kept, V6Initialize
<1>2. CASE Scanned(market) = {}
  <2>1. UNCHANGED <<v6Phase, v6Market, v6Opps, v6Pred, v6Signal, v6Size>>
    BY <1>2 DEF V6Scan, v6Cycle
  <2>2. QED
    BY <1>1, <2>1 DEF V6Inv, ScannedInv, SizedInv
<1>3. CASE Scanned(market) # {}
  <2>1. /\ v6Phase' = "analysis" /\ v6Market' = market
        /\ UNCHANGED <<v6Pred, v6Signal, v6Size>>
    BY <1>3 DEF V6Scan
  <2>2. PICK ranked \in Rankings(market) :
            v6Opps' = SubSeq(ranked, 1, Least(TopFive, Len(ranked)))
    BY <1>3 DEF V6Scan
  <2>3. /\ v6Opps' \in Seq(Range(v6Opps')) /\ Range(v6Opps') \subseteq Scanned(market)
        /\ IsInjective(v6Opps')
    BY <2>2, FirstsAreScanned
  <2>4. \A s \in Range(v6Opps') : s \in DOMAIN market /\ Liquid(market[s])
    BY <2>3, ScannedIsFinite
  <2>5. ScannedInv'
    BY <1>1, <2>1, <2>3, <2>4 DEF V6Inv, ScannedInv
  <2>6. SizedInv'
    BY <2>1 DEF V6Inv, SizedInv
  <2>7. QED
    BY <1>1, <2>1, <2>5, <2>6 DEF V6Inv
<1>4. QED
  BY <1>2, <1>3

LEMMA V6AnalyseInv ==
    ASSUME V6Inv, NEW regime \in V6Regimes, NEW piped, V6Analyse(regime, piped)
    PROVE  V6Inv'
<1>1. /\ v6Phase' = "signal" /\ v6Phase = "analysis"
      /\ UNCHANGED <<v6Ready, v6Market, v6Opps, v6Signal, v6Size, v6Kelly>>
  BY DEF V6Analyse
<1>2. v6Pred' \subseteq Range(v6Opps)
  BY DEF V6Analyse, AssetPredictions
<1>3. v6Rates' \in Seq(V6Regimes \X {80, 120}) /\ Len(v6Rates') <= MaxRates
  <2>1. LearningRate(50) \in {80, 120}
    BY DEF LearningRate
  <2>2. MaxRates \in Nat /\ Len(v6Rates) \in Nat
    BY V6Assumption DEF V6Inv
  <2>3. QED
    BY <2>1, <2>2 DEF V6Analyse, V6Inv
<1>4. QED
  BY <1>1, <1>2, <1>3 DEF V6Inv, ScannedInv, SizedInv

LEMMA V6GenerateInv == ASSUME V6Inv, V6Generate PROVE V6Inv'
<1>1. UNCHANGED <<v6Ready, v6Kelly, v6Rates>> /\ v6Phase = "signal"
  BY DEF V6Generate, v6Kept
<1>2. CASE V6Signalled = <<>>
  <2>1. V6End
    BY <1>2 DEF V6Generate
  <2>2. ScannedInv' /\ SizedInv' /\ v6Phase' = "idle"
    BY <2>1, V6EndIsEmpty DEF V6End
  <2>3. QED
    BY <1>1, <2>2 DEF V6Inv
<1>3. CASE V6Signalled # <<>>
  <2>1. /\ v6Phase' = "risk" /\ v6Signal' = V6Signalled
        /\ UNCHANGED <<v6Market, v6Opps, v6Pred, v6Size>>
    BY <1>3 DEF V6Generate
  <2>2. /\ V6Signalled.symbol \in Range(v6Opps)
        /\ V6Signalled.entry = v6Market[V6Signalled.symbol].price
    BY <1>3, SignalsAreListed DEF V6Inv, ScannedInv
  <2>3. QED
    BY <1>1, <2>1, <2>2 DEF V6Inv, ScannedInv, SizedInv
<1>4. QED
  BY <1>2, <1>3

LEMMA V6RiskInv == ASSUME V6Inv, V6Risk PROVE V6Inv'
<1>1. /\ v6Phase = "risk" /\ v6Phase' = "execution"
      /\ v6Size' = SizeFor(v6Kelly, v6Market[v6Signal.symbol].ratio)
      /\ UNCHANGED <<v6Ready, v6Kelly, v6Rates, v6Market, v6Opps, v6Pred, v6Signal>>
  BY DEF V6Risk, v6Kept
<1>2. v6Size' = 100
  BY <1>1, ZerosSizeLeast DEF V6Inv
<1>3. QED
  BY <1>1, <1>2 DEF V6Inv, ScannedInv, SizedInv

LEMMA V6ExecuteInv == ASSUME V6Inv, V6Execute PROVE V6Inv'
<1>1. V6End /\ UNCHANGED v6Rates
  BY DEF V6Execute
<1>2. ScannedInv' /\ SizedInv' /\ v6Phase' = "idle"
  BY <1>1, V6EndIsEmpty DEF V6End
<1>3. v6Kelly' \in Seq({0}) /\ Len(v6Kelly') <= KellyWindow
  BY LearnedAreZeros DEF V6Execute, V6Inv
<1>4. QED
  BY <1>1, <1>2, <1>3 DEF V6Inv

LEMMA V6Inductive == V6Inv /\ [V6Next]_v6Vars => V6Inv'
<1> SUFFICES ASSUME V6Inv, [V6Next]_v6Vars PROVE V6Inv'
  OBVIOUS
<1>1. ASSUME NEW report \in Reports, AdjustWeights(report) PROVE V6Inv'
  <2>1. UNCHANGED <<v6Ready, v6Phase, v6Market, v6Opps, v6Pred, v6Signal, v6Size, v6Kelly, v6Rates>>
    BY <1>1 DEF AdjustWeights, v6Cycle
  <2>2. QED
    BY <2>1 DEF V6Inv, ScannedInv, SizedInv
<1>2. CASE UNCHANGED v6Vars
  BY <1>2 DEF v6Vars, v6Cycle, v6Kept, V6Inv, ScannedInv, SizedInv
<1>3. QED
  BY <1>1, <1>2, V6ScanInv, V6AnalyseInv, V6GenerateInv, V6RiskInv, V6ExecuteInv DEF V6Next

\* What was liquid enough to be scanned passes the checks of the execution phase.
LEMMA ScannedPasses ==
    ASSUME NEW signal, NEW q, Quoted(q), Liquid(q), signal.entry = q.price
    PROVE  Passed(signal, q)
<1>1. SpreadLimit(signal.symbol) \in {5, 10, 15, 12}
  BY DEF SpreadLimit
<1>2. q.spread <= SpreadLimit(signal.symbol)
  BY <1>1 DEF Quoted, Liquid
<1>3. QED
  BY <1>2 DEF Passed, SlippageAccepted

\* The V6 cycle with the weights it starts with never has a signal; the orders it would
\* send have the smallest size and would not be refused (v6_orchestrator.py:162-236).
THEOREM V6Types == V6Spec => []V6TypeOK
<1>1. V6Inv => V6TypeOK
  <2> SUFFICES ASSUME V6Inv PROVE V6TypeOK
    OBVIOUS
  <2>1. NeverDiversified
    <3> SUFFICES ASSUME v6Weights = DefaultWeights, NEW i \in DOMAIN v6Opps
                 PROVE  ~Agreed(v6Market[v6Opps[i]].bars, v6Weights)
      BY DEF NeverDiversified
    <3>1. v6Opps[i] \in Range(v6Opps)
      BY DEF Range
    <3>2. v6Phase # "idle"
      BY DEF V6Inv, ScannedInv
    <3>3. v6Opps[i] \in DOMAIN v6Market /\ v6Market \in V6Markets
      BY <3>1, <3>2 DEF V6Inv, ScannedInv
    <3>4. v6Market[v6Opps[i]].bars \in Seq(PriceBars)
      BY <3>3, V6Assumption DEF Quoted
    <3>5. QED
      BY <3>4, DefaultsNeverAgree
  <2>2. NothingRejected
    <3> SUFFICES ASSUME v6Phase = "execution"
                 PROVE  Passed(v6Signal, v6Market[v6Signal.symbol])
      BY DEF NothingRejected
    <3>1. /\ v6Signal.symbol \in DOMAIN v6Market /\ v6Market \in V6Markets
          /\ Liquid(v6Market[v6Signal.symbol])
          /\ v6Signal.entry = v6Market[v6Signal.symbol].price
      BY DEF V6Inv, ScannedInv, SizedInv
    <3>2. Quoted(v6Market[v6Signal.symbol])
      BY <3>1, V6Assumption
    <3>3. QED
      BY <3>1, <3>2, ScannedPasses
  <2>3. SmallestSize
    BY DEF V6Inv, SizedInv, SmallestSize
  <2>4. QED
    BY <2>1, <2>2, <2>3 DEF V6Inv, ScannedInv, SizedInv, V6TypeOK
<1>2. QED
  BY <1>1, V6InitInv, V6Inductive, PTL DEF V6Spec
=============================================================================
