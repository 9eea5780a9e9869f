------------------------ MODULE OrderExecutionProofs ------------------------
(* Proofs about OrderExecution, for any tickets, workers and limits. *)
EXTENDS OrderExecution, TLAPS

\* What a worker has been told holds while it works on: the broker has had the
\* position a request was answered about, and closes, modifications and booked orders
\* are about trades in the book (services.py:225-282, 312-351).
Answered ==
    \A w \in Workers :
        /\ pc[w] = "idle" => tk[w] = NoTicket
        /\ pc[w] \in {"opened", "booking", "booked", "closed", "unbooking", "modifying"}
             => broker[tk[w]] # "none"
        /\ pc[w] \in {"booked", "closed", "unbooking", "modifying"}
             => trade[tk[w]] # "none"
        /\ pc[w] = "enforcing" /\ tk[w] # NoTicket => trade[tk[w]] # "none"

\* A trade in the book is a position the broker has, or had (services.py:239-265).
TradesAreReal == \A t \in Tickets : trade[t] # "none" => broker[t] # "none"

\* The monitor task has read a row that still shows every drawdown flag set since,
\* and a user without a row has no flags (tasks.py:300-346).
TaskCurrent ==
    /\ task.read => rows > 0
    /\ rows = 0 => flags = {}
    /\ \A w \in Workers : day[w] # "normal" => rows > 0
    /\ task.read /\ rows < 2 /\ "drawdown" \in flags => "drawdown" \in task.flags

IInv == TypeOK /\ Answered /\ TradesAreReal /\ FilledIsBooked

USE OrderAssumption

LEMMA NewRowTyped ==
  ASSUME TypeOK, CommitNewRow
  PROVE  rows' \in Nat /\ flags' \subseteq Flags /\ count' \in Nat
<1>1. rows' \in Nat
  BY DEF TypeOK, CommitNewRow
<1>2. MaxTradesFlags(1) \subseteq Flags
  BY DEF MaxTradesFlags, Flags
<1>3. CASE flags' = MaxTradesFlags(1) /\ count' = 1
  BY <1>1, <1>2, <1>3
<1>4. CASE UNCHANGED <<flags, count>>
  BY <1>1, <1>4 DEF TypeOK
<1>5. QED
  BY <1>3, <1>4 DEF CommitNewRow

LEMMA TargetTyped ==
  ASSUME flags \subseteq Flags, NEW b, SetTarget(b)
  PROVE  flags' \subseteq Flags
<1>1. flags' = flags \union {"target"} \/ flags' = flags \ {"target"}
  BY DEF SetTarget
<1>2. "target" \in Flags
  BY DEF Flags
<1>3. QED
  BY <1>1, <1>2

\* Every action keeps the types (models.py, services.py).
LEMMA TypeStep == TypeOK /\ [Next]_vars => TypeOK'
<1> SUFFICES ASSUME TypeOK, [Next]_vars PROVE TypeOK'
  OBVIOUS
<1> USE DEF TypeOK, Places
<1>1. ASSUME NEW w \in Workers, NEW t \in Tickets, PlaceOrder(w, t) PROVE TypeOK'
  BY <1>1 DEF PlaceOrder, Become, monitorVars, accountVars
<1>2. ASSUME NEW w \in Workers, NEW t \in Tickets, CloseTrade(w, t) PROVE TypeOK'
  <2>1. broker' \in [Tickets -> {"none", "open", "closed"}]
    BY <1>2 DEF CloseTrade, BrokerCloses
  <2>2. CASE Become(w, "closed", t)
    BY <1>2, <2>1, <2>2 DEF CloseTrade, Become, bookVars, monitorVars, accountVars
  <2>3. CASE UNCHANGED workerVars
    BY <1>2, <2>1, <2>3 DEF CloseTrade, workerVars, bookVars, monitorVars, accountVars
  <2>4. QED
    BY <1>2, <2>2, <2>3 DEF CloseTrade
<1>3. ASSUME NEW w \in Workers, NEW t \in Tickets, ModifyTrade(w, t) PROVE TypeOK'
  BY <1>3 DEF ModifyTrade, Become, bookVars, monitorVars, accountVars
<1>4. ASSUME NEW w \in Workers, EnforceDailyTarget(w) PROVE TypeOK'
  <2>1. PICK S \in SUBSET position : todo' = [todo EXCEPT ![w] = S]
    BY <1>4 DEF EnforceDailyTarget
  <2>2. todo' \in [Workers -> SUBSET Tickets]
    BY <2>1
  <2>3. QED
    BY <1>4, <2>2 DEF EnforceDailyTarget, bookVars, monitorVars, accountVars
<1>5. ASSUME NEW w \in Workers, Continue(w) PROVE TypeOK'
  <2>1. CASE RefuseOrder(w)
    BY <2>1 DEF RefuseOrder, Idle, Become, monitorVars, accountVars
  <2>2. CASE FillOrder(w)
    BY <2>2 DEF FillOrder, Become, bookVars, monitorVars, accountVars
  <2>3. CASE LoseAnswer(w)
    BY <2>3 DEF LoseAnswer, Idle, Become, bookVars, monitorVars, accountVars
  <2>4. CASE BookOrder(w)
    BY <2>4 DEF BookOrder, Idle, Become, bookVars, monitorVars, accountVars
  <2>5. CASE CommitOrder(w)
    <3>1. tk[w] \in Tickets
      BY <2>5 DEF CommitOrder
    <3>2. QED
      BY <2>5, <3>1, NewRowTyped DEF CommitOrder, Become, accountVars
  <2>6. CASE MarkFilled(w)
    BY <2>6 DEF MarkFilled, Idle, Become, monitorVars, accountVars
  <2>7. CASE BookClose(w)
    BY <2>7 DEF BookClose, Idle, Become, bookVars, monitorVars, accountVars
  <2>8. CASE CommitClose(w)
    BY <2>8, NewRowTyped DEF CommitClose, DropTrade, Idle, Become, accountVars
  <2>9. CASE SaveModified(w)
    BY <2>9 DEF SaveModified, Idle, Become, monitorVars, accountVars
  <2>10. CASE EnforceClose(w)
    <3>1. PICK t \in todo[w] :
            /\ todo' = [todo EXCEPT ![w] = @ \ {t}]
            /\ IF trade[t] = "OPEN"
               THEN /\ BrokerCloses(t)
                    /\ tk' = IF tk[w] = NoTicket /\ MonitorUpdatable
                             THEN [tk EXCEPT ![w] = t] ELSE tk
               ELSE UNCHANGED <<broker, tk>>
      BY <2>10 DEF EnforceClose
    <3>2. t \in Tickets /\ todo' \in [Workers -> SUBSET Tickets]
      BY <3>1
    <3>3. broker' \in [Tickets -> {"none", "open", "closed"}]
      BY <3>1, <3>2 DEF BrokerCloses
    <3>4. tk' \in [Workers -> Tickets \union {NoTicket}]
      BY <3>1, <3>2
    <3>5. \A v \in Workers : tk'[v] = NoTicket => tk[v] = NoTicket
      BY <3>1, <3>2
    <3>6. QED
      BY <2>10, <3>2, <3>3, <3>4, <3>5 DEF EnforceClose, bookVars, monitorVars, accountVars
  <2>11. CASE EnforceEnd(w)
    <3>1. trade' \in [Tickets -> {"none", "OPEN", "CLOSED"}] /\ position' \subseteq Tickets
      BY <2>11 DEF EnforceEnd, DropTrade
    <3>2. rows' \in Nat /\ flags' \subseteq Flags /\ count' \in Nat
      <4>1. CASE tk[w] # NoTicket
        BY <2>11, <4>1, NewRowTyped DEF EnforceEnd
      <4>2. CASE tk[w] = NoTicket /\ day[w] # "normal"
        BY <2>11, <4>2, TargetTyped DEF EnforceEnd
      <4>3. CASE tk[w] = NoTicket /\ day[w] = "normal"
        BY <2>11, <4>3 DEF EnforceEnd
      <4>4. QED
        BY <4>1, <4>2, <4>3
    <3>3. QED
      BY <2>11, <3>1, <3>2 DEF EnforceEnd, Quit, accountVars
  <2>12. QED
    BY <1>5, <2>1, <2>2, <2>3, <2>4, <2>5, <2>6, <2>7, <2>8, <2>9, <2>10, <2>11 DEF Continue
<1>6. ASSUME NEW w \in Workers, Crash(w) PROVE TypeOK'
  BY <1>6 DEF Crash, Quit, bookVars, monitorVars, accountVars
<1>7. ASSUME NEW t \in Tickets, CancelOrder(t) PROVE TypeOK'
  BY <1>7 DEF CancelOrder, monitorVars, accountVars, workerVars
<1>8. CASE CheckDailyStatus \/ OverrideHalt
  <2>1. flags' \subseteq Flags
    BY <1>8, TargetTyped DEF CheckDailyStatus, OverrideHalt
  <2>2. UNCHANGED <<broker, bookVars, rows, count, accountVars, workerVars, task>>
    BY <1>8 DEF CheckDailyStatus, OverrideHalt
  <2>3. QED
    BY <2>1, <2>2 DEF bookVars, accountVars, workerVars
<1>9. CASE MonitorRead
  BY <1>9 DEF MonitorRead, bookVars, accountVars, workerVars
<1>10. CASE MonitorSave
  <2>1. flags' \subseteq Flags /\ count' \in Nat
    BY <1>10, ZenonT(30) DEF MonitorSave, DrawdownFlags, MaxTradesFlags, Flags
  <2>2. task' \in [read : BOOLEAN, flags : SUBSET Flags, count : Nat, deep : BOOLEAN]
    BY <1>10 DEF MonitorSave, Resting
  <2>3. QED
    BY <1>10, <2>1, <2>2 DEF MonitorSave, bookVars, accountVars, workerVars
<1>11. CASE ResetDaily
  BY <1>11 DEF ResetDaily, KeptOverMidnight, bookVars, workerVars
<1>12. CASE SetEquity
  BY <1>12 DEF SetEquity, bookVars, monitorVars, workerVars
<1>13. CASE UNCHANGED vars
  BY <1>13 DEF vars, bookVars, monitorVars, accountVars, workerVars
<1>14. QED
  BY <1>1, <1>2, <1>3, <1>4, <1>5, <1>6, <1>7, <1>8, <1>9, <1>10, <1>11, <1>12, <1>13
     DEF Next, Begin, MonitorTask

LEMMA OrderTypesInit == Init => TypeOK
<1> SUFFICES ASSUME Init PROVE TypeOK
  OBVIOUS
<1>1. task \in [read : BOOLEAN, flags : SUBSET Flags, count : Nat, deep : BOOLEAN]
  BY DEF Init, Resting
<1>2. rows \in Nat /\ count \in Nat /\ flags \subseteq Flags /\ deep \in BOOLEAN
  BY DEF Init
<1>3. broker \in [Tickets -> {"none", "open", "closed"}]
  BY DEF Init
<1>4. trade \in [Tickets -> {"none", "OPEN", "CLOSED"}]
  BY DEF Init
<1>5. QED
  BY <1>1, <1>2, <1>3, <1>4 DEF Init, TypeOK, Places

\* Type correctness for any tickets, workers and limits.
THEOREM OrderTypes == Spec => []TypeOK
  BY OrderTypesInit, TypeStep, PTL DEF Spec

-----------------------------------------------------------------------------
(* The book and the broker *)

\* No step forgets a position the broker had or a trade that was booked.
LEMMA NothingForgotten ==
  ASSUME TypeOK, [Next]_vars
  PROVE  \A t \in Tickets : /\ broker[t] # "none" => broker'[t] # "none"
                            /\ trade[t] # "none" => trade'[t] # "none"
<1> DEFINE Kept == \A t \in Tickets : /\ broker[t] # "none" => broker'[t] # "none"
                                      /\ trade[t] # "none" => trade'[t] # "none"
<1> USE DEF TypeOK
<1>1. ASSUME NEW w \in Workers, Begin(w) PROVE Kept
  BY <1>1 DEF Begin, PlaceOrder, CloseTrade, BrokerCloses, ModifyTrade, EnforceDailyTarget, bookVars
<1>2. ASSUME NEW w \in Workers, Continue(w) PROVE Kept
  <2>1. CASE RefuseOrder(w) \/ BookOrder(w) \/ MarkFilled(w) \/ BookClose(w)
    BY <2>1 DEF RefuseOrder, BookOrder, MarkFilled, BookClose, bookVars
  <2>2. CASE FillOrder(w) \/ LoseAnswer(w)
    BY <2>2 DEF FillOrder, LoseAnswer, bookVars
  <2>3. CASE CommitOrder(w) \/ SaveModified(w)
    BY <2>3 DEF CommitOrder, SaveModified
  <2>4. CASE CommitClose(w) \/ EnforceEnd(w)
    BY <2>4 DEF CommitClose, EnforceEnd, DropTrade
  <2>5. CASE EnforceClose(w)
    BY <2>5 DEF EnforceClose, BrokerCloses, bookVars
  <2>6. QED
    BY <1>2, <2>1, <2>2, <2>3, <2>4, <2>5 DEF Continue
<1>3. ASSUME NEW w \in Workers, Crash(w) PROVE Kept
  BY <1>3 DEF Crash, bookVars
<1>4. ASSUME NEW t \in Tickets, CancelOrder(t) PROVE Kept
  BY <1>4 DEF CancelOrder
<1>5. CASE CheckDailyStatus \/ OverrideHalt \/ MonitorTask \/ ResetDaily \/ SetEquity
  BY <1>5 DEF CheckDailyStatus, OverrideHalt, MonitorTask, MonitorRead, MonitorSave, ResetDaily,
     SetEquity, bookVars
<1>6. CASE UNCHANGED vars
  BY <1>6 DEF vars, bookVars
<1>7. QED
  BY <1>1, <1>2, <1>3, <1>4, <1>5, <1>6 DEF Next

\* Each place a worker reaches, it reaches with what it was told there.
LEMMA AnsweredStep == IInv /\ [Next]_vars => Answered'
<1> SUFFICES ASSUME IInv, [Next]_vars PROVE Answered'
  OBVIOUS
<1> USE DEF IInv, TypeOK, Answered, TradesAreReal
<1>0. \A t \in Tickets : /\ broker[t] # "none" => broker'[t] # "none"
                         /\ trade[t] # "none" => trade'[t] # "none"
  BY NothingForgotten
<1>1. ASSUME NEW w \in Workers, NEW t \in Tickets, PlaceOrder(w, t) PROVE Answered'
  BY <1>0, <1>1 DEF PlaceOrder, Become
<1>2. ASSUME NEW w \in Workers, NEW t \in Tickets, CloseTrade(w, t) PROVE Answered'
  <2>1. CASE Become(w, "closed", t)
    BY <1>0, <1>2, <2>1 DEF CloseTrade, Become, bookVars
  <2>2. CASE UNCHANGED workerVars
    BY <1>0, <1>2, <2>2 DEF CloseTrade, workerVars, bookVars
  <2>3. QED
    BY <1>2, <2>1, <2>2 DEF CloseTrade
<1>3. ASSUME NEW w \in Workers, NEW t \in Tickets, ModifyTrade(w, t) PROVE Answered'
  BY <1>0, <1>3 DEF ModifyTrade, Become, bookVars
<1>4. ASSUME NEW w \in Workers, EnforceDailyTarget(w) PROVE Answered'
  <2>1. tk[w] = NoTicket \/ trade[tk[w]] # "none"
    BY <1>4 DEF EnforceDailyTarget
  <2>2. QED
    BY <1>0, <1>4, <2>1 DEF EnforceDailyTarget, bookVars
<1>5. ASSUME NEW w \in Workers, Continue(w) PROVE Answered'
  <2>1. CASE RefuseOrder(w) \/ MarkFilled(w) \/ SaveModified(w)
    BY <1>0, <2>1 DEF RefuseOrder, MarkFilled, SaveModified, Idle, Become
  <2>2. CASE FillOrder(w)
    BY <1>0, <2>2 DEF FillOrder, Become, bookVars
  <2>3. CASE LoseAnswer(w)
    BY <1>0, <2>3 DEF LoseAnswer, Idle, Become, bookVars
  <2>4. CASE BookOrder(w) \/ BookClose(w)
    BY <1>0, <2>4 DEF BookOrder, BookClose, Idle, Become, bookVars
  <2>5. CASE CommitOrder(w)
    BY <1>0, <2>5 DEF CommitOrder, Become
  <2>6. CASE CommitClose(w)
    BY <1>0, <2>6 DEF CommitClose, Idle, Become
  <2>7. CASE EnforceClose(w)
    <3>1. \A v \in Workers : tk'[v] = tk[v] \/ (v = w /\ tk'[v] \in Tickets /\ trade[tk'[v]] = "OPEN")
      BY <2>7 DEF EnforceClose
    <3>2. QED
      BY <1>0, <2>7, <3>1 DEF EnforceClose, bookVars
  <2>8. CASE EnforceEnd(w)
    BY <1>0, <2>8 DEF EnforceEnd, Quit
  <2>9. QED
    BY <1>5, <2>1, <2>2, <2>3, <2>4, <2>5, <2>6, <2>7, <2>8 DEF Continue
<1>6. ASSUME NEW w \in Workers, Crash(w) PROVE Answered'
  BY <1>0, <1>6 DEF Crash, Quit
<1>7. CASE UNCHANGED workerVars
  BY <1>0, <1>7 DEF workerVars
<1>8. QED
  BY <1>1, <1>2, <1>3, <1>4, <1>5, <1>6, <1>7
     DEF Next, Begin, CancelOrder, CheckDailyStatus, OverrideHalt, MonitorTask, MonitorRead,
         MonitorSave, ResetDaily, SetEquity, vars

\* The book only gains trades the broker has, and the view's row becomes FILLED only
\* after its transaction has committed.
LEMMA BookStep == IInv /\ [Next]_vars => (TradesAreReal /\ FilledIsBooked)'
<1> SUFFICES ASSUME IInv, [Next]_vars PROVE (TradesAreReal /\ FilledIsBooked)'
  OBVIOUS
<1> USE DEF IInv, TypeOK, Answered, TradesAreReal, FilledIsBooked
<1>0. \A t \in Tickets : /\ broker[t] # "none" => broker'[t] # "none"
                         /\ trade[t] # "none" => trade'[t] # "none"
  BY NothingForgotten
<1>1. \A t \in Tickets : trade'[t] # "none" => trade[t] # "none" \/ broker[t] # "none"
  <2>1. ASSUME NEW w \in Workers, CommitOrder(w) \/ SaveModified(w)
        PROVE \A t \in Tickets : trade'[t] # "none" => trade[t] # "none" \/ broker[t] # "none"
    BY <2>1 DEF CommitOrder, SaveModified
  <2>2. ASSUME NEW w \in Workers, CommitClose(w)
        PROVE \A t \in Tickets : trade'[t] # "none" => trade[t] # "none" \/ broker[t] # "none"
    BY <2>2 DEF CommitClose, DropTrade
  <2>3. ASSUME NEW w \in Workers, EnforceEnd(w)
        PROVE \A t \in Tickets : trade'[t] # "none" => trade[t] # "none" \/ broker[t] # "none"
    BY <2>3 DEF EnforceEnd, DropTrade
  <2>4. CASE UNCHANGED trade
    BY <2>4
  <2>5. QED
    BY <2>1, <2>2, <2>3, <2>4
       DEF Next, Begin, Continue, PlaceOrder, CloseTrade, ModifyTrade, EnforceDailyTarget,
           RefuseOrder, FillOrder, LoseAnswer, BookOrder, MarkFilled, BookClose, EnforceClose,
           Crash, CancelOrder, CheckDailyStatus, OverrideHalt, MonitorTask, MonitorRead,
           MonitorSave, ResetDaily, SetEquity, bookVars, vars
<1>2. \A t \in Tickets :
        order'[t] = "FILLED" => order[t] = "FILLED" \/ (trade[t] # "none" /\ broker[t] # "none")
  <2>1. ASSUME NEW w \in Workers, MarkFilled(w) \/ RefuseOrder(w)
        PROVE \A t \in Tickets :
                order'[t] = "FILLED" => order[t] = "FILLED" \/ (trade[t] # "none" /\ broker[t] # "none")
    BY <2>1 DEF MarkFilled, RefuseOrder
  <2>2. ASSUME NEW w \in Workers, NEW t \in Tickets, PlaceOrder(w, t) \/ CancelOrder(t)
        PROVE \A u \in Tickets : order'[u] = "FILLED" => order[u] = "FILLED"
    BY <2>2 DEF PlaceOrder, CancelOrder
  <2>3. ASSUME NEW t \in Tickets, CancelOrder(t)
        PROVE \A u \in Tickets : order'[u] = "FILLED" => order[u] = "FILLED"
    BY <2>3 DEF CancelOrder
  <2>4. CASE UNCHANGED order
    BY <2>4
  <2>5. QED
    BY <2>1, <2>2, <2>3, <2>4
       DEF Next, Begin, Continue, CloseTrade, ModifyTrade, EnforceDailyTarget,
           FillOrder, LoseAnswer, BookOrder, CommitOrder, BookClose, CommitClose, SaveModified,
           EnforceClose, EnforceEnd, Crash, CheckDailyStatus, OverrideHalt, MonitorTask,
           MonitorRead, MonitorSave, ResetDaily, SetEquity, bookVars, vars
<1>3. QED
  BY <1>0, <1>1, <1>2

\* An order is shown as FILLED only when its trade is in the book and the broker has,
\* or had, the position, for any tickets, workers, losses and crashes (views.py:200-203).
THEOREM FilledOrdersAreBooked == Spec => []FilledIsBooked
<1>1. Init => IInv
  <2>1. Init => TypeOK
    BY OrderTypesInit
  <2>2. QED
    BY <2>1 DEF Init, IInv, Answered, TradesAreReal, FilledIsBooked
<1>2. IInv /\ [Next]_vars => IInv'
  BY TypeStep, AnsweredStep, BookStep DEF IInv
<1>3. IInv => FilledIsBooked
  BY DEF IInv
<1>4. QED
  BY <1>1, <1>2, <1>3, PTL DEF Spec

\* A Position row never outlives its trade (services.py:337-351).
THEOREM PositionsStayOpen == Spec => []PositionsAreOpen
<1>1. Init => TypeOK /\ PositionsAreOpen
  BY OrderTypesInit DEF Init, PositionsAreOpen
<1>2. TypeOK /\ PositionsAreOpen /\ [Next]_vars => PositionsAreOpen'
  <2> SUFFICES ASSUME TypeOK, PositionsAreOpen, [Next]_vars PROVE PositionsAreOpen'
    OBVIOUS
  <2> USE DEF TypeOK, PositionsAreOpen
  <2>1. ASSUME NEW w \in Workers, CommitOrder(w) \/ SaveModified(w) PROVE PositionsAreOpen'
    BY <2>1 DEF CommitOrder, SaveModified
  <2>2. ASSUME NEW w \in Workers, CommitClose(w) PROVE PositionsAreOpen'
    BY <2>2 DEF CommitClose, DropTrade
  <2>3. ASSUME NEW w \in Workers, EnforceEnd(w) PROVE PositionsAreOpen'
    BY <2>3 DEF EnforceEnd, DropTrade
  <2>4. CASE UNCHANGED <<trade, position>>
    BY <2>4
  <2>5. QED
    BY <2>1, <2>2, <2>3, <2>4
       DEF Next, Begin, Continue, PlaceOrder, CloseTrade, ModifyTrade, EnforceDailyTarget,
           RefuseOrder, FillOrder, LoseAnswer, BookOrder, MarkFilled, BookClose, EnforceClose,
           Crash, CancelOrder, CheckDailyStatus, OverrideHalt, MonitorTask, MonitorRead,
           MonitorSave, ResetDaily, SetEquity, bookVars, vars
<1>3. QED
  BY <1>1, <1>2, TypeStep, PTL DEF Spec

-----------------------------------------------------------------------------
(* The drawdown halt *)

\* The snapshot of the monitor task keeps up with the row while there is one row.
LEMMA TaskStep == TypeOK /\ TaskCurrent /\ [Next]_vars => TaskCurrent'
<1> SUFFICES ASSUME TypeOK, TaskCurrent, [Next]_vars PROVE TaskCurrent'
  OBVIOUS
<1> USE DEF TypeOK, TaskCurrent
<1>1. ASSUME NEW w \in Workers, Continue(w) PROVE TaskCurrent'
  <2>1. CASE CommitOrder(w) \/ CommitClose(w)
    BY <2>1 DEF CommitOrder, CommitClose, CommitNewRow, MaxTradesFlags, Idle, Become
  <2>2. CASE EnforceEnd(w)
    <3>1. \A v \in Workers : day'[v] # "normal" => day[v] # "normal"
      BY <2>2 DEF EnforceEnd, Quit
    <3>2. CASE tk[w] # NoTicket
      BY <2>2, <3>1, <3>2 DEF EnforceEnd, CommitNewRow, MaxTradesFlags
    <3>3. CASE tk[w] = NoTicket
      BY <2>2, <3>1, <3>3 DEF EnforceEnd, SetTarget
    <3>4. QED
      BY <3>2, <3>3
  <2>3. CASE UNCHANGED <<rows, flags, task, day>>
    BY <2>3
  <2>4. QED
    BY <1>1, <2>1, <2>2, <2>3 DEF Continue, RefuseOrder, FillOrder, LoseAnswer, BookOrder,
       MarkFilled, BookClose, SaveModified, EnforceClose, Idle, Become, monitorVars
<1>2. CASE CheckDailyStatus \/ OverrideHalt
  BY <1>2 DEF CheckDailyStatus, SetTarget, OverrideHalt, workerVars
<1>3. CASE MonitorRead
  BY <1>3 DEF MonitorRead, workerVars
<1>4. CASE MonitorSave
  BY <1>4 DEF MonitorSave, Resting, workerVars
<1>5. CASE ResetDaily
  BY <1>5 DEF ResetDaily, KeptOverMidnight, workerVars
<1>6. CASE UNCHANGED <<rows, flags, task, day>>
  BY <1>6
<1>7. ASSUME NEW w \in Workers, EnforceDailyTarget(w) PROVE TaskCurrent'
  BY <1>7 DEF EnforceDailyTarget, monitorVars
<1>8. ASSUME NEW w \in Workers, Crash(w) PROVE TaskCurrent'
  BY <1>8 DEF Crash, Quit, monitorVars
<1>9. ASSUME NEW w \in Workers, NEW t \in Tickets,
             PlaceOrder(w, t) \/ CloseTrade(w, t) \/ ModifyTrade(w, t)
      PROVE  UNCHANGED <<rows, flags, task, day>>
  BY <1>9 DEF PlaceOrder, CloseTrade, ModifyTrade, Become, monitorVars, workerVars
<1>10. QED
  BY <1>1, <1>2, <1>3, <1>4, <1>5, <1>6, <1>7, <1>8, <1>9
     DEF Next, Begin, CancelOrder, MonitorTask, SetEquity, monitorVars, workerVars, vars

\* A drawdown halt outlasts resets, overrides and stale saves, as long as the user has
\* one monitor row (models.py:651-659, tasks.py:317-346).
THEOREM DrawdownStays == Spec => DrawdownSticky
<1>1. Init => TypeOK /\ TaskCurrent
  BY OrderTypesInit DEF Init, TaskCurrent, Resting
<1>2. TypeOK /\ TaskCurrent /\ [Next]_vars
        => (rows' < 2 /\ "drawdown" \in flags => "drawdown" \in flags')
  <2> SUFFICES ASSUME TypeOK, TaskCurrent, [Next]_vars, rows' < 2, "drawdown" \in flags
               PROVE  "drawdown" \in flags'
    OBVIOUS
  <2> USE DEF TypeOK, TaskCurrent
  <2>1. ASSUME NEW w \in Workers, Continue(w) PROVE "drawdown" \in flags'
    <3>1. ~CommitNewRow
      BY DEF CommitNewRow
    <3>2. CASE EnforceEnd(w)
      BY <3>1, <3>2 DEF EnforceEnd, SetTarget
    <3>3. CASE UNCHANGED flags
      BY <3>3
    <3>4. QED
      BY <2>1, <3>1, <3>2, <3>3 DEF Continue, RefuseOrder, FillOrder, LoseAnswer, BookOrder,
         CommitOrder, CommitClose, MarkFilled, BookClose, SaveModified, EnforceClose, monitorVars
  <2>2. CASE CheckDailyStatus \/ OverrideHalt
    BY <2>2 DEF CheckDailyStatus, SetTarget, OverrideHalt
  <2>3. CASE MonitorSave
    BY <2>3 DEF MonitorSave
  <2>4. CASE ResetDaily
    BY <2>4 DEF ResetDaily, KeptOverMidnight
  <2>5. CASE UNCHANGED flags
    BY <2>5
  <2>6. QED
    BY <2>1, <2>2, <2>3, <2>4, <2>5
       DEF Next, Begin, PlaceOrder, CloseTrade, ModifyTrade, EnforceDailyTarget, Crash, CancelOrder,
           MonitorTask, MonitorRead, SetEquity, monitorVars, vars
<1>3. TypeOK /\ TaskCurrent /\ [Next]_vars
        => [rows' < 2 /\ "drawdown" \in flags => "drawdown" \in flags']_vars
  BY <1>2
<1>4. QED
  BY <1>1, <1>3, TypeStep, TaskStep, PTL DEF Spec, DrawdownSticky
=============================================================================
