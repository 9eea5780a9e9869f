--------------------------- MODULE OrderExecution ---------------------------
(***************************************************************************)
(* trading/services.py and trading/views.py with the DrawdownMonitor row   *)
(* of risk_management: one user's orders, trades and positions, the        *)
(* broker's own positions, and the flags that halt trading.                *)
(*                                                                         *)
(* A request runs from one broker call to the next.  execute_market_order  *)
(* and close_trade are one database transaction each, with the broker call *)
(* inside: what they write is seen when they commit, what the broker did   *)
(* stays when they roll back.  A ticket names a request, the broker        *)
(* position it leads to and the rows about it.                             *)
(***************************************************************************)
EXTENDS Integers, FiniteSets

CONSTANTS
    Tickets,         \* bound: requests and positions in a behaviour
    Seeded,          \* tickets entered with the admin pages before the behaviour
    Buys,            \* those of them on the buy side; the others sell
    NoTicket,
    Workers,         \* processes that serve requests
    Enforcers,       \* those that serve the daily-target page
    Levels,          \* day results the equity may take: "gain" the target, "dip" the loss limit
    MaxUnits,        \* open positions that make 50% of the equity
    MaxDailyTrades,  \* RiskParameter.max_daily_trades
    Lossy            \* whether broker answers get lost and workers die

ASSUME OrderAssumption ==
    /\ Seeded \subseteq Tickets
    /\ NoTicket \notin Tickets
    /\ Enforcers \subseteq Workers
    /\ Buys \subseteq Tickets
    /\ Levels \subseteq {"gain", "dip"}
    /\ MaxUnits \in Nat
    /\ MaxDailyTrades \in Nat \ {0, 1}
    /\ Lossy \in BOOLEAN

VARIABLES
    broker,    \* the broker's position (external)
    order,     \* the Order row OrderCreateView makes
    trade,     \* the Trade row
    position,  \* tickets with a Position row
    rows,      \* DrawdownMonitor rows of the user; the user column is not unique
    flags,     \* the is_*_triggered columns of the newest row
    count,     \* its daily_trades_count
    equity,    \* user.equity against the day's start: target or loss limit reached
    deep,      \* user.equity is max_drawdown below the peak
    pc, tk,    \* each worker's place and ticket
    todo, day, \* enforce_daily_target: positions to close, equity it compared, if there was a row
    task       \* monitor_drawdown: whether it has read the row, and what it read

bookVars    == <<order, trade, position>>
monitorVars == <<rows, flags, count>>
accountVars == <<equity, deep>>
workerVars  == <<pc, tk, todo, day>>
vars == <<broker, bookVars, monitorVars, accountVars, workerVars, task>>

Flags   == {"drawdown", "target", "max_trades", "breaker"}
Resting == [read |-> FALSE, flags |-> {}, count |-> 0, deep |-> FALSE]

Init ==
    /\ broker = [t \in Tickets |-> IF t \in Seeded THEN "open" ELSE "none"]
    /\ order = [t \in Tickets |-> "none"]
    /\ trade = [t \in Tickets |-> IF t \in Seeded THEN "OPEN" ELSE "none"]
    /\ position = Seeded
    /\ rows = 0 /\ flags = {} /\ count = 0
    /\ equity = "normal" /\ deep = FALSE
    /\ pc = [w \in Workers |-> "idle"]
    /\ tk = [w \in Workers |-> NoTicket]
    /\ todo = [w \in Workers |-> {}]
    /\ day = [w \in Workers |-> "normal"]
    /\ task = Resting

\* A worker takes up a place, with a ticket.
Become(w, place, t) ==
    /\ pc' = [pc EXCEPT ![w] = place]
    /\ tk' = [tk EXCEPT ![w] = t]
    /\ UNCHANGED <<todo, day>>

Idle(w) == Become(w, "idle", NoTicket)

\* It forgets what it was enforcing, too.
Quit(w) ==
    /\ pc' = [pc EXCEPT ![w] = "idle"]
    /\ tk' = [tk EXCEPT ![w] = NoTicket]
    /\ todo' = [todo EXCEPT ![w] = {}]
    /\ day' = [day EXCEPT ![w] = "normal"]

-----------------------------------------------------------------------------
(* validate_order *)

Exposed == {p \in position : trade[p] = "OPEN"}

\* Net exposure is at most 70% of the gross one.
Balanced(S) ==
    LET long  == Cardinality(S \intersect Buys)
        short == Cardinality(S) - long
        net   == IF long > short THEN long - short ELSE short - long
    IN 10 * net <= 7 * Cardinality(S)

Accepts(t) ==
    /\ flags = {}
    /\ count < MaxDailyTrades
    /\ Cardinality(Exposed) + 1 <= MaxUnits
    /\ Balanced(Exposed \union {t})

-----------------------------------------------------------------------------
(* The monitor row, as _update_daily_monitor leaves it *)

MaxTradesFlags(n) == IF n >= MaxDailyTrades THEN {"max_trades", "breaker"} ELSE {}

\* The row is created in the transaction that commits now.  When another one was
\* committed after get_or_create looked, either may be the newest.
CommitNewRow ==
    /\ rows' = rows + 1
    /\ \/ flags' = MaxTradesFlags(1) /\ count' = 1
       \/ rows > 0 /\ UNCHANGED <<flags, count>>

\* update_daily_pnl adds a float to the Decimal of a row it did not create itself,
\* and get_or_create refuses two rows: only the transaction that makes the first
\* row gets through; every other is rolled back by the exception.
MonitorUpdatable == rows = 0

-----------------------------------------------------------------------------
(* OrderCreateView and execute_market_order *)

PlaceOrder(w, t) ==
    /\ pc[w] = "idle"
    /\ order[t] = "none" /\ broker[t] = "none"
    /\ Accepts(t)
    /\ order' = [order EXCEPT ![t] = "PENDING"]
    /\ Become(w, "ordered", t)
    /\ UNCHANGED <<broker, trade, position, monitorVars, accountVars, task>>

\* The second validation, or the broker, refuses.
RefuseOrder(w) ==
    /\ pc[w] = "ordered"
    /\ order' = [order EXCEPT ![tk[w]] = "REJECTED"]
    /\ Idle(w)
    /\ UNCHANGED <<broker, trade, position, monitorVars, accountVars, task>>

\* Variant: an answer without a ticket counts as a filled order.
FillOrderNoTicket(w) ==
    /\ pc[w] = "ordered"
    /\ Accepts(tk[w])
    /\ Become(w, "opened", NoTicket)
    /\ UNCHANGED <<broker, bookVars, monitorVars, accountVars, task>>

\* The broker opens the position.
FillOrder(w) ==
    /\ pc[w] = "ordered"
    /\ Accepts(tk[w])
    /\ broker' = [broker EXCEPT ![tk[w]] = "open"]
    /\ Become(w, "opened", tk[w])
    /\ UNCHANGED <<bookVars, monitorVars, accountVars, task>>

\* No answer, whether or not the broker acted: an error page, no rows.
LoseAnswer(w) ==
    /\ Lossy
    /\ pc[w] = "ordered"
    /\ Accepts(tk[w])
    /\ broker' \in {broker, [broker EXCEPT ![tk[w]] = "open"]}
    /\ Idle(w)
    /\ UNCHANGED <<bookVars, monitorVars, accountVars, task>>

\* Trade, Position and monitor are written but not committed, or rolled back.
BookOrder(w) ==
    /\ pc[w] = "opened"
    /\ IF MonitorUpdatable THEN Become(w, "booking", tk[w]) ELSE Idle(w)
    /\ UNCHANGED <<broker, bookVars, monitorVars, accountVars, task>>

CommitOrder(w) ==
    /\ pc[w] = "booking"
    /\ trade' = [trade EXCEPT ![tk[w]] = "OPEN"]
    /\ position' = position \union {tk[w]}
    /\ CommitNewRow
    /\ Become(w, "booked", tk[w])
    /\ UNCHANGED <<broker, order, accountVars, task>>

\* Variant: the view marks its row before the service has committed.
MarkFilledEarly(w) ==
    /\ pc[w] \in {"opened", "booked"}
    /\ order' = [order EXCEPT ![tk[w]] = "FILLED"]
    /\ IF pc[w] = "booked" THEN Idle(w) ELSE UNCHANGED workerVars
    /\ UNCHANGED <<broker, trade, position, monitorVars, accountVars, task>>

\* The view's row, saved whole as the view read it.
MarkFilled(w) ==
    /\ pc[w] = "booked"
    /\ order' = [order EXCEPT ![tk[w]] = "FILLED"]
    /\ Idle(w)
    /\ UNCHANGED <<broker, trade, position, monitorVars, accountVars, task>>

\* OrderCancelView: a pending row without a ticket is cancelled without the broker.
CancelOrder(t) ==
    /\ order[t] = "PENDING"
    /\ order' = [order EXCEPT ![t] = "CANCELLED"]
    /\ UNCHANGED <<broker, trade, position, monitorVars, accountVars, workerVars, task>>

-----------------------------------------------------------------------------
(* close_trade and modify_trade *)

\* close_position counts every answer as a success, a refusal included.
BrokerCloses(t) ==
    \/ broker' = [broker EXCEPT ![t] = "closed"]
    \/ UNCHANGED broker

CloseTrade(w, t) ==
    /\ pc[w] = "idle"
    /\ trade[t] = "OPEN"
    /\ BrokerCloses(t)
    /\ \/ Become(w, "closed", t)
       \/ Lossy /\ UNCHANGED workerVars
    /\ UNCHANGED <<bookVars, monitorVars, accountVars, task>>

BookClose(w) ==
    /\ pc[w] = "closed"
    /\ IF MonitorUpdatable THEN Become(w, "unbooking", tk[w]) ELSE Idle(w)
    /\ UNCHANGED <<broker, bookVars, monitorVars, accountVars, task>>

\* Variant: the Position row is not deleted.
DropTradeOnly(t) ==
    /\ trade' = [trade EXCEPT ![t] = "CLOSED"]
    /\ UNCHANGED position

DropTrade(t) ==
    /\ trade' = [trade EXCEPT ![t] = "CLOSED"]
    /\ position' = position \ {t}

CommitClose(w) ==
    /\ pc[w] = "unbooking"
    /\ DropTrade(tk[w])
    /\ CommitNewRow
    /\ Idle(w)
    /\ UNCHANGED <<broker, order, accountVars, task>>

ModifyTrade(w, t) ==
    /\ pc[w] = "idle"
    /\ trade[t] = "OPEN"
    /\ Become(w, "modifying", t)
    /\ UNCHANGED <<broker, bookVars, monitorVars, accountVars, task>>

\* trade.save() writes the whole row as it was read, status included.
SaveModified(w) ==
    /\ pc[w] = "modifying"
    /\ trade' = [trade EXCEPT ![tk[w]] = "OPEN"]
    /\ Idle(w)
    /\ UNCHANGED <<broker, order, position, monitorVars, accountVars, task>>

-----------------------------------------------------------------------------
(* daily_target.py *)

SetTarget(reached) == flags' = IF reached THEN flags \union {"target"} ELSE flags \ {"target"}

\* check_daily_status without enforcement: the flag follows the equity.
CheckDailyStatus ==
    /\ rows > 0
    /\ SetTarget(equity = "gain")
    /\ UNCHANGED <<broker, bookVars, rows, count, accountVars, workerVars, task>>

\* enforce_daily_target closes, in one transaction, every position at the loss limit
\* and the profitable ones at the target; no code of the repository computes
\* unrealized_pnl for a position it opened.
EnforceDailyTarget(w) ==
    /\ w \in Enforcers
    /\ pc[w] = "idle"
    /\ equity # "normal"
    /\ pc' = [pc EXCEPT ![w] = "enforcing"]
    /\ day' = [day EXCEPT ![w] = IF rows > 0 THEN equity ELSE "normal"]
    /\ \E S \in SUBSET position :
         /\ IF equity = "gain" THEN S \subseteq Seeded ELSE S = position
         /\ todo' = [todo EXCEPT ![w] = S]
    /\ UNCHANGED <<broker, bookVars, monitorVars, accountVars, tk, task>>

\* One close; an exception is logged and the next position tried.
EnforceClose(w) ==
    /\ pc[w] = "enforcing"
    /\ \E t \in todo[w] :
         /\ todo' = [todo EXCEPT ![w] = @ \ {t}]
         /\ IF trade[t] = "OPEN"
            THEN /\ BrokerCloses(t)
                 /\ tk' = IF tk[w] = NoTicket /\ MonitorUpdatable
                          THEN [tk EXCEPT ![w] = t] ELSE tk
            ELSE UNCHANGED <<broker, tk>>
    /\ UNCHANGED <<bookVars, monitorVars, accountVars, pc, day, task>>

\* The commit: the flag of the row it found, or the row one of the closes created.
EnforceEnd(w) ==
    /\ pc[w] = "enforcing"
    /\ todo[w] = {}
    /\ IF tk[w] # NoTicket THEN DropTrade(tk[w]) /\ CommitNewRow
       ELSE /\ IF day[w] # "normal" THEN SetTarget(day[w] = "gain") ELSE UNCHANGED flags
            /\ UNCHANGED <<rows, count, trade, position>>
    /\ Quit(w)
    /\ UNCHANGED <<broker, order, accountVars, task>>

OverrideHalt ==
    /\ rows > 0
    /\ flags' = flags \ {"target", "breaker"}
    /\ UNCHANGED <<broker, bookVars, rows, count, accountVars, workerVars, task>>

-----------------------------------------------------------------------------
(* config/tasks.py *)

\* Two rows make get_or_create raise, and the task ends.
MonitorRead ==
    /\ ~task.read
    /\ rows < 2
    /\ rows' = 1
    /\ task' = [read |-> TRUE, flags |-> flags, count |-> count, deep |-> deep]
    /\ UNCHANGED <<broker, bookVars, flags, count, accountVars, workerVars>>

\* Variant: the drawdown trips the breaker only.
DrawdownFlagsBreaker(isDeep) == IF isDeep THEN {"breaker"} ELSE {}

DrawdownFlags(isDeep) == IF isDeep THEN {"drawdown", "breaker"} ELSE {}

\* daily_pnl_percent is zero in every row the code leaves, so the target manager
\* clears the target flag; then the row is saved whole, as it was read.
MonitorSave ==
    /\ task.read
    /\ \/ /\ flags' = (task.flags \ {"target"}) \union DrawdownFlags(task.deep)
                                                \union MaxTradesFlags(task.count)
          /\ count' = task.count
       \/ rows > 1 /\ UNCHANGED <<flags, count>>
    /\ task' = Resting
    /\ UNCHANGED <<broker, bookVars, rows, accountVars, workerVars>>

\* Variant: reset_daily clears every flag.
KeptOverMidnightNone == {}

KeptOverMidnight == {"drawdown"}

ResetDaily ==
    /\ flags' = flags \intersect KeptOverMidnight
    /\ count' = 0
    /\ equity' = "normal"
    /\ UNCHANGED <<broker, bookVars, rows, deep, workerVars, task>>

SetEquity ==
    /\ equity' \in Levels \union {"normal"}
    /\ deep' \in BOOLEAN
    /\ UNCHANGED <<broker, bookVars, monitorVars, workerVars, task>>

\* A process dies; its transaction is rolled back.
Crash(w) ==
    /\ Lossy
    /\ pc[w] # "idle"
    /\ Quit(w)
    /\ UNCHANGED <<broker, bookVars, monitorVars, accountVars, task>>

-----------------------------------------------------------------------------

Begin(w) ==
    \/ \E t \in Tickets : PlaceOrder(w, t) \/ CloseTrade(w, t) \/ ModifyTrade(w, t)
    \/ EnforceDailyTarget(w)

Continue(w) ==
    \/ RefuseOrder(w) \/ FillOrder(w) \/ LoseAnswer(w) \/ BookOrder(w)
    \/ CommitOrder(w) \/ MarkFilled(w) \/ BookClose(w) \/ CommitClose(w)
    \/ SaveModified(w) \/ EnforceClose(w) \/ EnforceEnd(w)

MonitorTask == MonitorRead \/ MonitorSave

Next ==
    \/ \E w \in Workers : Begin(w) \/ Continue(w) \/ Crash(w)
    \/ \E t \in Tickets : CancelOrder(t)
    \/ CheckDailyStatus \/ OverrideHalt
    \/ MonitorTask \/ ResetDaily
    \/ SetEquity

Spec == Init /\ [][Next]_vars

\* Celery beat starts monitor_drawdown every minute.
FairSpec == Spec /\ WF_vars(MonitorTask)

-----------------------------------------------------------------------------

Places == {"idle", "ordered", "opened", "booking", "booked",
           "closed", "unbooking", "modifying", "enforcing"}

TypeOK ==
    /\ broker \in [Tickets -> {"none", "open", "closed"}]
    /\ order \in [Tickets -> {"none", "PENDING", "FILLED", "REJECTED", "CANCELLED"}]
    /\ trade \in [Tickets -> {"none", "OPEN", "CLOSED"}]
    /\ position \subseteq Tickets
    /\ rows \in Nat
    /\ flags \subseteq Flags
    /\ count \in Nat
    /\ equity \in {"normal", "gain", "dip"}
    /\ deep \in BOOLEAN
    /\ pc \in [Workers -> Places]
    /\ tk \in [Workers -> Tickets \union {NoTicket}]
    /\ \A w \in Workers : tk[w] = NoTicket => pc[w] \in {"idle", "enforcing"}
    /\ todo \in [Workers -> SUBSET Tickets]
    /\ day \in [Workers -> {"normal", "gain", "dip"}]
    /\ task \in [read : BOOLEAN, flags : SUBSET Flags, count : Nat, deep : BOOLEAN]

\* An order is shown as FILLED only when its trade is in the book and the broker
\* has, or had, the position, whatever answers are lost, whoever cancels it and
\* wherever a process dies (services.py:239-282, views.py:200-203).
FilledIsBooked ==
    \A t \in Tickets : order[t] = "FILLED" => trade[t] # "none" /\ broker[t] # "none"

\* A Position row never outlives the trade it belongs to, though closes, orders,
\* enforcement and stale saves of the same trade interleave (services.py:337-351).
PositionsAreOpen == \A t \in position : trade[t] = "OPEN"

\* A drawdown halt outlasts midnight resets, overrides and the monitor's own stale
\* saves, as long as the user has one monitor row (models.py:651-659,
\* tasks.py:317-346).
DrawdownSticky ==
    [][rows' < 2 /\ "drawdown" \in flags => "drawdown" \in flags']_vars

\* A drawdown that lasts ends in a halt, unless a second monitor row keeps the
\* task from looking (tasks.py:300-346).
DrawdownHalts == deep ~> (~deep \/ "drawdown" \in flags \/ rows > 1)

\* A position the broker opened is in the book once the request is over
\* (services.py:27, "Validates, executes, and tracks orders through MT5.").
OpenIsBooked ==
    \A t \in Tickets :
        (broker[t] = "open" /\ \A w \in Workers : tk[w] # t) => trade[t] # "none"

=============================================================================
