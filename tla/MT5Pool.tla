------------------------------ MODULE MT5Pool ------------------------------
(***************************************************************************)
(* infrastructure/mt5_pool.py: MT5ConnectionPool, its connections, the     *)
(* clients that acquire and release them, and the auto-reconnect thread.   *)
(*                                                                         *)
(* acquire, release and health_check run under the pool's lock, one step   *)
(* each.  mark_error is called by a client on the connection it holds,     *)
(* without the lock.  reconnect_connection looks the connection up under   *)
(* the lock, then marks it, sleeps half a second and marks it idle without *)
(* the lock: other threads run in between.                                 *)
(***************************************************************************)
EXTENDS Integers, FiniteSets

CONSTANTS
    Clients,         \* threads that use connections
    MaxConnections,  \* max_connections
    ErrorLimit,      \* error_count from which a connection is unhealthy (5)
    MaxIds,          \* bound: connections created in a behaviour
    MaxErrors        \* bound: errors counted on one connection

Ids    == 1..MaxIds
NoConn == 0

ASSUME PoolAssumption ==
    /\ MaxConnections \in Nat \ {0}
    /\ MaxIds \in Nat \ {0}
    /\ ErrorLimit \in Nat \ {0}
    /\ MaxErrors \in Nat

VARIABLES
    pool,    \* ids in self.connections
    state,   \* ConnectionState of every connection object created
    errors,  \* error_count
    next,    \* _conn_counter + 1
    held,    \* connection each client holds
    running, \* whether start_auto_reconnect was called
    todo,    \* failed_conns of the reconnect loop's current round
    cur,     \* connection being reconnected
    pc       \* where the reconnect thread stands

reconnectVars == <<running, todo, cur, pc>>
vars == <<pool, state, errors, next, held, reconnectVars>>

States == {"none", "idle", "in_use", "closed", "error", "reconnecting"}

Init ==
    /\ pool = {}
    /\ state = [i \in Ids |-> "none"]
    /\ errors = [i \in Ids |-> 0]
    /\ next = 1
    /\ held = [c \in Clients |-> NoConn]
    /\ running = FALSE
    /\ todo = {}
    /\ cur = NoConn
    /\ pc = "round"

Healthy(i) == state[i] \notin {"error", "closed"} /\ errors[i] < ErrorLimit

\* Variant: a connection in any healthy state may be handed out.
AvailableHealthy == {i \in pool : Healthy(i)}

\* select_connection; which of these the strategy picks does not matter here.
Available == {i \in pool : state[i] = "idle" /\ Healthy(i)}

Take(c, i) ==
    /\ held' = [held EXCEPT ![c] = i]
    /\ state' = [state EXCEPT ![i] = "in_use"]

AcquireIdle(c) ==
    /\ held[c] = NoConn
    /\ \E i \in Available : Take(c, i)
    /\ UNCHANGED <<pool, errors, next, reconnectVars>>

\* Variant: the size test is off by one.
RoomOffByOne == Cardinality(pool) <= MaxConnections

Room == Cardinality(pool) < MaxConnections

AcquireNew(c) ==
    /\ held[c] = NoConn
    /\ Available = {}
    /\ Room
    /\ next \in Ids
    /\ pool' = pool \union {next}
    /\ Take(c, next)
    /\ next' = next + 1
    /\ UNCHANGED <<errors, reconnectVars>>

\* A failing call marks the connection object, pooled or not.
MarkError(c) ==
    /\ held[c] # NoConn
    /\ errors[held[c]] < MaxErrors
    /\ errors' = [errors EXCEPT ![held[c]] = @ + 1]
    /\ state' = [state EXCEPT ![held[c]] = "error"]
    /\ UNCHANGED <<pool, next, held, reconnectVars>>

\* release by id: whatever state it finds, if the id is still pooled.
Release(c) ==
    /\ held[c] # NoConn
    /\ state' = IF held[c] \in pool THEN [state EXCEPT ![held[c]] = "idle"] ELSE state
    /\ held' = [held EXCEPT ![c] = NoConn]
    /\ UNCHANGED <<pool, errors, next, reconnectVars>>

\* health_check drops what is unhealthy and what is older than an hour (old).
HealthCheck ==
    \E old \in SUBSET pool :
      LET gone == old \union {i \in pool : ~Healthy(i)} IN
        /\ gone # {}
        /\ state' = [i \in Ids |-> IF i \in gone THEN "closed" ELSE state[i]]
        /\ pool' = pool \ gone
        /\ UNCHANGED <<errors, next, held, reconnectVars>>

-----------------------------------------------------------------------------
(* _reconnect_loop and reconnect_connection *)

StartAutoReconnect ==
    /\ ~running
    /\ running' = TRUE
    /\ UNCHANGED <<pool, state, errors, next, held, todo, cur, pc>>

ListFailed ==
    /\ running
    /\ pc = "round"
    /\ todo = {}
    /\ todo' = {i \in pool : state[i] = "error"}
    /\ UNCHANGED <<pool, state, errors, next, held, running, cur, pc>>

\* The id is looked up under the lock; one that is gone is passed over.
LookUp ==
    /\ pc = "round"
    /\ \E i \in todo :
         /\ todo' = todo \ {i}
         /\ IF i \in pool THEN cur' = i /\ pc' = "mark" ELSE UNCHANGED <<cur, pc>>
    /\ UNCHANGED <<pool, state, errors, next, held, running>>

MarkReconnecting ==
    /\ pc = "mark"
    /\ state' = [state EXCEPT ![cur] = "reconnecting"]
    /\ pc' = "sleep"
    /\ UNCHANGED <<pool, errors, next, held, running, todo, cur>>

\* Variant: a failed attempt leaves the connection as it was found.
FinishReconnectFailed ==
    /\ pc = "sleep"
    /\ state' = [state EXCEPT ![cur] = "error"]
    /\ cur' = NoConn
    /\ pc' = "round"
    /\ UNCHANGED <<pool, errors, next, held, running, todo>>

FinishReconnect ==
    /\ pc = "sleep"
    /\ state' = [state EXCEPT ![cur] = "idle"]
    /\ errors' = [errors EXCEPT ![cur] = IF @ > 0 THEN @ - 1 ELSE 0]
    /\ cur' = NoConn
    /\ pc' = "round"
    /\ UNCHANGED <<pool, next, held, running, todo>>

Reconnect == ListFailed \/ LookUp \/ MarkReconnecting \/ FinishReconnect

Next ==
    \/ \E c \in Clients : AcquireIdle(c) \/ AcquireNew(c) \/ MarkError(c) \/ Release(c)
    \/ HealthCheck
    \/ StartAutoReconnect
    \/ Reconnect

Spec == Init /\ [][Next]_vars

\* The reconnect thread runs; nothing else is promised to happen: no code of the
\* repository calls health_check, and a client may hold on for ever.
FairSpec == Spec /\ WF_vars(Reconnect)

-----------------------------------------------------------------------------

TypeOK ==
    /\ pool \subseteq 1..(next - 1)
    /\ state \in [Ids -> States]
    /\ errors \in [Ids -> Nat]
    /\ next \in 1..(MaxIds + 1)
    /\ held \in [Clients -> Ids \union {NoConn}]
    /\ running \in BOOLEAN
    /\ todo \subseteq Ids
    /\ cur \in Ids \union {NoConn}
    /\ pc \in {"round", "mark", "sleep"}

\* The pool never keeps more connections than max_connections, whatever is
\* closed, expired and created in between (mt5_pool.py:166).
PoolBounded == Cardinality(pool) <= MaxConnections

\* No two clients hold one connection (mt5_pool.py:36-42, 159-164).
HeldByOne ==
    \A c, d \in Clients : held[c] = held[d] /\ held[c] # NoConn => c = d

\* Acquisition is exclusive, through errors, releases, health checks and expiry, as
\* long as the reconnect thread has not been started (mt5_pool.py:159-178, 252-259).
ExclusiveUntilReconnect == ~running => HeldByOne

\* Once the thread runs, a pooled connection that failed leaves both error and
\* reconnecting: it is made idle, released or closed (mt5_pool.py:222-234, 268-279).
ErrorsCleared ==
    \A i \in Ids :
      LET failed == i \in pool /\ state[i] \in {"error", "reconnecting"}
      IN running /\ failed ~> ~failed
=============================================================================
