----------------------------- MODULE StateSync -----------------------------
(***************************************************************************)
(* infrastructure/state_sync.py as the orchestrator drives it: positions   *)
(* and account are synced in turn every 30 seconds, to Redis when it       *)
(* answers and to the bounded buffer when it does not; and the drain of    *)
(* that buffer, process_buffered_syncs.  A state is its version, counted   *)
(* per key.  Keys live an hour in Redis and are renewed every 30 seconds:  *)
(* expiry is left out.                                                     *)
(***************************************************************************)
EXTENDS Integers, Sequences

CONSTANTS
    SyncKeys,    \* keys synced, in the order of one round
    BufferMax,   \* max_size of StateBuffer (1000)
    MaxSyncs     \* bound: versions of one key

ASSUME SyncAssumption ==
    /\ Len(SyncKeys) \in Nat \ {0}
    /\ BufferMax \in Nat /\ BufferMax >= Len(SyncKeys)
    /\ MaxSyncs \in Nat

KeySet == {SyncKeys[i] : i \in 1..Len(SyncKeys)}

VARIABLES
    syncRedisUp,
    synced,      \* version of each key in Redis, 0 before the first
    newest,      \* version of each key last given to sync_state
    buffer,      \* StateBuffer, oldest first
    nextKey,     \* position in the round of the key synced next
    draining,    \* whether process_buffered_syncs is in its loop
    inHand,      \* the item it took out, if any: a sequence of at most one
    drained      \* whether anybody calls process_buffered_syncs

syncVars == <<syncRedisUp, synced, newest, buffer, nextKey, draining, inHand, drained>>

Items == [key : KeySet, version : 1..MaxSyncs]

SyncInit ==
    /\ syncRedisUp \in BOOLEAN
    /\ synced = [k \in KeySet |-> 0]
    /\ newest = [k \in KeySet |-> 0]
    /\ buffer = << >>
    /\ nextKey = 1
    /\ draining = FALSE /\ inHand = << >>
    /\ drained \in BOOLEAN

-----------------------------------------------------------------------------

\* Variant: a full buffer takes nothing more.
EnqueueKeepOld(q, item) == IF Len(q) >= BufferMax THEN q ELSE Append(q, item)

\* A full buffer drops its oldest item.
Enqueue(q, item) == Append(IF Len(q) >= BufferMax THEN Tail(q) ELSE q, item)

\* Variant: what was synced is buffered as well.
SyncStateTwice(item) ==
    \/ /\ syncRedisUp
       /\ synced' = [synced EXCEPT ![item.key] = item.version]
       /\ buffer' = Enqueue(buffer, item)
       /\ UNCHANGED syncRedisUp
    \/ /\ ~syncRedisUp
       /\ buffer' = Enqueue(buffer, item)
       /\ UNCHANGED <<syncRedisUp, synced>>

\* sync_state: stored; buffered without Redis; or buffered because Redis went away
\* in the middle, before or after it stored the state.
SyncState(item) ==
    \/ /\ syncRedisUp
       /\ synced' = [synced EXCEPT ![item.key] = item.version]
       /\ UNCHANGED <<syncRedisUp, buffer>>
    \/ /\ syncRedisUp
       /\ \E v \in {synced[item.key], item.version} :
            synced' = [synced EXCEPT ![item.key] = v]
       /\ buffer' = Enqueue(buffer, item)
       /\ syncRedisUp' = FALSE
    \/ /\ ~syncRedisUp
       /\ buffer' = Enqueue(buffer, item)
       /\ UNCHANGED <<syncRedisUp, synced>>

\* _coordinate_state_sync: sync_positions, then sync_account.
OrchestratorSync ==
    LET key == SyncKeys[nextKey] IN
    /\ newest[key] < MaxSyncs
    /\ newest' = [newest EXCEPT ![key] = @ + 1]
    /\ SyncState([key |-> key, version |-> newest[key] + 1])
    /\ nextKey' = IF nextKey = Len(SyncKeys) THEN 1 ELSE nextKey + 1
    /\ UNCHANGED <<draining, inHand, drained>>

BeginDrain ==
    /\ drained /\ ~draining
    /\ draining' = TRUE
    /\ UNCHANGED <<syncRedisUp, synced, newest, buffer, nextKey, inHand, drained>>

\* dequeue: the item is in neither place until it is synced again.
DrainTake ==
    /\ draining /\ inHand = << >>
    /\ IF buffer = << >> THEN draining' = FALSE /\ UNCHANGED <<buffer, inHand>>
       ELSE inHand' = <<Head(buffer)>> /\ buffer' = Tail(buffer) /\ UNCHANGED draining
    /\ UNCHANGED <<syncRedisUp, synced, newest, nextKey, drained>>

DrainSync ==
    /\ inHand # << >>
    /\ SyncState(inHand[1])
    /\ inHand' = << >>
    /\ UNCHANGED <<newest, nextKey, draining, drained>>

RedisComesOrGoes ==
    /\ syncRedisUp' = ~syncRedisUp
    /\ UNCHANGED <<synced, newest, buffer, nextKey, draining, inHand, drained>>

SyncNext ==
    \/ OrchestratorSync
    \/ BeginDrain \/ DrainTake \/ DrainSync
    \/ RedisComesOrGoes

\* The drain is a loop of its caller's thread.
SyncFairness == WF_syncVars(DrainTake \/ DrainSync)

SyncSpec == SyncInit /\ [][SyncNext]_syncVars /\ SyncFairness

-----------------------------------------------------------------------------

\* Types; the buffer keeps to its size.
SyncTypeOK ==
    /\ syncRedisUp \in BOOLEAN /\ drained \in BOOLEAN
    /\ synced \in [KeySet -> 0..MaxSyncs] /\ newest \in [KeySet -> 0..MaxSyncs]
    /\ buffer \in Seq(Items) /\ Len(buffer) <= BufferMax
    /\ nextKey \in 1..Len(SyncKeys)
    /\ draining \in BOOLEAN
    /\ inHand \in Seq(Items) /\ Len(inHand) <= 1

\* While nobody drains the buffer, the newest state of every key is in Redis or in the
\* buffer, however long Redis was away: what a full buffer drops is older than that
\* (state_sync.py:30-39, 96-99, 124-127).
NewestSurvives ==
    ~drained => \A k \in KeySet :
      \/ newest[k] = synced[k]
      \/ \E i \in 1..Len(buffer) : buffer[i] = [key |-> k, version |-> newest[k]]

\* With Redis up for good, a drain comes to its end although each item that fails is
\* put back behind the others (state_sync.py:225-234).
DrainEnds == <>[]syncRedisUp => []<>~draining
=============================================================================
