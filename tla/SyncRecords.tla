----------------------------- MODULE SyncRecords -----------------------------
(***************************************************************************)
(* The records of infrastructure/state_sync.py: the hash a synced state    *)
(* carries and verify_consistency checks, the history of a key, the copies *)
(* resync_node makes for another node, and the locks.  StateSync has the   *)
(* buffer in full; here one key of one node is followed.  A state is its   *)
(* version; its hash is "pure" when taken of the state alone and "nested"  *)
(* when the state already held an earlier hash.  Keys live an hour: their  *)
(* expiry is left out, that of the locks is not.                           *)
(***************************************************************************)
EXTENDS Integers, Sequences, FiniteSets

CONSTANTS
    NodeNames,       \* nodes that take locks
    Syncer,          \* the node whose records are followed
    NoHolder,
    HistoryLength,   \* records kept in the history of a key, 100
    LockTtl,         \* seconds a lock lives
    MaxVersions      \* BOUND: versions of the state

ASSUME SyncRecordsAssumption ==
    /\ Syncer \in NodeNames /\ NoHolder \notin NodeNames
    /\ {HistoryLength, LockTtl, MaxVersions} \subseteq Nat \ {0}

VARIABLES
    rsUp,            \* Redis answers
    rsClients,       \* nodes that have connected: they keep their client when Redis goes
    rsVersion,       \* version last given to sync_state
    rsQueue,         \* dictionaries in the buffer
    rsStored,        \* the record in Redis: a sequence of at most one
    rsHistory,       \* versions in the history of the key, newest first
    rsCopy,          \* version another node was resynced with, 0 for none
    rsScan,          \* what a resync has read and not copied yet, 0 for nothing
    rsLock,          \* who holds the lock in Redis
    rsLeft,          \* seconds the lock has left
    rsHolding,       \* nodes that were told they hold the lock
    rsSpoilt         \* a lock was given without Redis, or ran out in use

recordVars == <<rsVersion, rsQueue, rsStored, rsHistory, rsCopy, rsScan>>
lockVars == <<rsLock, rsLeft, rsHolding, rsSpoilt>>
syncRecordVars == <<rsUp, rsClients, recordVars, lockVars>>

SyncRecordsInit ==
    /\ rsUp \in BOOLEAN /\ rsClients = {}
    /\ rsVersion = 0
    /\ rsQueue = <<>> /\ rsStored = <<>> /\ rsHistory = <<>> /\ rsCopy = 0 /\ rsScan = 0
    /\ rsLock = NoHolder /\ rsLeft = 0 /\ rsHolding = {} /\ rsSpoilt = FALSE

-----------------------------------------------------------------------------
(* The client property connects when there is no client yet; a client once *)
(* made is kept, and its commands raise while Redis is away.               *)

Client(n) == rsUp \/ n \in rsClients

Connect(n) == rsClients' = IF rsUp THEN rsClients \cup {n} ELSE rsClients

SyncRedisTurns ==
    /\ rsUp' = ~rsUp
    /\ UNCHANGED <<rsClients, recordVars, lockVars>>

-----------------------------------------------------------------------------
(* The record and its hash.                                                *)

\* The hash is taken of the dictionary as it is, an earlier hash included, and put into it.
Hashed(state) == [state EXCEPT !.hash = IF state.hash = "none" THEN "pure" ELSE "nested"]

\* lpush and ltrim.
Remembered(version) ==
    SubSeq(<<version>> \o rsHistory, 1, IF Len(rsHistory) < HistoryLength THEN Len(rsHistory) + 1 ELSE HistoryLength)

\* sync_state of a dictionary: buffered as it is without a client; else hashed and stored
\* with the history.  Redis may be away, or go away before the record, before the history
\* or before the last mark: the dictionary, its hash in it, is buffered.
SyncRecord(state, queue) ==
    /\ Connect(Syncer)
    /\ \/ /\ ~Client(Syncer)
          /\ rsQueue' = Append(queue, state)
          /\ UNCHANGED <<rsUp, rsStored, rsHistory>>
       \/ /\ rsUp
          /\ rsStored' = <<Hashed(state)>> /\ rsHistory' = Remembered(state.version)
          /\ rsQueue' = queue /\ UNCHANGED rsUp
       \/ /\ Client(Syncer)
          /\ rsUp' = FALSE
          /\ rsQueue' = Append(queue, Hashed(state))
          /\ \/ UNCHANGED <<rsStored, rsHistory>>
             \/ rsUp /\ rsStored' = <<Hashed(state)>> /\ UNCHANGED rsHistory
             \/ rsUp /\ rsStored' = <<Hashed(state)>> /\ rsHistory' = Remembered(state.version)

\* sync_positions and sync_account make a dictionary of their own for every round.
SyncNew ==
    /\ rsVersion < MaxVersions
    /\ rsVersion' = rsVersion + 1
    /\ SyncRecord([version |-> rsVersion + 1, hash |-> "none"], rsQueue)
    /\ UNCHANGED <<rsCopy, rsScan, lockVars>>

DrainOne ==
    /\ rsQueue # <<>>
    /\ SyncRecord(Head(rsQueue), Tail(rsQueue))
    /\ UNCHANGED <<rsVersion, rsCopy, rsScan, lockVars>>

\* verify_consistency takes the hash out and compares it with that of the rest.
VerifyConsistency == \A i \in DOMAIN rsStored : rsStored[i].hash = "pure"

\* resync_node reads the record of each key it scans, and then copies it.
ScanKey ==
    /\ rsUp /\ rsScan = 0 /\ rsStored # <<>>
    /\ Connect(Syncer)
    /\ rsScan' = rsStored[1].version
    /\ UNCHANGED <<rsUp, rsVersion, rsQueue, rsStored, rsHistory, rsCopy, lockVars>>

CopyKey ==
    /\ rsScan # 0
    /\ rsCopy' = IF rsUp THEN rsScan ELSE rsCopy
    /\ rsScan' = 0
    /\ UNCHANGED <<rsUp, rsClients, rsVersion, rsQueue, rsStored, rsHistory, lockVars>>

RecordsNext == SyncNew \/ DrainOne \/ ScanKey \/ CopyKey \/ SyncRedisTurns

-----------------------------------------------------------------------------
(* Locks.                                                                  *)

\* SET NX EX.  Without a client everybody gets the lock; a client whose command raises
\* does not.
AcquireLock(n) ==
    /\ n \notin rsHolding
    /\ Connect(n)
    /\ IF ~Client(n) THEN UNCHANGED <<rsLock, rsLeft>>
       ELSE rsUp /\ rsLock = NoHolder /\ rsLock' = n /\ rsLeft' = LockTtl
    /\ rsHolding' = rsHolding \cup {n}
    /\ rsSpoilt' = (rsSpoilt \/ ~Client(n))
    /\ UNCHANGED <<rsUp, recordVars>>

\* The key is deleted, whoever set it; without Redis it stays until it runs out.
ReleaseLock(n) ==
    /\ n \in rsHolding
    /\ Connect(n)
    /\ rsHolding' = rsHolding \ {n}
    /\ IF rsUp THEN rsLock' = NoHolder /\ rsLeft' = 0 ELSE UNCHANGED <<rsLock, rsLeft>>
    /\ UNCHANGED <<rsUp, rsSpoilt, recordVars>>

LockSecond ==
    /\ rsLeft > 0
    /\ rsLeft' = rsLeft - 1
    /\ rsLock' = IF rsLeft = 1 THEN NoHolder ELSE rsLock
    /\ rsSpoilt' = (rsSpoilt \/ (rsLeft = 1 /\ rsLock \in rsHolding))
    /\ UNCHANGED <<rsUp, rsClients, rsHolding, recordVars>>

LocksNext ==
    \/ \E n \in NodeNames : AcquireLock(n) \/ ReleaseLock(n)
    \/ LockSecond
    \/ SyncRedisTurns

SyncRecordsSpec == SyncRecordsInit /\ [][RecordsNext \/ LocksNext]_syncRecordVars

-----------------------------------------------------------------------------
(* Correctness.                                                            *)

\* No node is given a version the key has not had, and every version in the history was
\* synced (state_sync.py:114-116, 182-223).
CopyWasStored ==
    /\ rsCopy <= rsVersion /\ rsScan <= rsVersion
    /\ \A i \in DOMAIN rsHistory : rsHistory[i] \in 1 .. rsVersion

\* Before the first connection nothing is hashed: a dictionary buffered then is consistent
\* when it is stored, one that failed with a client is not (state_sync.py:93-128, 144-155).
HashedWhenConnected ==
    Syncer \notin rsClients =>
        VerifyConsistency /\ \A i \in DOMAIN rsQueue : rsQueue[i].hash = "none"

\* Two nodes hold the lock only after one took it without Redis or a lock ran out in use;
\* from then on a release also frees the lock of another (state_sync.py:249-273).
LocksExclude ==
    ~rsSpoilt => Cardinality(rsHolding) <= 1 /\ (rsHolding # {} => rsHolding = {rsLock})

SyncRecordsTypeOK ==
    /\ rsUp \in BOOLEAN /\ rsClients \subseteq NodeNames
    /\ rsVersion \in 0 .. MaxVersions
    /\ Len(rsHistory) <= HistoryLength /\ Len(rsStored) <= 1
    /\ \A i \in DOMAIN rsQueue : rsQueue[i].version \in 1 .. rsVersion
    /\ rsLock \in NodeNames \cup {NoHolder} /\ (rsLeft > 0 <=> rsLock # NoHolder)
    /\ rsHolding \subseteq NodeNames /\ rsSpoilt \in BOOLEAN
    /\ CopyWasStored /\ HashedWhenConnected /\ LocksExclude
=============================================================================
