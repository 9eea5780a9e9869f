---------------------------- MODULE FeatureCache ----------------------------
(***************************************************************************)
(* The feature store of ml/feature_store.py: feature vectors of one symbol *)
(* and timeframe, kept in Redis for a time to live, or in the memory of    *)
(* the process when the first use found no Redis.  The verdict of that     *)
(* first use is kept for as long as the process lives.                     *)
(***************************************************************************)
EXTENDS Integers, FiniteSets, FiniteSetsExt

CONSTANTS
    FeatureUsers,    \* processes
    Stamps,          \* timestamps of bars, in the order of their keys
    FeatureTtl,      \* ttl, four hours
    FeatureClock,    \* BOUND: the clock
    Missing          \* no vector

ASSUME FeatureAssumption ==
    /\ Stamps \subseteq Nat /\ IsFiniteSet(Stamps) /\ FeatureTtl \in Nat \ {0}
    /\ FeatureClock \in Nat /\ Missing \notin Nat

VARIABLES
    fcUp,            \* whether Redis answers
    fcNow,           \* time
    fcVerdict,       \* of each process, _redis_available: "untested", "redis" or "memory"
    fcRedis,         \* of each stamp: when the vector in Redis was stored, or Missing
    fcMemory,        \* the same of the memory of each process
    fcAsk,           \* of each process: the query it is at, the keys it still reads, and since when
    fcAnswer         \* of each process: the query it did last, since when, and the stamps it read

featureVars == <<fcUp, fcNow, fcVerdict, fcRedis, fcMemory, fcAsk, fcAnswer>>

NoVectors == [s \in Stamps |-> Missing]
NoAsk == [query |-> "none", keys |-> {}, since |-> 0]
NothingRead == [query |-> "none", stamps |-> {}, since |-> 0]
Stored(store) == {s \in Stamps : store[s] # Missing}
Newest(keys) == {s \in keys : \A k \in keys : k <= s}

FeatureInit ==
    /\ fcUp \in BOOLEAN /\ fcNow = 0
    /\ fcVerdict = [p \in FeatureUsers |-> "untested"]
    /\ fcRedis = NoVectors /\ fcMemory = [p \in FeatureUsers |-> NoVectors]
    /\ fcAsk = [p \in FeatureUsers |-> NoAsk] /\ fcAnswer = [p \in FeatureUsers |-> NothingRead]

\* _redis_ok: the first use pings, later ones remember.
RedisVerdict(p) == IF fcVerdict[p] # "untested" THEN fcVerdict[p]
              ELSE IF fcUp THEN "redis" ELSE "memory"

Judges(p) == fcVerdict' = [fcVerdict EXCEPT ![p] = RedisVerdict(p)]

\* store_features: an error of Redis loses the vector.
StoreFeatures(p, s, works) ==
    /\ fcAsk[p] = NoAsk /\ Judges(p) /\ (works => fcUp)
    /\ IF RedisVerdict(p) = "redis"
       THEN /\ fcRedis' = IF works THEN [fcRedis EXCEPT ![s] = fcNow] ELSE fcRedis
            /\ UNCHANGED fcMemory
       ELSE fcMemory' = [fcMemory EXCEPT ![p][s] = fcNow] /\ UNCHANGED fcRedis
    /\ fcAnswer' = [fcAnswer EXCEPT ![p] = NothingRead]
    /\ UNCHANGED <<fcUp, fcNow, fcAsk>>

\* The keys a query goes on to read.
Wanted(query, keys) == IF query = "latest" THEN Newest(keys) ELSE keys

Reply(query, stamps, since) == [query |-> query, stamps |-> stamps, since |-> since]

\* get_latest_features, get_features_range and clear ask Redis for the keys first; memory
\* answers at once.
AskKeys(p, query, works) ==
    /\ fcAsk[p] = NoAsk /\ Judges(p) /\ (works => fcUp)
    /\ IF RedisVerdict(p) = "redis"
       THEN /\ fcAsk' = IF works /\ Stored(fcRedis) # {}
                        THEN [fcAsk EXCEPT ![p] = [query |-> query, since |-> fcNow,
                                                   keys |-> Wanted(query, Stored(fcRedis))]]
                        ELSE fcAsk
            /\ fcAnswer' = [fcAnswer EXCEPT ![p] =
                              IF query = "clear" THEN NothingRead ELSE Reply(query, {}, fcNow)]
            /\ UNCHANGED fcMemory
       ELSE /\ fcAnswer' = [fcAnswer EXCEPT ![p] =
                              IF query = "clear" THEN NothingRead
                              ELSE Reply(query, Wanted(query, Stored(fcMemory[p])), fcNow)]
            /\ fcMemory' = IF query = "clear" THEN [fcMemory EXCEPT ![p] = NoVectors] ELSE fcMemory
            /\ UNCHANGED fcAsk
    /\ UNCHANGED <<fcUp, fcNow, fcRedis>>

\* The vectors are read one by one; one that has gone by now is left out.
ReadVector(p, s) ==
    /\ fcAsk[p].query \in {"latest", "range"} /\ s \in fcAsk[p].keys /\ fcUp
    /\ \A k \in fcAsk[p].keys : s <= k
    /\ fcAsk' = [fcAsk EXCEPT ![p] =
                   IF fcAsk[p].keys = {s} THEN NoAsk
                   ELSE [fcAsk[p] EXCEPT !.keys = @ \ {s}]]
    /\ fcAnswer' = [fcAnswer EXCEPT ![p].stamps = IF fcRedis[s] = Missing THEN @ ELSE @ \cup {s}]
    /\ UNCHANGED <<fcUp, fcNow, fcVerdict, fcRedis, fcMemory>>

\* An error of Redis on the way is an empty answer.
QueryFails(p) ==
    /\ fcAsk[p] # NoAsk /\ fcAsk' = [fcAsk EXCEPT ![p] = NoAsk]
    /\ fcAnswer' = [fcAnswer EXCEPT ![p].stamps = {}]
    /\ UNCHANGED <<fcUp, fcNow, fcVerdict, fcRedis, fcMemory>>

\* clear deletes the keys it was told of, as they are by now.
DeleteKeys(p) ==
    /\ fcAsk[p].query = "clear" /\ fcUp
    /\ fcRedis' = [s \in Stamps |-> IF s \in fcAsk[p].keys THEN Missing ELSE fcRedis[s]]
    /\ fcAsk' = [fcAsk EXCEPT ![p] = NoAsk]
    /\ UNCHANGED <<fcUp, fcNow, fcVerdict, fcMemory, fcAnswer>>

\* get_features and has_enough_data answer at once; a first use is judged here as well.
LookUpOne(p) ==
    /\ fcAsk[p] = NoAsk /\ Judges(p)
    /\ fcAnswer' = [fcAnswer EXCEPT ![p] = NothingRead]
    /\ UNCHANGED <<fcUp, fcNow, fcRedis, fcMemory, fcAsk>>

\* Time passes and Redis drops what has outlived its time.
FeatureTick ==
    /\ fcNow < FeatureClock /\ fcNow' = fcNow + 1
    /\ fcRedis' = [s \in Stamps |->
                     IF fcRedis[s] # Missing /\ fcNow' - fcRedis[s] >= FeatureTtl
                     THEN Missing ELSE fcRedis[s]]
    /\ UNCHANGED <<fcUp, fcVerdict, fcMemory, fcAsk, fcAnswer>>

FeatureRedisTurns == fcUp' = ~fcUp /\ UNCHANGED <<fcNow, fcVerdict, fcRedis, fcMemory, fcAsk, fcAnswer>>

FeatureNext ==
    \/ \E p \in FeatureUsers, works \in BOOLEAN :
         \/ \E s \in Stamps : StoreFeatures(p, s, works)
         \/ \E query \in {"latest", "range", "clear"} : AskKeys(p, query, works)
    \/ \E p \in FeatureUsers :
         \/ \E s \in Stamps : ReadVector(p, s)
         \/ LookUpOne(p) \/ QueryFails(p) \/ DeleteKeys(p)
    \/ FeatureTick \/ FeatureRedisTurns

FeatureSpec == FeatureInit /\ [][FeatureNext]_featureVars

-----------------------------------------------------------------------------
(* Correctness.                                                            *)

\* A process keeps to the store its first use found: what it put into one is never looked
\* for in the other (feature_store.py:36-48).
OneStore == \A p \in FeatureUsers :
    /\ fcVerdict[p] # "memory" => fcMemory[p] = NoVectors
    /\ fcVerdict[p] # "redis" => fcAsk[p] = NoAsk

\* What Redis keeps has not outlived its time; memory may be of any age.
FreshInRedis == \A s \in Stored(fcRedis) : fcNow - fcRedis[s] < FeatureTtl

\* The latest vector a process was given is the newest there is, but for what was stored
\* since it asked (get_latest_features, feature_store.py:161-191).
LatestIsNewest == \A p \in FeatureUsers :
    fcVerdict[p] = "redis" /\ fcAnswer[p].query = "latest" =>
        \A s \in fcAnswer[p].stamps, k \in Stored(fcRedis) :
            s < k => fcAnswer[p].since <= fcRedis[k]

FeatureTypeOK ==
    /\ fcUp \in BOOLEAN /\ fcNow \in 0 .. FeatureClock
    /\ fcVerdict \in [FeatureUsers -> {"untested", "redis", "memory"}]
    /\ fcRedis \in [Stamps -> (0 .. FeatureClock) \cup {Missing}]
    /\ fcMemory \in [FeatureUsers -> [Stamps -> (0 .. FeatureClock) \cup {Missing}]]
    /\ \A p \in FeatureUsers : fcAsk[p].keys \subseteq Stamps /\ fcAnswer[p].stamps \subseteq Stamps
    /\ OneStore /\ FreshInRedis /\ LatestIsNewest
=============================================================================
