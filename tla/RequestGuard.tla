---------------------------- MODULE RequestGuard ----------------------------
(***************************************************************************)
(* security/waf.py and security/zero_trust.py, the two middlewares every   *)
(* request passes: the token buckets and the timed block of one address,   *)
(* and the trust score with its device and request histories in the cache. *)
(* Requests are handled by several threads at once.                        *)
(***************************************************************************)
EXTENDS Integers, Sequences, SequencesExt, FiniteSets, FiniteSetsExt

CONSTANTS
    GuardThreads,      \* threads that handle requests of this address
    RateWindow,        \* RATE_WINDOW, in ticks
    BucketCapacity,    \* tokens of each bucket: "ep" is the endpoint's, "ip" the address's
    BlockDuration,     \* BLOCK_DURATION, in ticks
    GuardClock,        \* BOUND: ticks
    Devices,           \* device fingerprints
    MaxDeviceHistory,  \* MAX_DEVICE_HISTORY (10)
    BusyRequests,      \* requests in a minute that lower the trust (50)
    TimeScores,        \* the time score: 15, 8 for a token of over 8 hours, 5 for one issued at night
    FloodRequests      \* and lower it further (100); BOUND: one more request in a minute

ASSUME GuardAssumption ==
    /\ RateWindow \in Nat \ {0} /\ BlockDuration \in Nat \ {0} /\ GuardClock \in Nat \ {0}
    /\ BucketCapacity \in [{"ep", "ip"} -> Nat]
    /\ MaxDeviceHistory \in Nat \ {0} /\ BusyRequests \in Nat /\ FloodRequests \in Nat
    /\ TimeScores \subseteq {5, 8, 15}

VARIABLES
    rgClock,      \* the time
    rgPlace,      \* of each thread: "idle", or the buckets its request still has to pass
    rgTokens,     \* tokens of each bucket, in parts of which RateWindow make a token
    rgFilled,     \* when each bucket was last filled
    rgUnblock,    \* when the block of the address ends, 0 when there is none
    rgAdmitted,   \* the times of the requests admitted (for the property)
    ztDevices,    \* device_fp: the user's devices in the cache
    ztTimes,      \* behavior: the times of the user's requests in the cache
    ztRead,       \* of each thread: the step of its request and what it read, {} when idle
    ztScore       \* the score of the last request

gateVars  == <<rgPlace, rgTokens, rgFilled, rgUnblock, rgAdmitted>>
trustVars == <<ztDevices, ztTimes, ztRead, ztScore>>
guardVars == <<rgClock, gateVars, trustVars>>

Buckets == {"ep", "ip"}

GuardInit ==
    /\ rgClock = 1
    /\ rgPlace = [t \in GuardThreads |-> <<>>]
    /\ rgTokens = [b \in Buckets |-> BucketCapacity[b] * RateWindow]
    /\ rgFilled = [b \in Buckets |-> 1]
    /\ rgUnblock = 0 /\ rgAdmitted = <<>>
    /\ ztDevices = <<>> /\ ztTimes = <<>>
    /\ ztRead = [t \in GuardThreads |-> {}]
    /\ ztScore = 100

-----------------------------------------------------------------------------
(* The firewall.  A request with a body, a type or a content that is       *)
(* refused, or of an address in BlockedIP, changes nothing here.           *)

\* The block is looked up first, and dropped when it is over.  Only some endpoints have a
\* bucket of their own, which is used before the address's.
Arrive(t, endpoint) ==
    /\ rgPlace[t] = <<>>
    /\ rgUnblock <= rgClock
    /\ rgUnblock' = 0
    /\ rgPlace' = [rgPlace EXCEPT ![t] = IF endpoint THEN <<"ep", "ip">> ELSE <<"ip">>]
    /\ UNCHANGED <<rgClock, rgTokens, rgFilled, rgAdmitted, trustVars>>

\* Variant: the time of the last filling is kept.
FillAgain(b) == rgFilled[b]
Filled(b) == rgClock

Refilled(b) ==
    Min({BucketCapacity[b] * RateWindow, rgTokens[b] + (rgClock - rgFilled[b]) * BucketCapacity[b]})

\* consume: fill the bucket and take one token; without one the address is blocked.  The
\* time is read just before the bucket's lock is taken, within one tick.
Consume(t) ==
    LET b == Head(rgPlace[t])
        enough == Refilled(b) >= RateWindow
        rest == Tail(rgPlace[t]) IN
    /\ rgPlace[t] # <<>>
    /\ rgTokens' = [rgTokens EXCEPT ![b] = IF enough THEN Refilled(b) - RateWindow ELSE Refilled(b)]
    /\ rgFilled' = [rgFilled EXCEPT ![b] = Filled(b)]
    /\ rgPlace' = [rgPlace EXCEPT ![t] = IF enough THEN rest ELSE <<>>]
    /\ rgUnblock' = IF enough THEN rgUnblock ELSE rgClock + BlockDuration
    /\ rgAdmitted' = IF enough /\ rest = <<>> THEN Append(rgAdmitted, rgClock) ELSE rgAdmitted
    /\ UNCHANGED <<rgClock, trustVars>>

\* unblock_ip, and cleanup once the block is over.
Unblock ==
    /\ rgUnblock # 0 /\ rgUnblock' = 0
    /\ UNCHANGED <<rgClock, rgPlace, rgTokens, rgFilled, rgAdmitted, trustVars>>

GuardTick ==
    /\ rgClock < GuardClock /\ rgClock' = rgClock + 1
    /\ UNCHANGED <<gateVars, trustVars>>

-----------------------------------------------------------------------------
(* Zero trust.  A request without a valid token ends before this.          *)

\* verify reads the device history ...
VerifyBegin(t) ==
    /\ ztRead[t] = {}
    /\ ztRead' = [ztRead EXCEPT ![t] = {[step |-> "device", devices |-> ztDevices]}]
    /\ UNCHANGED <<rgClock, gateVars, ztDevices, ztTimes, ztScore>>

\* A full history is forgotten by the first device that is not in it.
Remember(devices, d) ==
    IF Contains(devices, d) THEN devices
    ELSE IF Len(devices) >= MaxDeviceHistory THEN <<>> ELSE Append(devices, d)

DeviceMatch(devices, d) == Contains(devices, d) \/ Len(devices) < MaxDeviceHistory

\* ... and writes it back when the device is new; a device another thread added in between
\* is lost.  Then the request times are read ...
VerifyDevice(t, d) ==
    \E seen \in ztRead[t] :
        /\ seen.step = "device"
        /\ ztDevices' = IF Contains(seen.devices, d) THEN ztDevices ELSE Remember(seen.devices, d)
        /\ ztRead' = [ztRead EXCEPT ![t] =
               {[step |-> "score", match |-> DeviceMatch(seen.devices, d), times |-> ztTimes]}]
        /\ UNCHANGED <<rgClock, gateVars, ztTimes, ztScore>>

\* get_reputation_score.  The blocked addresses are asked of a model that accounts does not
\* have, whose import error counts as not blocked, and no Tor node is ever listed: every
\* address is clean.
Reputation == 100

TrustScore(match, times, timeScore) ==
    20 + (Reputation * 25) \div 100 + (IF match THEN 20 ELSE 10) + timeScore
    + (IF Len(times) > FloodRequests THEN 5 ELSE IF Len(times) > BusyRequests THEN 10 ELSE 20)

\* ... and written back with this request, and the request is scored.
VerifyEnd(t, timeScore) ==
    \E seen \in ztRead[t] :
        LET times == Append(SelectSeq(seen.times, LAMBDA at : rgClock - at < RateWindow), rgClock) IN
        /\ seen.step = "score" /\ Len(times) <= FloodRequests + 1
        /\ ztTimes' = times
        /\ ztRead' = [ztRead EXCEPT ![t] = {}]
        /\ ztScore' = TrustScore(seen.match, times, timeScore)
        /\ UNCHANGED <<rgClock, gateVars, ztDevices>>

\* The cache forgets an entry after its timeout.
ForgetHistory ==
    /\ \/ ztDevices' = <<>> /\ UNCHANGED ztTimes
       \/ ztTimes' = <<>> /\ UNCHANGED ztDevices
    /\ UNCHANGED <<rgClock, gateVars, ztRead, ztScore>>

\* SEGMENT_TRUST_LEVELS, by the longest prefix of the path.
RequiredTrust ==
    [admin |-> 90, execute |-> 80, trading |-> 70, payments |-> 85, accounts |-> 60, signals |-> 60,
     market_data |-> 50, analytics |-> 50, notifications |-> 50, other |-> 60]

-----------------------------------------------------------------------------

GateNext ==
    \/ \E t \in GuardThreads : (\E endpoint \in BOOLEAN : Arrive(t, endpoint)) \/ Consume(t)
    \/ Unblock
    \/ GuardTick

TrustNext ==
    \/ \E t \in GuardThreads :
         \/ VerifyBegin(t)
         \/ \E d \in Devices : VerifyDevice(t, d)
         \/ \E timeScore \in TimeScores : VerifyEnd(t, timeScore)
    \/ ForgetHistory
    \/ GuardTick

GuardSpec == GuardInit /\ [][GateNext \/ TrustNext]_guardVars

-----------------------------------------------------------------------------

\* Types; a history never grows past its limit, also when two threads write it back, and a
\* user on a known device with a fresh token and few requests may do everything.
GuardTypeOK ==
    /\ rgClock \in 1 .. GuardClock
    /\ rgPlace \in [GuardThreads -> {<<>>, <<"ip">>, <<"ep", "ip">>}]
    /\ \A b \in Buckets : rgTokens[b] \in 0 .. BucketCapacity[b] * RateWindow /\ rgFilled[b] \in 1 .. rgClock
    /\ rgUnblock \in 0 .. rgClock + BlockDuration
    /\ Len(ztDevices) <= MaxDeviceHistory /\ IsInjective(ztDevices)
    /\ ztScore \in 65 .. 100
    /\ TrustScore(TRUE, <<>>, 15) >= Max({RequiredTrust[s] : s \in DOMAIN RequiredTrust})

\* However requests of an address interleave and wherever they fall in the minute, no more
\* than a full bucket and one refill pass within one rate window (security/waf.py:234-290).
RateHeld ==
    \A i, j \in DOMAIN rgAdmitted :
        i <= j /\ rgAdmitted[j] - rgAdmitted[i] < RateWindow => j - i + 1 <= 2 * BucketCapacity["ip"]
=============================================================================
