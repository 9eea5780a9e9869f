--------------------------- MODULE SecurityMonitor ---------------------------
(***************************************************************************)
(* security/intrusion_detection.py and security/siem.py: the logs of one   *)
(* address and one user that the detectors count in, the verdicts made of  *)
(* the counts, and the security events with their hash chain and the       *)
(* correlation rules; and security/rasp.py, the integrity baseline.        *)
(***************************************************************************)
EXTENDS Integers, Sequences, SequencesExt, FiniteSets, FiniteSetsExt, Functions

CONSTANTS
    Logs,             \* the logs: "rate", "logins", "ip", "trades", "endpoints", "params"
    Window,           \* of each log: how far back its detector looks
    KeptFor,          \* of each log: the age at which cleanup drops an entry
    Threshold,        \* of each log: the count its detector reports
    RateWindows,      \* RATE_WINDOWS: a minute, a middle and the longest window
    SpikeSamples,     \* requests needed before a spike is looked for (10)
    SpikeMultiplier,  \* RATE_SPIKE_MULTIPLIER
    SizeMultiplier,   \* TRADE_SIZE_MULTIPLIER
    SizeSamples,      \* trades needed before a size is judged (5)
    Volumes,          \* volumes of trades
    LoginUsers,       \* users who sign in from the address
    Targets,          \* endpoints and parameters that requests name
    MaxEntries,       \* BOUND: entries ever recorded in one log
    MonitorClock,     \* BOUND: ticks
    EventWorkers,     \* processes that save security events
    RuleThreshold,    \* threshold of the correlation rule of login failures
    RuleWindow,       \* its time_window
    MaxEvents,        \* BOUND: security events
    SourceFiles,      \* the files the integrity checker watches
    Contents          \* contents a file can have

ASSUME MonitorAssumption ==
    /\ Logs = {"rate", "logins", "ip", "trades", "endpoints", "params"}
    /\ Window \in [Logs -> Nat] /\ KeptFor \in [Logs -> Nat] /\ MaxEntries \in Nat
    /\ MonitorClock \in Nat \ {0} /\ MaxEvents \in Nat /\ IsFiniteSet(EventWorkers)

VARIABLES
    idClock,      \* the time
    idLog,        \* of each log: its entries [nr, at, what]
    idRecorded,   \* of each log: how many entries record was given, kept or not
    idVolume,     \* _volume_stats: the sum of the volumes and their number
    idVerdict,    \* the last verdict: threat level and whether it blocks
    evRows,       \* SecurityEvent rows: type, time, and the number of the row its
                  \* previous_hash is from, 0 for none
    evRead,       \* of each worker: the row its event will follow, -1 when idle
    evRaised,     \* whether the last process_event raised
    raFiles,      \* the watched files there are, with their contents
    raStored,     \* .integrity_hashes.json
    raBaseline,   \* the baseline in memory
    raVerified    \* _protection_state: integrity_verified

idsVars  == <<idClock, idLog, idRecorded, idVolume, idVerdict>>
siemVars == <<evRows, evRead, evRaised>>
raspVars == <<raFiles, raStored, raBaseline, raVerified>>
monitorVars == <<idsVars, siemVars, raspVars>>

None == [f \in {} |-> 0]

MonitorInit ==
    /\ idClock = 1
    /\ idLog = [k \in Logs |-> {}] /\ idRecorded = [k \in Logs |-> 0]
    /\ idVolume = [sum |-> 0, count |-> 0]
    /\ idVerdict = [level |-> "INFO", blocked |-> FALSE]
    /\ evRows = <<>> /\ evRead = [w \in EventWorkers |-> -1] /\ evRaised = FALSE
    /\ raFiles \in [SourceFiles -> Contents] /\ raStored = None /\ raBaseline = None /\ raVerified = FALSE

-----------------------------------------------------------------------------
(* Intrusion detection                                                     *)

\* ThreatLevel; INFO is above LOW.
Rank == [NONE |-> 0, LOW |-> 1, INFO |-> 2, MEDIUM |-> 3, HIGH |-> 4, CRITICAL |-> 5]
Worst(levels) == CHOOSE l \in levels : \A m \in levels : Rank[m] <= Rank[l]

Recent(log, window) == {e \in log : e.at > idClock - window}
Kinds(log, window) == {e.what : e \in Recent(log, window)}

Write(k, what) == idLog[k] \union {[nr |-> idRecorded[k] + 1, at |-> idClock, what |-> what]}

\* record of the rate analyzer drops what is older than the longest window, and keeps the
\* rest as a new list.  It then adds the request to the old list, the one it has just
\* replaced (intrusion_detection.py:215-216): the request is lost, so the log stays empty
\* and neither a spike nor a sustained rate is ever seen, whatever the class promises
\* (195-200).
WriteRate == Recent(idLog["rate"], Window["rate"])

\* More requests in the last minute than the multiple of the average of the longer
\* windows, each without its last minute.
Spike(log) ==
    LET minute == RateWindows[1]
        before(w) == Cardinality({e \in Recent(log, w) : e.at <= idClock - minute})
        current == Cardinality(Recent(log, minute))
        middle == before(RateWindows[2])
        long == before(RateWindows[3]) IN
    /\ Cardinality(Recent(log, Window["rate"])) >= SpikeSamples
    /\ middle + long > 0
    /\ 2 * current * RateWindows[3] > SpikeMultiplier * minute * (middle * (RateWindows[3] \div RateWindows[2]) + long)

Sustained(log) == Cardinality(Recent(log, Window["rate"])) > Threshold["rate"]

Verdict(levels, blocked) == idVerdict' = [level |-> Worst(levels), blocked |-> blocked]

\* An entry has been recorded in some logs, which are now "new".
Logged(new) ==
    /\ \A k \in DOMAIN new : idRecorded[k] < MaxEntries
    /\ idLog' = [k \in Logs |-> IF k \in DOMAIN new THEN new[k] ELSE idLog[k]]
    /\ idRecorded' = [k \in Logs |-> IF k \in DOMAIN new THEN idRecorded[k] + 1 ELSE idRecorded[k]]

\* detect_scanning and detect_fuzzing: the different endpoints and parameters asked for.
Abused(endpoints, params) ==
    \/ Cardinality(Kinds(endpoints, Window["endpoints"])) >= Threshold["endpoints"]
    \/ Cardinality(Kinds(params, Window["params"])) >= Threshold["params"]

\* analyze_request: "matched" is the level of the patterns found in the request, INFO when
\* none is.  Its target is recorded, whatever the verdict.
AnalyzeRequest(target, matched) ==
    LET rate == WriteRate
        endpoints == Write("endpoints", target)
        params == Write("params", target)
        level == Worst({matched}
                   \union (IF Spike(rate) \/ Sustained(rate) THEN {"MEDIUM"} ELSE {})
                   \union (IF Abused(endpoints, params) THEN {"LOW"} ELSE {})) IN
    /\ Logged([rate |-> rate, endpoints |-> endpoints, params |-> params])
    /\ Verdict({level}, Rank[level] >= Rank["HIGH"])
    /\ UNCHANGED <<idClock, idVolume, siemVars, raspVars>>

\* The address has an active BlockedIP row that has not expired: nothing is recorded.
BlockedRequest ==
    /\ Verdict({"CRITICAL"}, TRUE)
    /\ UNCHANGED <<idClock, idLog, idRecorded, idVolume, siemVars, raspVars>>

\* detect_brute_force and detect_credential_stuffing.
BruteForce(logins) ==
    Cardinality({e \in Recent(logins, Window["logins"]) : ~e.what}) >= Threshold["logins"]
Stuffing(ip) == Cardinality(Kinds(ip, Window["ip"])) >= Threshold["ip"]

\* analyze_login of the watched user u or another; "unusual" is the hour.
AnalyzeLogin(u, watched, success, unusual) ==
    LET logins == Write("logins", success)
        ip == Write("ip", u)
        force == watched /\ ~success /\ BruteForce(logins)
        stuffing == Stuffing(ip) IN
    /\ IF watched THEN Logged([logins |-> logins, ip |-> ip]) ELSE Logged([ip |-> ip])
    /\ Verdict({"INFO"} \union (IF force THEN {"HIGH"} ELSE {}) \union (IF stuffing THEN {"CRITICAL"} ELSE {})
                        \union (IF unusual THEN {"LOW"} ELSE {}), force \/ stuffing)
    /\ UNCHANGED <<idClock, idVolume, siemVars, raspVars>>

\* record_trade.
CountedVolume(volume) == [sum |-> idVolume.sum + volume, count |-> idVolume.count + 1]

\* detect_unusual_size, by the average.
UnusualSize(stats, volume) ==
    stats.count >= SizeSamples /\ volume * stats.count > SizeMultiplier * stats.sum

\* analyze_trade counts the trade before it judges its size; no caller records order
\* modifications, so no orders are found rapid.
AnalyzeTrade(volume, closed, crowded) ==
    LET stats == CountedVolume(volume)
        unusual == UnusualSize(stats, volume) IN
    /\ Logged([trades |-> Write("trades", volume)])
    /\ idVolume' = stats
    /\ Verdict({"INFO"} \union (IF unusual THEN {"HIGH"} ELSE {}) \union (IF closed THEN {"MEDIUM"} ELSE {})
                        \union (IF crowded THEN {"LOW"} ELSE {}), unusual)
    /\ UNCHANGED <<idClock, siemVars, raspVars>>

\* The cleanup of an analyzer.
Kept(k) == Recent(idLog[k], KeptFor[k])

\* That of all analyzers, each with an age of its own; the average volume is kept.
Cleanup ==
    /\ idLog' = [k \in Logs |-> Kept(k)]
    /\ UNCHANGED <<idClock, idRecorded, idVolume, idVerdict, siemVars, raspVars>>

MonitorTick ==
    /\ idClock < MonitorClock /\ idClock' = idClock + 1
    /\ UNCHANGED <<idLog, idRecorded, idVolume, idVerdict, siemVars, raspVars>>

-----------------------------------------------------------------------------
(* Security events                                                         *)

\* save: the hash of the newest row becomes previous_hash ...
BeginSave(w) ==
    /\ evRead[w] = -1 /\ Len(evRows) + Cardinality({v \in EventWorkers : evRead[v] # -1}) < MaxEvents
    /\ evRead' = [evRead EXCEPT ![w] = Len(evRows)]
    /\ UNCHANGED <<evRows, evRaised, idsVars, raspVars>>

\* The rule counts the rows of its type; reporting it reads rule.event_type, which a
\* rule does not have.
RuleRaises(rows, type) ==
    /\ type = "login_failure"
    /\ Len(SelectSeq(rows, LAMBDA e : e.type = type /\ e.at >= idClock - RuleWindow)) >= RuleThreshold

\* ... and the row is inserted, with the time of the insertion.  process_event then tries
\* the rules: no alert is ever made of them, it raises instead.
FinishSave(w, type) ==
    LET rows == Append(evRows, [type |-> type, at |-> idClock, follows |-> evRead[w]]) IN
    /\ evRead[w] # -1
    /\ evRows' = rows
    /\ evRead' = [evRead EXCEPT ![w] = -1]
    /\ evRaised' = RuleRaises(rows, type)
    /\ UNCHANGED <<idsVars, raspVars>>

EventTick ==
    /\ idClock < MonitorClock /\ idClock' = idClock + 1
    /\ UNCHANGED <<idLog, idRecorded, idVolume, idVerdict, siemVars, raspVars>>

-----------------------------------------------------------------------------
(* Integrity                                                               *)

\* A deployment writes or removes a source file.
WriteFile(f, c) ==
    /\ raFiles' = [g \in DOMAIN raFiles \union {f} |-> IF g = f THEN c ELSE raFiles[g]]
    /\ UNCHANGED <<raStored, raBaseline, raVerified, idsVars, siemVars>>

RemoveFile(f) ==
    /\ raFiles' = Restrict(raFiles, DOMAIN raFiles \ {f})
    /\ UNCHANGED <<raStored, raBaseline, raVerified, idsVars, siemVars>>

\* The file of hashes may fail to be written: the baseline in memory is replaced all the same.
StoreBaseline ==
    /\ raBaseline' = raFiles
    /\ raStored' \in {raFiles, raStored}
    /\ UNCHANGED <<raFiles, raVerified, idsVars, siemVars>>

Refused == {f \in DOMAIN raBaseline : f \notin DOMAIN raFiles \/ raFiles[f] # raBaseline[f]}

\* verify_integrity: files that are not in the baseline are not looked at.
VerifyIntegrity ==
    /\ raVerified' = (Refused = {})
    /\ UNCHANGED <<raFiles, raStored, raBaseline, idsVars, siemVars>>

\* detect_changes also reports the new files.
Changed == Refused \union (DOMAIN raFiles \ DOMAIN raBaseline)

\* A restart loads the stored baseline and verifies it.
RestartRasp ==
    /\ raBaseline' = raStored
    /\ raVerified' = (\A f \in DOMAIN raStored : f \in DOMAIN raFiles /\ raFiles[f] = raStored[f])
    /\ UNCHANGED <<raFiles, raStored, idsVars, siemVars>>

-----------------------------------------------------------------------------

\* Time passes and the periodic cleanup runs whatever is watched.
RequestsNext ==
    \/ \E target \in Targets, matched \in {"INFO", "MEDIUM", "HIGH"} : AnalyzeRequest(target, matched)
    \/ BlockedRequest
    \/ Cleanup
    \/ MonitorTick

LoginsNext ==
    \/ \E u \in LoginUsers, success, unusual \in BOOLEAN :
         AnalyzeLogin(u, u = CHOOSE v \in LoginUsers : TRUE, success, unusual)
    \/ Cleanup
    \/ MonitorTick

TradesNext ==
    \/ \E volume \in Volumes, closed, crowded \in BOOLEAN : AnalyzeTrade(volume, closed, crowded)
    \/ Cleanup
    \/ MonitorTick

SiemNext ==
    \/ \E w \in EventWorkers : BeginSave(w) \/ \E type \in {"login_failure", "waf_block"} : FinishSave(w, type)
    \/ EventTick

RaspNext ==
    \/ \E f \in SourceFiles : RemoveFile(f) \/ \E c \in Contents : WriteFile(f, c)
    \/ StoreBaseline
    \/ VerifyIntegrity
    \/ RestartRasp

MonitorSpec == MonitorInit /\ [][RequestsNext \/ LoginsNext \/ TradesNext \/ SiemNext \/ RaspNext]_monitorVars

-----------------------------------------------------------------------------

\* Types; no request is ever in the log of the rate analyzer, an event's previous_hash is of
\* an older row, and a file the check refuses is among the changes that are reported.
MonitorTypeOK ==
    /\ idClock \in 1 .. MonitorClock
    /\ \A k \in Logs : idRecorded[k] \in 0 .. MaxEntries /\ \A e \in idLog[k] : e.nr \in 1 .. idRecorded[k]
    /\ idLog["rate"] = {}
    /\ idVerdict.level \in DOMAIN Rank
    /\ \A i \in DOMAIN evRows : evRows[i].follows \in 0 .. i - 1
    /\ evRead \in [EventWorkers -> -1 .. MaxEvents] /\ evRaised \in BOOLEAN
    /\ DOMAIN raFiles \subseteq SourceFiles /\ Refused \subseteq Changed
=============================================================================
