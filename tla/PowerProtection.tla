-------------------------- MODULE PowerProtection --------------------------
(***************************************************************************)
(* infrastructure/power_protection.py with trading_state.py: the monitor   *)
(* of mains and battery, the emergency saves it makes, the delayed         *)
(* shutdown, and the store that is to survive it (Redis and a file, both   *)
(* holding the last signed record).  One kind of state stands for the      *)
(* three that are saved: positions, account and orders.                    *)
(***************************************************************************)
EXTENDS FiniteSets

CONSTANTS
    Books,     \* what the trading state can hold
    NoBook,    \* what is saved when nothing could be loaded: [] or {}
    NoRecord   \* no stored record

ASSUME PowerAssumption == NoBook \notin Books /\ NoRecord \notin Books

VARIABLES
    battery,       \* "ok", "low" (at most 50%) or "critical" (at most 20%)
    onBattery,     \* whether the UPS runs on battery
    powerStatus,   \* PowerStatus, the verdict of the last check
    powerOutage,   \* outage_start is set
    shuttingDown,  \* is_shutting_down
    shutdownPc,    \* _shutdown_worker: "none", "delay", "save", "command" or "ended"
    powerPc,       \* the monitor: "check", "handle" or "save"
    canShutdown,   \* whether the machine obeys the shutdown command
    processUp,     \* whether the process runs
    loadedBook,    \* what each saver loaded before it saves
    redisUp,
    redisRecord,   \* the two stores: a record, or NoRecord
    fileRecord,
    lastSaved      \* the book save_state last reported as saved, NoRecord before

supplyVars == <<battery, onBattery, canShutdown>>
shutdownVars == <<shuttingDown, shutdownPc>>
storeVars == <<redisRecord, fileRecord, lastSaved>>
powerVars == <<supplyVars, powerStatus, powerOutage, shutdownVars, powerPc, processUp,
               loadedBook, redisUp, storeVars>>

PowerInit ==
    /\ battery = "ok" /\ onBattery = FALSE
    /\ powerStatus = "normal" /\ powerOutage = FALSE
    /\ shuttingDown = FALSE /\ shutdownPc = "none"
    /\ powerPc = "check"
    /\ canShutdown \in BOOLEAN
    /\ processUp = TRUE
    /\ loadedBook = [s \in {"monitor", "worker"} |-> NoBook]
    /\ redisUp = TRUE
    /\ redisRecord = NoRecord /\ fileRecord = NoRecord
    /\ lastSaved = NoRecord

-----------------------------------------------------------------------------
(* The store *)

Fields == {"type", "data", "timestamp"}

\* _sign_state: the signature tells apart what it was made over.
SignState(fields, book) == <<fields, book>>

\* save_state signs the record before the signature is one of its fields.
Signed(book) == [book |-> book, signature |-> SignState(Fields, book)]

\* load_state verifies the record it read, which has the signature among its fields.
Verified(record) == record.signature = SignState(Fields \union {"signature"}, record.book)

StoreBook(book) ==
    /\ redisRecord' = IF redisUp THEN Signed(book) ELSE redisRecord
    /\ fileRecord' = Signed(book)
    /\ lastSaved' = book

LoadState ==
    LET valid == {r \in {redisRecord, fileRecord} : r # NoRecord /\ Verified(r)} IN
    IF redisUp /\ redisRecord \in valid THEN redisRecord.book
    ELSE IF fileRecord \in valid THEN fileRecord.book ELSE NoBook

\* REST save_trading_state, the only caller with a state of its own.
SaveTradingState(book) ==
    /\ processUp
    /\ StoreBook(book)
    /\ UNCHANGED <<supplyVars, powerStatus, powerOutage, shutdownVars, powerPc, processUp,
                   loadedBook, redisUp>>

\* Redis goes or comes back, or its record expires after a day.
RedisTurns ==
    /\ \/ redisUp' = ~redisUp /\ UNCHANGED redisRecord
       \/ redisRecord' = NoRecord /\ UNCHANGED redisUp
    /\ UNCHANGED <<supplyVars, powerStatus, powerOutage, shutdownVars, powerPc, processUp,
                   loadedBook, fileRecord, lastSaved>>

-----------------------------------------------------------------------------
(* The monitor and the shutdown thread *)

PowerTurns ==
    /\ battery' \in {"ok", "low", "critical"} /\ onBattery' \in BOOLEAN
    /\ UNCHANGED <<canShutdown, powerStatus, powerOutage, shutdownVars, powerPc, processUp,
                   loadedBook, redisUp, storeVars>>

CheckPowerStatus ==
    /\ processUp /\ powerPc = "check"
    /\ powerStatus' = CASE battery = "critical" -> "critical_battery"
                        [] battery = "low" -> "low_battery"
                        [] battery = "ok" /\ onBattery -> "power_outage"
                        [] OTHER -> "normal"
    /\ powerPc' = "handle"
    /\ UNCHANGED <<supplyVars, powerOutage, shutdownVars, processUp, loadedBook, redisUp, storeVars>>

LoadFor(saver) == loadedBook' = [loadedBook EXCEPT ![saver] = LoadState]

\* handle_power_restored.
EndOutage == powerOutage' = FALSE

\* The branches of _monitor_loop; the two low ones begin an emergency save.
HandlePowerStatus ==
    /\ processUp /\ powerPc = "handle"
    /\ \/ /\ powerStatus \in {"critical_battery", "low_battery"}
          /\ LoadFor("monitor")
          /\ powerPc' = "save"
          /\ UNCHANGED powerOutage
       \/ /\ powerStatus = "power_outage"
          /\ powerOutage' = TRUE
          /\ powerPc' = "check"
          /\ UNCHANGED loadedBook
       \/ /\ powerStatus = "normal"
          /\ EndOutage
          /\ powerPc' = "check"
          /\ UNCHANGED loadedBook
    /\ UNCHANGED <<supplyVars, powerStatus, shutdownVars, processUp, redisUp, storeVars>>

\* Variant: a shutdown that is under way is begun again.
InitiateShutdownAgain == shuttingDown' = TRUE /\ shutdownPc' = "delay"

\* Variant: the thread is started only when a shutdown was asked for before.
InitiateShutdownFlag ==
    /\ shuttingDown' = TRUE
    /\ UNCHANGED shutdownPc

InitiateShutdown ==
    IF shuttingDown THEN UNCHANGED shutdownVars
    ELSE shuttingDown' = TRUE /\ shutdownPc' = "delay"

\* The emergency save writes what it loaded; a critical verdict then shuts down.
MonitorSave ==
    /\ processUp /\ powerPc = "save"
    /\ StoreBook(loadedBook["monitor"])
    /\ IF powerStatus = "critical_battery" THEN InitiateShutdown ELSE UNCHANGED shutdownVars
    /\ powerPc' = "check"
    /\ UNCHANGED <<supplyVars, powerStatus, powerOutage, processUp, loadedBook, redisUp>>

\* _shutdown_worker sleeps, saves once more and runs the command, whatever power does.
ShutdownWorker ==
    /\ processUp
    /\ \/ /\ shutdownPc = "delay"
          /\ LoadFor("worker") /\ shutdownPc' = "save"
          /\ UNCHANGED <<storeVars, processUp>>
       \/ /\ shutdownPc = "save"
          /\ StoreBook(loadedBook["worker"]) /\ shutdownPc' = "command"
          /\ UNCHANGED <<loadedBook, processUp>>
       \/ /\ shutdownPc = "command"
          /\ shutdownPc' = "ended" /\ processUp' = ~canShutdown
          /\ UNCHANGED <<storeVars, loadedBook>>
    /\ UNCHANGED <<supplyVars, powerStatus, powerOutage, shuttingDown, powerPc, redisUp>>

\* A crash; one in the middle of a save leaves the file unreadable.
Crash ==
    /\ processUp /\ processUp' = FALSE
    /\ fileRecord' = IF powerPc = "save" \/ shutdownPc = "save" THEN NoRecord ELSE fileRecord
    /\ UNCHANGED <<supplyVars, powerStatus, powerOutage, shutdownVars, powerPc, loadedBook,
                   redisUp, redisRecord, lastSaved>>

\* What the process held in memory is gone.
Restart ==
    /\ ~processUp /\ processUp' = TRUE
    /\ powerStatus' = "normal" /\ powerOutage' = FALSE
    /\ shuttingDown' = FALSE /\ shutdownPc' = "none"
    /\ powerPc' = "check"
    /\ loadedBook' = [s \in {"monitor", "worker"} |-> NoBook]
    /\ UNCHANGED <<supplyVars, redisUp, storeVars>>

MonitorPower == CheckPowerStatus \/ HandlePowerStatus \/ MonitorSave

PowerNext ==
    \/ \E b \in Books : SaveTradingState(b)
    \/ RedisTurns \/ PowerTurns
    \/ MonitorPower \/ ShutdownWorker
    \/ Crash \/ Restart

\* The monitor thread loops, the delay passes.
PowerFairness == WF_powerVars(MonitorPower) /\ WF_powerVars(ShutdownWorker)

PowerSpec == PowerInit /\ [][PowerNext]_powerVars /\ PowerFairness

-----------------------------------------------------------------------------

Records == [book : Books \union {NoBook}, signature : {Fields} \X (Books \union {NoBook})]

\* Types; every stored record was signed before its signature was added to it.
PowerTypeOK ==
    /\ battery \in {"ok", "low", "critical"} /\ onBattery \in BOOLEAN
    /\ powerStatus \in {"normal", "power_outage", "low_battery", "critical_battery"}
    /\ powerOutage \in BOOLEAN /\ shuttingDown \in BOOLEAN
    /\ shutdownPc \in {"none", "delay", "save", "command", "ended"}
    /\ powerPc \in {"check", "handle", "save"}
    /\ canShutdown \in BOOLEAN /\ processUp \in BOOLEAN /\ redisUp \in BOOLEAN
    /\ loadedBook \in [{"monitor", "worker"} -> Books \union {NoBook}]
    /\ {redisRecord, fileRecord} \subseteq Records \union {NoRecord}
    /\ lastSaved \in Books \union {NoBook, NoRecord}

\* What save_state last reported as saved is what load_state returns, as long as Redis
\* and the file still hold it (trading_state.py:31-36, 171-182).
RestoresSaved ==
    lastSaved # NoRecord /\ redisUp /\ fileRecord # NoRecord /\ redisRecord # NoRecord
      => LoadState = lastSaved

\* A critical battery that stays so takes the machine down if it obeys the command,
\* though the thread that does it starts only once (power_protection.py:259-297).
CriticalShutsDown ==
    canShutdown => ~<>[](battery = "critical" /\ processUp)

\* The shutdown command runs at most once in the life of the process, however often
\* the verdict is critical while the thread waits (power_protection.py:261-264).
CommandOnce ==
    [][shutdownPc' = "delay" => shutdownPc \in {"none", "delay"}]_powerVars
=============================================================================
