----------------------------- MODULE BackupCycle -----------------------------
(***************************************************************************)
(* ml/enhancements/backup_manager.py with the backup tasks of              *)
(* config/tasks.py: which trading system is active, the failures of V6.5   *)
(* that are counted, the log of switches, and the two periodic tasks that  *)
(* ask the manager for methods it does not have.                           *)
(***************************************************************************)
EXTENDS Integers, Sequences, SequencesExt

CONSTANTS
    FailuresAllowed,  \* _max_v65_failures (3)
    Cooldown,         \* _cooldown_seconds, in ticks
    Healths,          \* health percentages of V6.5
    TaskRetries,      \* max_retries of run_backup_trading_cycle (2)
    BackupClock,      \* BOUND: ticks
    MaxLog            \* BOUND: entries of the log

ASSUME BackupAssumption ==
    /\ {FailuresAllowed, BackupClock} \subseteq Nat \ {0}
    /\ {Cooldown, TaskRetries, MaxLog} \subseteq Nat

\* FALLBACK_CHAIN
Chain == <<"V65", "V6", "GOLD_EDGE", "SCALPING", "CONFLUENCE">>
Systems == {Chain[i] : i \in 1 .. 5}
Position(s) == CHOOSE i \in 1 .. 5 : Chain[i] = s

VARIABLES
    bkCurrent,   \* current_system
    bkBefore,    \* previous_system, "none" at first
    bkFailures,  \* _v65_failures
    bkSwitched,  \* _last_switch_time, 0 is none
    bkLog,       \* activation_log: entries [from, to]
    bkClock,     \* the time
    bkTask       \* the backup task: its retries; one more than allowed is failed

backupVars == <<bkCurrent, bkBefore, bkFailures, bkSwitched, bkLog, bkClock, bkTask>>

BackupInit ==
    /\ bkCurrent = "V65" /\ bkBefore = "none" /\ bkFailures = 0 /\ bkSwitched = 0
    /\ bkLog = <<>> /\ bkClock = 1 /\ bkTask = 0

\* _log_activation reads the current system when it writes, after a switch was made.
Entry(current, to) == Append(bkLog, [from |-> current, to |-> to])

LogRoom == Len(bkLog) < MaxLog

\* The triggers of should_activate_backup, in their order; a cycle error is counted even
\* when a later trigger decides.  BOUND: more failures than allowed are not told apart.
Triggered(health, error, gold, scalping) ==
    \/ health < 50
    \/ error /\ bkFailures + 1 >= FailuresAllowed
    \/ gold /\ bkCurrent # "GOLD_EDGE" /\ health < 80
    \/ scalping /\ health < 70

ShouldActivateBackup(health, error, gold, scalping) ==
    /\ LogRoom
    /\ bkFailures' = IF health >= 50 /\ error /\ bkFailures < FailuresAllowed THEN bkFailures + 1 ELSE bkFailures
    /\ bkLog' = IF Triggered(health, error, gold, scalping) THEN Entry(bkCurrent, bkCurrent) ELSE bkLog
    /\ UNCHANGED <<bkCurrent, bkBefore, bkSwitched, bkClock, bkTask>>

\* activate_backup: the next system of the chain; the last one stays.
ActivateBackup ==
    LET i == Position(bkCurrent) IN
    /\ LogRoom
    /\ IF i = Len(Chain) THEN UNCHANGED <<bkCurrent, bkBefore, bkSwitched, bkLog>>
       ELSE /\ bkBefore' = bkCurrent /\ bkCurrent' = Chain[i + 1]
            /\ bkSwitched' = bkClock
            /\ bkLog' = Entry(Chain[i + 1], Chain[i + 1])
    /\ UNCHANGED <<bkFailures, bkClock, bkTask>>

Cooled == bkSwitched = 0 \/ bkClock - bkSwitched >= Cooldown

Recovers == bkCurrent # "V65" /\ Cooled /\ bkFailures = 0

\* check_v65_recovery; going back does not start a cooldown.
CheckV65Recovery ==
    /\ LogRoom /\ Recovers
    /\ bkBefore' = bkCurrent /\ bkCurrent' = "V65"
    /\ bkLog' = Entry("V65", "V65")
    /\ UNCHANGED <<bkFailures, bkSwitched, bkClock, bkTask>>

ResetV65Failures ==
    /\ bkFailures' = 0
    /\ UNCHANGED <<bkCurrent, bkBefore, bkSwitched, bkLog, bkClock, bkTask>>

\* get_system_for_symbol
SystemFor(gold) == IF gold /\ bkCurrent = "V65" THEN "GOLD_EDGE" ELSE bkCurrent

\* run_backup_trading_cycle asks for get_system_for_cycle, which does not exist: the task
\* is retried, and fails with the last retry.  The next run starts anew.
RunBackupCycle ==
    /\ bkTask' = IF bkTask = TaskRetries + 1 THEN 0 ELSE bkTask + 1
    /\ UNCHANGED <<bkCurrent, bkBefore, bkFailures, bkSwitched, bkLog, bkClock>>

\* check_backup_system_health asks for check_v65_health, which does not exist: it reports
\* an error and never tries a recovery.
CheckBackupHealth == UNCHANGED backupVars

BackupTick ==
    /\ bkClock < BackupClock /\ bkClock' = bkClock + 1
    /\ UNCHANGED <<bkCurrent, bkBefore, bkFailures, bkSwitched, bkLog, bkTask>>

BackupNext ==
    \/ \E health \in Healths, error, gold, scalping \in BOOLEAN :
         ShouldActivateBackup(health, error, gold, scalping)
    \/ ActivateBackup
    \/ CheckV65Recovery
    \/ ResetV65Failures
    \/ RunBackupCycle
    \/ CheckBackupHealth
    \/ BackupTick

BackupSpec == BackupInit /\ [][BackupNext]_backupVars

-----------------------------------------------------------------------------

\* Types; the system before is the one above in the chain, or a backup that V6.5 replaced,
\* no entry of the log tells a switch from a warning (backup_manager.py:177-180, 206-212),
\* and a gold symbol never stays with V6.5.
BackupTypeOK ==
    /\ bkCurrent \in Systems /\ bkBefore \in Systems \union {"none"}
    /\ bkFailures \in 0 .. FailuresAllowed
    /\ bkSwitched \in 0 .. bkClock /\ bkClock \in 1 .. BackupClock
    /\ bkTask \in 0 .. TaskRetries + 1 /\ Len(bkLog) <= MaxLog
    /\ bkBefore = "none" => bkCurrent = "V65" /\ bkSwitched = 0
    /\ bkCurrent # "V65" => bkBefore = Chain[Position(bkCurrent) - 1]
    /\ \A i \in DOMAIN bkLog : bkLog[i].from = bkLog[i].to
    /\ SystemFor(TRUE) # "V65"
=============================================================================
