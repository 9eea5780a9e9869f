------------------------------ MODULE Messages ------------------------------
(***************************************************************************)
(* What the system tells people: the alerts of the infrastructure          *)
(* (infrastructure/alert_system.py) with their rate limit, channels and    *)
(* log rows, and the notifications of a user (notifications/services.py,   *)
(* views.py) with the channels they are sent on and the views that mark    *)
(* them as read.  Time is in steps of the rate limit.                      *)
(***************************************************************************)
EXTENDS Integers, Sequences, FiniteSets, SequencesExt

CONSTANTS
    Alerters,        \* threads that send alerts
    AlertSubjects,
    AlertChannels,   \* the channels in the order they are tried: email, Telegram, Slack, webhook
    Minute,          \* _rate_limit_seconds, 60
    MaxAlerts,       \* BOUND: alerts sent
    Reachable,       \* channels on which the user can be reached: an address, a number
    MaxNotes         \* BOUND: notifications sent

ASSUME MessagesAssumption ==
    /\ IsFiniteSet(Alerters) /\ AlertChannels \in Seq(STRING) \ {<<>>}
    /\ Minute \in Nat \ {0} /\ {MaxAlerts, MaxNotes} \subseteq Nat

INFO == 1
WARNING == 2
ERROR == 3
CRITICAL == 4

VARIABLES
    alEnabled,       \* channels enabled in config
    alMin,           \* _min_level
    alSlot,          \* what is left of the minute of a subject's last alert
    alWork,          \* of each thread: the alert it sends, <<>> for none
    alRows,          \* rows of AlertLog: failed and sent
    alSent,          \* alerts started in a subject's current minute
    noRow,           \* the last notification, <<>> for none
    noPrefs,         \* the user's preferences
    noTodo,          \* channels its sender has still to try
    noTried,         \* channels it was handed to
    noView,          \* the row a view has read and not saved yet, <<>> for none
    noCount          \* notifications so far

alertVars == <<alEnabled, alMin, alSlot, alWork, alRows, alSent>>
noteVars == <<noRow, noPrefs, noTodo, noTried, noView, noCount>>
messageVars == <<alertVars, noteVars>>

MessagesInit ==
    /\ alEnabled \in {{}, {AlertChannels[1]}} /\ alMin = WARNING
    /\ alSlot = [s \in AlertSubjects |-> 0]
    /\ alWork = [t \in Alerters |-> <<>>]
    /\ alRows = [sent |-> 0, failed |-> 0]
    /\ alSent = [s \in AlertSubjects |-> 0]
    /\ noRow = <<>> /\ noTodo = <<>> /\ noTried = {} /\ noView = <<>> /\ noCount = 0
    /\ noPrefs \in [email : BOOLEAN, push : BOOLEAN, sms : BOOLEAN, quiet : BOOLEAN]

-----------------------------------------------------------------------------
(* Alerts.                                                                 *)

Enabled == SelectSeq(AlertChannels, LAMBDA c : c \in alEnabled)

\* configure_email and its like: the channel is enabled from now on.
Configure(c) ==
    /\ c \notin alEnabled
    /\ alEnabled' = alEnabled \cup {c}
    /\ UNCHANGED <<alMin, alSlot, alWork, alRows, alSent>>

SetMinimumLevel(level) ==
    /\ alMin' = level
    /\ UNCHANGED <<alEnabled, alSlot, alWork, alRows, alSent>>

\* The level and the subject's minute are looked at; channels the caller names need not
\* be enabled.
BeginAlert(t, s, level, named) ==
    /\ alWork[t] = <<>>
    /\ level >= alMin /\ alSlot[s] = 0
    /\ alRows.sent + alRows.failed < MaxAlerts
    /\ alWork' = [alWork EXCEPT ![t] = [subject |-> s, named |-> named, pc |-> "slot",
                                        todo |-> <<>>, results |-> <<>>]]
    /\ UNCHANGED <<alEnabled, alMin, alSlot, alRows, alSent>>

\* The minute of the subject begins; nothing keeps a second thread from having looked
\* before.
TakeSlot(t) ==
    /\ alWork[t] # <<>> /\ alWork[t].pc = "slot"
    /\ LET s == alWork[t].subject IN
       /\ alSlot' = [alSlot EXCEPT ![s] = Minute]
       /\ alSent' = [alSent EXCEPT ![s] = @ + 1]
    /\ alWork' = [alWork EXCEPT ![t].pc = "send",
                     ![t].todo = IF alWork[t].named = <<>> THEN Enabled ELSE alWork[t].named]
    /\ UNCHANGED <<alEnabled, alMin, alRows>>

\* One channel; a failure is a result like any other.
TryChannel(t, delivered) ==
    /\ alWork[t] # <<>> /\ alWork[t].pc = "send" /\ alWork[t].todo # <<>>
    /\ alWork' = [alWork EXCEPT ![t].todo = Tail(@), ![t].results = Append(@, delivered)]
    /\ UNCHANGED <<alEnabled, alMin, alSlot, alRows, alSent>>

\* A row for every result, until one cannot be written.
LogAlert(t, written) ==
    /\ alWork[t] # <<>> /\ alWork[t].pc = "send" /\ alWork[t].todo = <<>>
    /\ LET Those(outcome) == Cardinality({i \in 1 .. written : alWork[t].results[i] = outcome})
       IN alRows' = [sent |-> alRows.sent + Those(TRUE), failed |-> alRows.failed + Those(FALSE)]
    /\ alWork' = [alWork EXCEPT ![t] = <<>>]
    /\ UNCHANGED <<alEnabled, alMin, alSlot, alSent>>

AlertClock ==
    /\ \E s \in AlertSubjects : alSlot[s] > 0
    /\ alSlot' = [s \in AlertSubjects |-> IF alSlot[s] > 0 THEN alSlot[s] - 1 ELSE 0]
    /\ alSent' = [s \in AlertSubjects |-> IF alSlot[s] > 1 THEN alSent[s] ELSE 0]
    /\ UNCHANGED <<alEnabled, alMin, alWork, alRows>>

AlertsNext ==
    \/ \E c \in Range(AlertChannels) : Configure(c)
    \/ \E level \in {WARNING, CRITICAL} : SetMinimumLevel(level)
    \/ \E t \in Alerters :
         \/ \E s \in AlertSubjects, level \in {INFO, ERROR}, named \in {<<>>, <<Last(AlertChannels)>>} :
                BeginAlert(t, s, level, named)
         \/ TakeSlot(t)
         \/ \E delivered \in BOOLEAN : TryChannel(t, delivered)
         \/ alWork[t] # <<>> /\ \E written \in 0 .. Len(alWork[t].results) : LogAlert(t, written)
    \/ AlertClock

-----------------------------------------------------------------------------
(* Notifications.                                                          *)

NewRow == [read |-> FALSE, email |-> FALSE, push |-> FALSE, sms |-> FALSE]

\* The priorities the notify methods give a kind: a trade of a large amount and a strong
\* signal are HIGH, a risk is URGENT when it is critical, and the caller chooses the
\* system's.
Priorities ==
    [TRADE |-> {"NORMAL", "HIGH"}, SIGNAL |-> {"NORMAL", "HIGH"}, RISK |-> {"HIGH", "URGENT"},
     PAYMENT |-> {"HIGH"}, SYSTEM |-> {"NORMAL", "HIGH", "URGENT"}]

\* In quiet hours only an urgent notification goes out; the others are never sent later.
Quiet(priority) == noPrefs.quiet /\ priority # "URGENT"

\* Whether a kind is sent on a channel; kinds without a preference of their own are.
ShouldSendOn(channel, kind, priority) ==
    CASE channel = "email" -> kind = "SYSTEM" \/ noPrefs.email
      [] channel = "push" -> kind = "SYSTEM" \/ noPrefs.push
      [] channel = "sms" -> priority = "URGENT" /\ noPrefs.sms

ChannelsFor(kind, priority) ==
    IF Quiet(priority) THEN <<>>
    ELSE SelectSeq(<<"email", "push", "sms">>, LAMBDA c : ShouldSendOn(c, kind, priority))

SendNotification(kind, priority) ==
    /\ noTodo = <<>> /\ noView = <<>> /\ noCount < MaxNotes
    /\ noRow' = NewRow /\ noTried' = {} /\ noTodo' = ChannelsFor(kind, priority)
    /\ noCount' = noCount + 1
    /\ UNCHANGED <<noPrefs, noView>>

\* The message is handed over, then only the column of the channel is saved.  An e-mail
\* fails silently and counts as sent.
SendOn(channel) ==
    /\ noTodo # <<>> /\ Head(noTodo) = channel
    /\ noTodo' = Tail(noTodo)
    /\ IF channel \in Reachable
       THEN noTried' = noTried \cup {channel} /\ noRow' = [noRow EXCEPT ![channel] = TRUE]
       ELSE UNCHANGED <<noRow, noTried>>
    /\ UNCHANGED <<noPrefs, noView, noCount>>

\* The view of one notification: get, then the whole row is saved.
ReadNote ==
    /\ noRow # <<>> /\ noView = <<>>
    /\ noView' = noRow
    /\ UNCHANGED <<noRow, noPrefs, noTodo, noTried, noCount>>

MarkRead ==
    /\ noView # <<>>
    /\ noRow' = [noView EXCEPT !.read = TRUE]
    /\ noView' = <<>>
    /\ UNCHANGED <<noPrefs, noTodo, noTried, noCount>>

\* One UPDATE of the rows not read yet.
MarkAllRead ==
    /\ noRow # <<>> /\ ~noRow.read
    /\ noRow' = [noRow EXCEPT !.read = TRUE]
    /\ UNCHANGED <<noPrefs, noTodo, noTried, noView, noCount>>

SavePreferences(prefs) ==
    /\ noTodo = <<>>
    /\ noPrefs' = prefs
    /\ UNCHANGED <<noRow, noTodo, noTried, noView, noCount>>

NotesNext ==
    \/ \E kind \in DOMAIN Priorities : \E p \in Priorities[kind] : SendNotification(kind, p)
    \/ \E c \in {"email", "push", "sms"} : SendOn(c)
    \/ ReadNote \/ MarkRead \/ MarkAllRead
    \/ \E prefs \in [email : BOOLEAN, push : {TRUE}, sms : {TRUE}, quiet : BOOLEAN] :
          SavePreferences(prefs)

MessagesNext ==
    \/ AlertsNext /\ UNCHANGED noteVars
    \/ NotesNext /\ UNCHANGED alertVars

MessagesSpec == MessagesInit /\ [][MessagesNext]_messageVars

-----------------------------------------------------------------------------
(* Correctness.                                                            *)

\* Within one minute a subject is sent at most once by every thread: those that looked
\* before the first of them took the minute.
AlertsPerMinute == \A s \in AlertSubjects : alSent[s] <= Cardinality(Alerters)

\* A notification is marked as sent on a channel only after it was handed over, also when
\* a view saves an older copy of its row over it.
MarkedIsTried ==
    noRow # <<>> => \A c \in {"email", "push", "sms"} : noRow[c] => c \in noTried

\* The converse holds only while no view has saved: its copy may take a mark back.
TriedIsMarked ==
    noRow # <<>> /\ ~noRow.read => \A c \in noTried : noRow[c]

MessagesTypeOK ==
    /\ alEnabled \subseteq Range(AlertChannels) /\ alMin \in INFO .. CRITICAL
    /\ alSlot \in [AlertSubjects -> 0 .. Minute]
    /\ \A t \in Alerters : alWork[t] # <<>> => alWork[t].pc \in {"slot", "send"}
    /\ alRows \in [sent : Nat, failed : Nat]
    /\ noTried \subseteq {"email", "push", "sms"} /\ noCount \in 0 .. MaxNotes
    /\ AlertsPerMinute /\ MarkedIsTried /\ TriedIsMarked
=============================================================================
