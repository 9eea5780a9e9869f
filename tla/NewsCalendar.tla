---------------------------- MODULE NewsCalendar ----------------------------
(***************************************************************************)
(* ml/enhancements/smart_news_trading.py: the economic calendar of the     *)
(* V6.5 cycle, which every process keeps for a day and shares in a file,   *)
(* and the advice phase 4 takes from it.  Time is in steps of the window   *)
(* before an event.  An event is when it happens, whether it matters to    *)
(* the symbol (its country is one of the symbol's and its impact is high)  *)
(* and whether its time carries a zone.  The code passes over an event     *)
(* whose time it cannot parse, so calendars are taken without them.        *)
(***************************************************************************)
EXTENDS Integers, Sequences, FiniteSets

CONSTANTS
    Readers,         \* processes with a calendar of their own
    DayLength,       \* steps of a day
    PreWindow,       \* pre_event_window, 15 minutes
    PostWindow,      \* post_event_window, 30 minutes
    FetchedCalendars,         \* calendars the sites may answer with
    DefaultAhead,    \* how many steps after midnight of today the default events are
    MaxTime          \* BOUND: steps of time

\* The defaults are the first Friday and the 12th of next month, and four, six and eight
\* weeks from now: never today.
ASSUME NewsAssumption ==
    /\ {DayLength, PreWindow, PostWindow} \subseteq Nat \ {0} /\ PreWindow < DayLength
    /\ MaxTime \in Nat
    /\ DefaultAhead \in Seq(Nat)
    /\ \A i \in DOMAIN DefaultAhead : DefaultAhead[i] >= DayLength + PreWindow

Event == [at : Int, relevant : BOOLEAN, zoned : BOOLEAN]

VARIABLES
    nwNow,
    nwCalendar,      \* of each process: news_calendar
    nwLoaded,        \* the day it was loaded, -1 for never
    nwBuiltIn,       \* whether it is the default calendar
    nwFile,          \* the cache file: its day (-1 for none), its events, whether they are the defaults
    nwHmr,           \* hmr_active
    nwAnswer         \* the last advice: the phase, how far away its event is, of which calendar

newsVars == <<nwNow, nwCalendar, nwLoaded, nwBuiltIn, nwFile, nwHmr, nwAnswer>>

NewsDay == nwNow \div DayLength

\* The default calendar, with absolute times.
Defaults ==
    [i \in DOMAIN DefaultAhead |->
        [at |-> DayLength * NewsDay + DefaultAhead[i], relevant |-> TRUE, zoned |-> FALSE]]

NoAnswer == [phase |-> "none", gap |-> 0, builtIn |-> FALSE]

-----------------------------------------------------------------------------
(* load_economic_calendar.                                                 *)

IsLoaded(p) == nwLoaded[p] = NewsDay /\ nwCalendar[p] # <<>>

\* A file of today is used; an empty or a half-written one is not.
FromFile == nwFile.day = NewsDay /\ nwFile.events # <<>>

\* The first of the two sites that answers with an event of importance.
SiteAnswers(events, builtIn) == events \in FetchedCalendars /\ ~builtIn

\* The events are stamped with the day; an error of the file is swallowed.
Saves(events, builtIn) ==
    nwFile' \in {nwFile, [day |-> NewsDay, events |-> events, builtIn |-> builtIn]}

\* What a process ends up with: its own calendar of today, the file's, the answer of a
\* site, or the defaults; the last two are written to the file.
Loads(p, events, builtIn) ==
    \/ IsLoaded(p) /\ events = nwCalendar[p] /\ builtIn = nwBuiltIn[p] /\ UNCHANGED nwFile
    \/ ~IsLoaded(p) /\ FromFile /\ events = nwFile.events /\ builtIn = nwFile.builtIn /\ UNCHANGED nwFile
    \/ /\ ~IsLoaded(p)
       /\ \/ SiteAnswers(events, builtIn)
          \/ events = Defaults /\ builtIn = TRUE
       /\ Saves(events, builtIn)

Keeps(p, events, builtIn) ==
    /\ nwCalendar' = [nwCalendar EXCEPT ![p] = events]
    /\ nwBuiltIn' = [nwBuiltIn EXCEPT ![p] = builtIn]
    /\ nwLoaded' = [nwLoaded EXCEPT ![p] = NewsDay]

\* The constructor loads the calendar.
NewsInit ==
    /\ nwNow = 0
    /\ nwCalendar = [p \in Readers |-> <<>>]
    /\ nwLoaded = [p \in Readers |-> -1]
    /\ nwBuiltIn = [p \in Readers |-> FALSE]
    /\ nwFile = [day |-> -1, events |-> <<>>, builtIn |-> FALSE]
    /\ nwHmr = [p \in Readers |-> FALSE]
    /\ nwAnswer = NoAnswer

-----------------------------------------------------------------------------
(* The advice.                                                             *)

Gap(event) == event.at - nwNow

\* What one relevant event says: "far" is the code's POST_EVENT, whose condition an event
\* further ahead than the first window satisfies.
PhaseOf(event) ==
    CASE Gap(event) > 0 /\ Gap(event) <= PreWindow -> "reduce"
      [] Gap(event) <= 0 /\ Gap(event) >= -PostWindow -> "wait"
      [] Gap(event) > PreWindow -> "follow"
      [] OTHER -> "none"

Relevant(events) == {i \in DOMAIN events : events[i].relevant}

\* The first relevant event with a phase decides, or the first whose time has a zone: it
\* cannot be subtracted from the local time.
Decides(events, i) ==
    /\ events[i].zoned \/ PhaseOf(events[i]) # "none"
    /\ \A j \in Relevant(events) \cap 1 .. i - 1 : ~events[j].zoned /\ PhaseOf(events[j]) = "none"

AnswerFrom(events, builtIn, answer) ==
    IF \E i \in Relevant(events) : Decides(events, i)
    THEN \E i \in Relevant(events) :
           /\ Decides(events, i)
           /\ answer = [phase |-> IF events[i].zoned THEN "raises" ELSE PhaseOf(events[i]),
                        gap |-> Gap(events[i]), builtIn |-> builtIn]
    ELSE answer = [NoAnswer EXCEPT !.builtIn = builtIn]

\* get_news_strategy, which phase 4 asks about its top symbol.
Ask(p) ==
    \E events \in FetchedCalendars \cup {nwCalendar[p], nwFile.events, Defaults}, builtIn \in BOOLEAN :
      /\ Loads(p, events, builtIn)
      /\ Keeps(p, events, builtIn)
      /\ \E answer \in [phase : {"none", "reduce", "wait", "follow", "raises"},
                        gap : {0} \cup {Gap(events[i]) : i \in DOMAIN events}, builtIn : {builtIn}] :
           AnswerFrom(events, builtIn, answer) /\ nwAnswer' = answer
      /\ UNCHANGED <<nwNow, nwHmr>>

\* A new process: its constructor loads the calendar.
Reopen(p) ==
    \E events \in FetchedCalendars \cup {nwFile.events, Defaults}, builtIn \in BOOLEAN :
      /\ nwLoaded[p] = -1
      /\ Loads(p, events, builtIn)
      /\ Keeps(p, events, builtIn)
      /\ nwHmr' = [nwHmr EXCEPT ![p] = FALSE]
      /\ UNCHANGED <<nwNow, nwAnswer>>

Stop(p) ==
    /\ nwLoaded[p] # -1
    /\ nwLoaded' = [nwLoaded EXCEPT ![p] = -1]
    /\ nwCalendar' = [nwCalendar EXCEPT ![p] = <<>>]
    /\ UNCHANGED <<nwNow, nwBuiltIn, nwFile, nwHmr, nwAnswer>>

\* check_hmr_active looks at the events of the next day only, and loads nothing; a time
\* with a zone raises.
CheckHmr(p) ==
    /\ nwLoaded[p] # -1
    /\ \A i \in DOMAIN nwCalendar[p] : ~nwCalendar[p][i].zoned
    /\ nwHmr' = [nwHmr EXCEPT ![p] =
                   \E i \in DOMAIN nwCalendar[p] :
                      LET gap == Gap(nwCalendar[p][i]) IN gap >= 0 /\ gap <= PreWindow]
    /\ UNCHANGED <<nwNow, nwCalendar, nwLoaded, nwBuiltIn, nwFile, nwAnswer>>

NewsClock ==
    /\ nwNow < MaxTime
    /\ nwNow' = nwNow + 1
    /\ UNCHANGED <<nwCalendar, nwLoaded, nwBuiltIn, nwFile, nwHmr, nwAnswer>>

NewsNext ==
    \/ \E p \in Readers : (nwLoaded[p] # -1 /\ Ask(p)) \/ Reopen(p) \/ Stop(p) \/ CheckHmr(p)
    \/ NewsClock

NewsSpec == NewsInit /\ [][NewsNext]_newsVars

-----------------------------------------------------------------------------
(* Correctness.                                                            *)

\* Whoever made it and whichever process reads it, a calendar that was loaded today from
\* the defaults has no event today: the cycle neither reduces its risk nor waits for one
\* of its events, and every day moves them further away
\* (smart_news_trading.py:45-104, 180-209, 220-251).
DefaultsNeverDue ==
    /\ nwAnswer.builtIn => nwAnswer.phase \in {"none", "follow"}
    /\ \A p \in Readers : nwBuiltIn[p] =>
         \A i \in DOMAIN nwCalendar[p] : nwCalendar[p][i].at >= DayLength * (nwLoaded[p] + 1) + PreWindow

\* The advice to follow the trend after an event is only given before it
\* (smart_news_trading.py:241-246).
FollowedAhead == nwAnswer.phase = "follow" => nwAnswer.gap > PreWindow

NewsTypeOK ==
    /\ nwNow \in 0 .. MaxTime
    /\ \A p \in Readers : nwLoaded[p] \in -1 .. NewsDay /\ nwBuiltIn[p] \in BOOLEAN /\ nwHmr[p] \in BOOLEAN
    /\ nwFile.day \in -1 .. NewsDay /\ nwFile.builtIn \in BOOLEAN
    /\ DefaultsNeverDue /\ FollowedAhead
=============================================================================
