----------------------------- MODULE LogSummary -----------------------------
(***************************************************************************)
(* log-summary/app/fw_log_summary.py: the container reads the whole log of *)
(* the firewall every cycle, keeps the events of the last Window, and      *)
(* publishes a summary, its text and a status, each by an atomic rename,   *)
(* while rsyslog appends, the log is rotated, time passes into a new year  *)
(* and the container dies and is started again.                            *)
(*                                                                         *)
(* A line of syslog has no year: the reader infers it.  What is counted of *)
(* an event (attack, source, port, ...) is abstracted to the event itself. *)
(***************************************************************************)
EXTENDS Integers, FiniteSets

CONSTANTS
  Year,        \* length of the calendar a line without a year is dated in
  Slack,       \* how far ahead of now a date may lie before it is last year's (two days)
  Window,      \* SUMMARY_WINDOW_MINUTES
  Horizon,     \* bound: the last moment
  MaxLines,    \* bound: lines in one file of the log
  MaxRotations,\* bound: rotations of the log
  MaxEmpty,    \* bound: empty cycles in a row
  MaxDeaths    \* bound: deaths of the container
ASSUME CalendarAssumption ==
  Year \in Nat /\ Slack \in Nat /\ Window \in Nat \ {0} /\ Slack < Year

VARIABLES
  clock,       \* the moment it is
  lines,       \* FW_EVT lines of the log: when, and whether the line carries its year
  file,        \* which file the log is, counting rotations
  phase, now, origin, events,   \* the cycle: how far, when it began, the file it read, what it kept
  summary, text, status,        \* the published files, <<>> while there is none
  deaths
logVars == <<clock, lines, file, phase, now, origin, events, summary, text, status, deaths>>
log == <<lines, file>>
cycle == <<now, origin, events>>
published == <<summary, text, status>>

\* parse_syslog_timestamp without its correction.
StampThisYear(l, t) == IF l.dated THEN l.at ELSE Year * (t \div Year) + (l.at % Year)
\* parse_syslog_timestamp: a date too far ahead of now is last year's.
Stamp(l, t) ==
  LET candidate == Year * (t \div Year) + (l.at % Year) IN
  IF l.dated THEN l.at ELSE IF candidate > t + Slack THEN candidate - Year ELSE candidate

LogInit ==
  /\ clock = 0 /\ lines = {} /\ file = 0
  /\ phase = "idle" /\ now = 0 /\ origin = 0 /\ events = {}
  /\ summary = <<>> /\ text = <<>> /\ status = <<>> /\ deaths = 0

(***************************************************************************)
(* run_once                                                                *)
(***************************************************************************)
EmptyCycles == IF status = <<>> THEN 0 ELSE status[1].empty
\* What the process knows goes with the cycle.
Forgets == phase' = "idle" /\ now' = 0 /\ origin' = 0 /\ events' = {}
\* now is taken before the log is opened.
CycleStarts ==
  /\ phase = "idle" /\ EmptyCycles < MaxEmpty
  /\ phase' = "started" /\ now' = clock
  /\ UNCHANGED <<clock, log, origin, events, published, deaths>>
\* load_events reads to the end of the file, lines written since now included.
LoadEvents ==
  /\ phase = "started" /\ phase' = "loaded"
  /\ origin' = file /\ events' = {l \in lines : Stamp(l, now) >= now - Window}
  /\ UNCHANGED <<clock, log, now, published, deaths>>
Cycle == [now |-> now, file |-> origin, events |-> events]
WriteSummary ==
  /\ phase = "loaded" /\ phase' = "summarized"
  /\ summary' = <<Cycle>>
  /\ UNCHANGED <<clock, log, cycle, text, status, deaths>>
WriteText ==
  /\ phase = "summarized" /\ phase' = "rendered"
  /\ text' = <<Cycle>>
  /\ UNCHANGED <<clock, log, cycle, summary, status, deaths>>
WriteStatus ==
  /\ phase = "rendered" /\ Forgets
  /\ status' = <<[now |-> now, file |-> origin, events |-> events,
                  empty |-> IF events = {} THEN EmptyCycles + 1 ELSE 0]>>
  /\ UNCHANGED <<clock, log, summary, text, deaths>>

(***************************************************************************)
(* Everything around it                                                    *)
(***************************************************************************)
\* The container is killed, or a write fails and ends it; it is started again.
ContainerDies ==
  /\ phase # "idle" /\ deaths < MaxDeaths
  /\ Forgets /\ deaths' = deaths + 1
  /\ UNCHANGED <<clock, log, published>>
LineArrives ==
  /\ Cardinality(lines) < MaxLines /\ \A l \in lines : l.at # clock
  /\ \E dated \in BOOLEAN : lines' = lines \cup {[at |-> clock, dated |-> dated]}
  /\ UNCHANGED <<clock, file, phase, cycle, published, deaths>>
Rotate ==
  /\ lines # {} /\ file < MaxRotations
  /\ lines' = {} /\ file' = file + 1
  /\ UNCHANGED <<clock, phase, cycle, published, deaths>>
\* The log is rotated before its oldest line could be taken for one of this year.
RotatedInTime(t) == \A l \in lines : t - l.at < Year - Slack
TimePasses ==
  /\ clock < Horizon /\ RotatedInTime(clock + 1)
  /\ clock' = clock + 1
  /\ UNCHANGED <<log, phase, cycle, published, deaths>>

LogNext ==
  \/ CycleStarts \/ LoadEvents \/ WriteSummary \/ WriteText \/ WriteStatus
  \/ ContainerDies \/ LineArrives \/ Rotate \/ TimePasses
LogSpec == LogInit /\ [][LogNext]_logVars

(***************************************************************************)
(* Property                                                                *)
(***************************************************************************)
\* A file counts no event older than its window, and every one of its file's that falls
\* within it and was there when the cycle began.
Exact(o) ==
  /\ \A l \in o.events : l.at >= o.now - Window
  /\ o.file = file => {l \in lines : o.now - Window <= l.at /\ l.at < o.now} \subseteq o.events
OnDisk(f) == {f[i] : i \in DOMAIN f}

\* What is published counts the events of its window exactly, across rotations and the
\* turn of the year, though most lines carry no year; the status, by which the container
\* is judged healthy, is never ahead of the files it speaks for, wherever the container
\* died, and counts an empty cycle only for an empty window.
SummaryExact ==
  /\ \A o \in OnDisk(summary) \cup OnDisk(text) \cup OnDisk(status) : Exact(o)
  /\ \A s \in OnDisk(status) :
       /\ summary # <<>> /\ text # <<>>
       /\ summary[1].now >= text[1].now /\ text[1].now >= s.now
       /\ s.empty > 0 <=> s.events = {}
  /\ phase = "idle" /\ deaths = 0 =>
       \A o \in OnDisk(summary) \cup OnDisk(text) : \E s \in OnDisk(status) :
         s.now = o.now /\ s.events = o.events
=============================================================================
