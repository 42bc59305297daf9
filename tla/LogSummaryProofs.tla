--------------------------- MODULE LogSummaryProofs ---------------------------
(***************************************************************************)
(* For any calendar, window and number of lines, rotations, cycles and     *)
(* deaths: what the summariser publishes is exact.                         *)
(*                                                                         *)
(* The arithmetic is in StampRight: a line of the log at hand that was     *)
(* written before the cycle began gets its own year.  The rest follows the *)
(* cycle: no line can appear in the past (Timely), so that what was read   *)
(* of a file stays all there is, until that file is rotated away.          *)
(***************************************************************************)
EXTENDS LogSummary, TLAPS

\* A year and what is left of it.
LEMMA YearOf ==
  ASSUME NEW a \in Nat
  PROVE  /\ a \div Year \in Nat /\ a % Year \in 0..(Year - 1)
         /\ a = Year * (a \div Year) + (a % Year)
<1>1. Year \in Nat \ {0}
  BY CalendarAssumption
<1> QED BY <1>1

\* Two moments less than a year apart are in the same year, or in consecutive ones.
LEMMA SameOrNext ==
  ASSUME NEW p \in Nat, NEW q \in Nat, NEW r \in 0..(Year - 1), NEW s \in 0..(Year - 1),
         Year * p + r < Year * q + s, (Year * q + s) - (Year * p + r) < Year
  PROVE  q = p \/ q = p + 1
<1>1. Year \in Nat \ {0}
  BY CalendarAssumption
<1>2. CASE q < p
  <2>1. PICK d \in Nat : p = q + 1 + d
    <3>1. p - q - 1 \in Nat /\ p = q + 1 + (p - q - 1)
      BY <1>2
    <3> QED BY <3>1
  <2>2. Year * p = Year * q + Year + Year * d
    BY <1>1, <2>1
  <2>3. Year * d \in Nat /\ Year * q \in Nat
    BY <1>1
  <2> QED BY <1>1, <2>2, <2>3
<1>3. CASE q > p + 1
  <2>1. PICK d \in Nat : q = p + 2 + d
    <3>1. q - p - 2 \in Nat /\ q = p + 2 + (q - p - 2)
      BY <1>3
    <3> QED BY <3>1
  <2>2. Year * q = Year * p + 2 * Year + Year * d
    BY <1>1, <2>1
  <2>3. Year * d \in Nat /\ Year * p \in Nat
    BY <1>1
  <2> QED BY <1>1, <2>2, <2>3
<1> QED BY <1>2, <1>3

\* A line of the past, rotated in time, is dated right.
LEMMA StampRight ==
  ASSUME NEW l \in [at : Nat, dated : BOOLEAN], NEW t \in Nat, l.at < t, t - l.at < Year - Slack
  PROVE  Stamp(l, t) = l.at
<1> DEFINE a == l.at
           candidate == Year * (t \div Year) + (a % Year)
<1>1. Year \in Nat \ {0} /\ Slack \in Nat /\ a \in Nat
  BY CalendarAssumption
<1>2. /\ a \div Year \in Nat /\ a % Year \in 0..(Year - 1) /\ a = Year * (a \div Year) + (a % Year)
      /\ t \div Year \in Nat /\ t % Year \in 0..(Year - 1) /\ t = Year * (t \div Year) + (t % Year)
  BY <1>1, YearOf
<1>3. Year * (a \div Year) + (a % Year) < Year * (t \div Year) + (t % Year)
  BY <1>2
<1>4. (Year * (t \div Year) + (t % Year)) - (Year * (a \div Year) + (a % Year)) < Year
  BY <1>1, <1>2
<1>5. t \div Year = a \div Year \/ t \div Year = a \div Year + 1
  BY ONLY <1>2, <1>3, <1>4, SameOrNext
<1>6. CASE t \div Year = a \div Year
  <2>1. candidate = a
    BY <1>2, <1>6
  <2> QED BY <1>1, <2>1 DEF Stamp
<1>7. CASE t \div Year = a \div Year + 1
  <2>1. Year * (a \div Year + 1) = Year * (a \div Year) + Year
    BY <1>1, <1>2
  <2>2. Year * (t \div Year) = Year * (a \div Year) + Year
    BY <1>7, <2>1
  <2>3. candidate = a + Year
    BY <1>1, <1>2, <2>2
  <2>4. candidate > t + Slack /\ candidate - Year = a
    BY <1>1, <2>3
  <2> QED BY <2>4 DEF Stamp
<1> QED BY <1>5, <1>6, <1>7

(***************************************************************************)
(* The invariant                                                           *)
(***************************************************************************)
Timely ==
  /\ clock \in Nat /\ file \in Nat /\ now \in Nat /\ origin \in Nat /\ deaths \in Nat
  /\ now <= clock /\ origin <= file
  /\ \A l \in lines : l \in [at : Nat, dated : BOOLEAN] /\ l.at <= clock /\ clock - l.at < Year - Slack
\* What a file says was true of its cycle, and cannot be falsified any more.
KnownAt(o, t, f, seen) ==
  /\ o.now \in Nat /\ o.now <= t /\ o.file \in Nat /\ o.file <= f
  /\ \A l \in o.events : l.at >= o.now - Window
  /\ o.file = f => {l \in seen : o.now - Window <= l.at /\ l.at < o.now} \subseteq o.events
Known(o) == KnownAt(o, clock, file, lines)
AtMostOne(f) == f = <<>> \/ f = <<f[1]>>
FilesKnown ==
  /\ AtMostOne(summary) /\ AtMostOne(text) /\ AtMostOne(status)
  /\ \A o \in OnDisk(summary) \cup OnDisk(text) \cup OnDisk(status) : Known(o)
  /\ \A s \in OnDisk(status) : s.empty \in Nat /\ (s.empty > 0 <=> s.events = {})
Written ==
  /\ phase \in {"idle", "started", "loaded", "summarized", "rendered"}
  /\ phase \in {"loaded", "summarized", "rendered"} => Known(Cycle)
  /\ phase \in {"summarized", "rendered"} => summary = <<Cycle>>
  /\ phase = "rendered" => text = <<Cycle>>
\* The files are written in order.
InOrder ==
  /\ status # <<>> => text # <<>> /\ status[1].now <= text[1].now
  /\ text # <<>> => summary # <<>> /\ text[1].now <= summary[1].now
  /\ phase \in {"started", "loaded"} /\ summary # <<>> => summary[1].now <= now
  /\ phase = "idle" => events = {}
Agreed ==
  deaths = 0 /\ phase \in {"idle", "started", "loaded"} =>
    \A o \in OnDisk(summary) \cup OnDisk(text) : \E s \in OnDisk(status) : s.now = o.now /\ s.events = o.events
LogInv == Timely /\ FilesKnown /\ Written /\ InOrder /\ Agreed

LEMMA OnDiskIs ==
  ASSUME NEW x
  PROVE  OnDisk(<<x>>) = {x} /\ OnDisk(<<>>) = {} /\ AtMostOne(<<x>>) /\ <<x>> # <<>>
BY DEF OnDisk, AtMostOne

\* Time only goes on.
LEMMA TimelyStep ==
  ASSUME Timely, [LogNext]_logVars
  PROVE  Timely' /\ clock <= clock' /\ file <= file'
<1> USE CalendarAssumption DEF Timely
<1>1. CASE CycleStarts \/ LoadEvents
  BY <1>1 DEF CycleStarts, LoadEvents, log
<1>2. CASE WriteSummary \/ WriteText
  BY <1>2 DEF WriteSummary, WriteText, log, cycle
<1>3. CASE WriteStatus \/ ContainerDies
  BY <1>3 DEF WriteStatus, ContainerDies, Forgets, log
<1>4. CASE LineArrives
  <2>1. /\ UNCHANGED <<clock, file, now, origin, deaths>>
        /\ \E dated \in BOOLEAN : lines' = lines \cup {[at |-> clock, dated |-> dated]}
    BY <1>4 DEF LineArrives, cycle
  <2> QED BY <2>1
<1>5. CASE Rotate
  BY <1>5 DEF Rotate, cycle
<1>6. CASE TimePasses
  BY <1>6 DEF TimePasses, RotatedInTime, log, cycle
<1>7. CASE UNCHANGED logVars
  BY <1>7 DEF logVars
<1> QED BY <1>1, <1>2, <1>3, <1>4, <1>5, <1>6, <1>7 DEF LogNext

\* What is known of a cycle stays known.
LEMMA KnownKept ==
  ASSUME Timely, [LogNext]_logVars, NEW o, KnownAt(o, clock, file, lines)
  PROVE  KnownAt(o, clock', file', lines')
<1>1. clock \in Nat /\ clock' \in Nat /\ clock <= clock' /\ file \in Nat /\ file' \in Nat /\ file <= file'
  BY TimelyStep DEF Timely
<1>2. o.file = file' => {l \in lines' : o.now - Window <= l.at /\ l.at < o.now} \subseteq o.events
  <2>1. CASE LineArrives
    <3>1. PICK dated \in BOOLEAN : lines' = lines \cup {[at |-> clock, dated |-> dated]}
      BY <2>1 DEF LineArrives
    <3>2. file' = file /\ ~(clock < o.now)
      BY <2>1, <1>1 DEF LineArrives, KnownAt
    <3> QED BY <3>1, <3>2 DEF KnownAt
  <2>2. CASE Rotate
    BY <2>2 DEF Rotate
  <2>3. CASE UNCHANGED log
    BY <2>3 DEF log, KnownAt
  <2> QED BY <2>1, <2>2, <2>3 DEF LogNext, CycleStarts, LoadEvents, WriteSummary, WriteText, WriteStatus, ContainerDies,
               TimePasses, logVars, log
<1> QED BY <1>1, <1>2 DEF KnownAt

\* What a cycle keeps of a file is exact.
LEMMA LoadedKnown ==
  ASSUME Timely, LoadEvents
  PROVE  Known(Cycle)'
<1>1. /\ origin' = file /\ now' = now /\ lines' = lines /\ file' = file /\ clock' = clock
      /\ events' = {l \in lines : Stamp(l, now) >= now - Window}
  BY DEF LoadEvents, log
<1>2. Window \in Nat /\ now \in Nat
  BY CalendarAssumption DEF Timely
<1>3. ASSUME NEW l \in lines, l.at < now PROVE Stamp(l, now) = l.at
  <2>1. l \in [at : Nat, dated : BOOLEAN] /\ now - l.at < Year - Slack
    BY CalendarAssumption DEF Timely
  <2> QED BY <1>2, <1>3, <2>1, StampRight
<1>4. \A l \in lines : l.at \in Nat
  BY DEF Timely
<1>5. Cycle' = [now |-> now, file |-> file, events |-> events']
  BY <1>1 DEF Cycle
<1>6. \A l \in events' : l.at >= now - Window
  BY <1>1, <1>2, <1>3, <1>4
<1>7. {l \in lines : now - Window <= l.at /\ l.at < now} \subseteq events'
  BY <1>1, <1>2, <1>3, <1>4
<1> QED BY <1>1, <1>5, <1>6, <1>7 DEF Timely, Known, KnownAt

(***************************************************************************)
(* Every step keeps it                                                     *)
(***************************************************************************)
\* A step that writes no file: the files stay known.
LEMMA FilesKept ==
  ASSUME Timely, FilesKnown, [LogNext]_logVars, UNCHANGED published
  PROVE  FilesKnown'
<1>1. summary' = summary /\ text' = text /\ status' = status
  BY DEF published
<1>2. \A o : KnownAt(o, clock, file, lines) => KnownAt(o, clock', file', lines')
  BY KnownKept
<1>3. \A o \in OnDisk(summary) \cup OnDisk(text) \cup OnDisk(status) : KnownAt(o, clock', file', lines')
  BY <1>2 DEF FilesKnown, Known
<1> QED BY <1>1, <1>3 DEF FilesKnown, OnDisk, AtMostOne, Known

LEMMA Begins == LogInit => LogInv
<1> SUFFICES ASSUME LogInit PROVE LogInv
  OBVIOUS
<1>1. summary = <<>> /\ text = <<>> /\ status = <<>> /\ phase = "idle" /\ events = {}
  BY DEF LogInit
<1>2. OnDisk(summary) = {} /\ OnDisk(text) = {} /\ OnDisk(status) = {}
  BY <1>1 DEF OnDisk
<1>3. Timely
  BY DEF LogInit, Timely
<1>4. FilesKnown
  BY <1>1, <1>2 DEF FilesKnown, AtMostOne
<1>5. Written /\ InOrder
  BY <1>1 DEF Written, InOrder
<1>6. Agreed
  BY <1>2 DEF Agreed
<1> QED BY <1>3, <1>4, <1>5, <1>6 DEF LogInv

LEMMA Kept == LogInv /\ [LogNext]_logVars => LogInv'
<1> SUFFICES ASSUME LogInv, [LogNext]_logVars PROVE LogInv'
  OBVIOUS
<1> USE DEF LogInv
<1>1. Timely' /\ clock \in Nat /\ now \in Nat /\ now <= clock /\ deaths \in Nat
  BY TimelyStep DEF Timely
<1>2. \A o : KnownAt(o, clock, file, lines) => KnownAt(o, clock', file', lines')
  BY KnownKept
<1>3. \A f : f # <<>> /\ AtMostOne(f) => f[1] \in OnDisk(f)
  BY DEF OnDisk, AtMostOne
<1>4. CASE CycleStarts
  <2>1. /\ phase = "idle" /\ phase' = "started" /\ now' = clock /\ deaths' = deaths
        /\ summary' = summary /\ text' = text /\ status' = status /\ events' = events
    BY <1>4 DEF CycleStarts, published
  <2>2. FilesKnown'
    BY <2>1, FilesKept DEF published
  <2>3. summary # <<>> => summary[1].now <= clock
    BY <1>3 DEF FilesKnown, Known, KnownAt
  <2>4. Written' /\ InOrder'
    BY <2>1, <2>3 DEF Written, InOrder
  <2>5. Agreed'
    BY <2>1 DEF Agreed, OnDisk
  <2> QED BY <1>1, <2>2, <2>4, <2>5
<1>5. CASE LoadEvents
  <2>1. /\ phase = "started" /\ phase' = "loaded" /\ now' = now /\ deaths' = deaths
        /\ summary' = summary /\ text' = text /\ status' = status
    BY <1>5 DEF LoadEvents, published
  <2>2. FilesKnown'
    BY <2>1, FilesKept DEF published
  <2>3. Known(Cycle)'
    BY <1>5, LoadedKnown
  <2>4. Written' /\ InOrder'
    BY <2>1, <2>3 DEF Written, InOrder
  <2>5. Agreed'
    BY <2>1 DEF Agreed, OnDisk
  <2> QED BY <1>1, <2>2, <2>4, <2>5
<1>6. CASE WriteSummary
  <2>1. /\ phase = "loaded" /\ phase' = "summarized" /\ summary' = <<Cycle>> /\ text' = text /\ status' = status
        /\ now' = now /\ origin' = origin /\ events' = events
    BY <1>6 DEF WriteSummary, cycle
  <2>2. Cycle' = Cycle /\ Cycle.now = now
    BY <2>1 DEF Cycle
  <2>3. Known(Cycle) /\ KnownAt(Cycle, clock', file', lines')
    BY <1>2, <2>1 DEF Written, Known
  <2>4. OnDisk(<<Cycle>>) = {Cycle} /\ AtMostOne(<<Cycle>>) /\ <<Cycle>> # <<>> /\ <<Cycle>>[1] = Cycle
    BY OnDiskIs
  <2>5. /\ AtMostOne(summary') /\ OnDisk(summary') = {Cycle} /\ summary' # <<>> /\ summary'[1].now = now
    BY <2>1, <2>2, <2>4
  <2>6. OnDisk(text') = OnDisk(text) /\ OnDisk(status') = OnDisk(status)
    BY <2>1
  <2>7. \A o \in OnDisk(summary') \cup OnDisk(text') \cup OnDisk(status') : KnownAt(o, clock', file', lines')
    BY <1>2, <2>3, <2>5, <2>6 DEF FilesKnown, Known
  <2>8. AtMostOne(text') /\ AtMostOne(status')
    BY <2>1 DEF FilesKnown
  <2>9. FilesKnown'
    <3>1. \A s \in OnDisk(status') : s.empty \in Nat /\ (s.empty > 0 <=> s.events = {})
      BY <2>6 DEF FilesKnown
    <3>2. AtMostOne(summary)' /\ AtMostOne(text)' /\ AtMostOne(status)'
      BY <2>5, <2>8 DEF AtMostOne
    <3>3. OnDisk(summary)' = OnDisk(summary') /\ OnDisk(text)' = OnDisk(text') /\ OnDisk(status)' = OnDisk(status')
      BY DEF OnDisk
    <3> QED BY <2>7, <3>1, <3>2, <3>3 DEF FilesKnown, Known
  <2>10. Written'
    BY <2>1, <2>2, <2>3 DEF Written, Known
  <2>11. text # <<>> => summary # <<>> /\ text[1].now <= now
    <3>1. text # <<>> => summary # <<>> /\ text[1].now <= summary[1].now /\ summary[1].now <= now
      BY <2>1 DEF InOrder
    <3>2. text # <<>> => text[1].now \in Nat /\ summary[1].now \in Nat
      BY <1>3, <3>1 DEF FilesKnown, Known, KnownAt
    <3> QED BY <1>1, <3>1, <3>2
  <2>12. InOrder'
    BY <2>1, <2>5, <2>11 DEF InOrder
  <2>13. Agreed'
    BY <2>1 DEF Agreed
  <2> QED BY <1>1, <2>9, <2>10, <2>12, <2>13
<1>7. CASE WriteText
  <2>1. /\ phase = "summarized" /\ phase' = "rendered" /\ text' = <<Cycle>> /\ summary' = summary /\ status' = status
        /\ now' = now /\ origin' = origin /\ events' = events
    BY <1>7 DEF WriteText, cycle
  <2>2. Cycle' = Cycle /\ Cycle.now = now
    BY <2>1 DEF Cycle
  <2>3. Known(Cycle) /\ KnownAt(Cycle, clock', file', lines') /\ summary = <<Cycle>>
    BY <1>2, <2>1 DEF Written, Known
  <2>4. OnDisk(<<Cycle>>) = {Cycle} /\ AtMostOne(<<Cycle>>) /\ <<Cycle>> # <<>> /\ <<Cycle>>[1] = Cycle
    BY OnDiskIs
  <2>5. /\ AtMostOne(text') /\ OnDisk(text') = {Cycle} /\ text' # <<>> /\ text'[1].now = now
    BY <2>1, <2>2, <2>4
  <2>6. OnDisk(summary') = OnDisk(summary) /\ OnDisk(status') = OnDisk(status)
    BY <2>1
  <2>7. \A o \in OnDisk(summary') \cup OnDisk(text') \cup OnDisk(status') : KnownAt(o, clock', file', lines')
    BY <1>2, <2>3, <2>5, <2>6 DEF FilesKnown, Known
  <2>8. AtMostOne(summary') /\ AtMostOne(status')
    BY <2>1 DEF FilesKnown
  <2>9. FilesKnown'
    <3>1. \A s \in OnDisk(status') : s.empty \in Nat /\ (s.empty > 0 <=> s.events = {})
      BY <2>6 DEF FilesKnown
    <3>2. AtMostOne(summary)' /\ AtMostOne(text)' /\ AtMostOne(status)'
      BY <2>5, <2>8 DEF AtMostOne
    <3>3. OnDisk(summary)' = OnDisk(summary') /\ OnDisk(text)' = OnDisk(text') /\ OnDisk(status)' = OnDisk(status')
      BY DEF OnDisk
    <3> QED BY <2>7, <3>1, <3>2, <3>3 DEF FilesKnown, Known
  <2>10. Written'
    BY <2>1, <2>2, <2>3 DEF Written, Known
  <2>11. summary # <<>> /\ summary[1].now = now
    BY <2>2, <2>3, <2>4
  <2>12. status # <<>> => status[1].now <= now
    <3>1. status # <<>> => text # <<>> /\ status[1].now <= text[1].now /\ text[1].now <= summary[1].now
      BY DEF InOrder
    <3>2. status # <<>> => status[1].now \in Nat /\ text[1].now \in Nat
      BY <1>3, <3>1 DEF FilesKnown, Known, KnownAt
    <3> QED BY <1>1, <2>11, <3>1, <3>2
  <2>13. InOrder'
    BY <1>1, <2>1, <2>5, <2>11, <2>12 DEF InOrder
  <2>14. Agreed'
    BY <2>1 DEF Agreed
  <2> QED BY <1>1, <2>9, <2>10, <2>13, <2>14
<1>8. CASE WriteStatus
  <2> DEFINE told == [now |-> now, file |-> origin, events |-> events,
                      empty |-> IF events = {} THEN EmptyCycles + 1 ELSE 0]
  <2>1. /\ phase = "rendered" /\ phase' = "idle" /\ events' = {} /\ status' = <<told>>
        /\ summary' = summary /\ text' = text
    BY <1>8 DEF WriteStatus, Forgets
  <2>2. EmptyCycles \in Nat
    BY <1>3 DEF EmptyCycles, FilesKnown
  <2>3. told.now = now /\ told.file = origin /\ told.events = events
    OBVIOUS
  <2>4. told.empty \in Nat /\ (told.empty > 0 <=> told.events = {})
    BY <2>2
  <2>5. Known(Cycle) /\ summary = <<Cycle>> /\ text = <<Cycle>>
    BY <2>1 DEF Written
  <2>6. Cycle.now = now /\ Cycle.file = origin /\ Cycle.events = events
    BY DEF Cycle
  <2>7. Known(told)
    BY <2>3, <2>5, <2>6 DEF Known, KnownAt
  <2> HIDE DEF told
  <2>8. KnownAt(told, clock', file', lines') /\ KnownAt(Cycle, clock', file', lines')
    BY <1>2, <2>5, <2>7 DEF Known
  <2>9. /\ OnDisk(summary') = {Cycle} /\ OnDisk(text') = {Cycle} /\ OnDisk(status') = {told}
        /\ AtMostOne(summary') /\ AtMostOne(text') /\ AtMostOne(status')
    BY <2>1, <2>5, OnDiskIs
  <2>10. FilesKnown'
    <3>1. OnDisk(summary)' = OnDisk(summary') /\ OnDisk(text)' = OnDisk(text') /\ OnDisk(status)' = OnDisk(status')
      BY DEF OnDisk
    <3>2. AtMostOne(summary)' /\ AtMostOne(text)' /\ AtMostOne(status)'
      BY <2>9 DEF AtMostOne
    <3> QED BY <2>4, <2>8, <2>9, <3>1, <3>2 DEF FilesKnown, Known
  <2>11. Written'
    BY <2>1 DEF Written
  <2>12. /\ summary' # <<>> /\ text' # <<>> /\ summary'[1] = Cycle /\ text'[1] = Cycle /\ status'[1] = told
    BY <2>1, <2>5, OnDiskIs
  <2>13. InOrder'
    BY <1>1, <2>1, <2>3, <2>6, <2>12 DEF InOrder
  <2>14. Agreed'
    <3>1. \A o \in {Cycle} : \E s \in {told} : s.now = o.now /\ s.events = o.events
      BY <2>3, <2>6
    <3> QED BY <2>9, <3>1 DEF Agreed, OnDisk
  <2> QED BY <1>1, <2>10, <2>11, <2>13, <2>14
<1>9. CASE ContainerDies
  <2>1. /\ phase' = "idle" /\ events' = {} /\ deaths' = deaths + 1
        /\ summary' = summary /\ text' = text /\ status' = status
    BY <1>9 DEF ContainerDies, Forgets, published
  <2>2. FilesKnown'
    BY <2>1, FilesKept DEF published
  <2>3. Written' /\ InOrder'
    BY <2>1 DEF Written, InOrder
  <2>4. deaths' # 0
    BY <1>1, <2>1
  <2> QED BY <1>1, <2>2, <2>3, <2>4 DEF Agreed
<1>10. CASE LineArrives \/ Rotate \/ TimePasses \/ UNCHANGED logVars
  <2>1. /\ phase' = phase /\ now' = now /\ origin' = origin /\ events' = events /\ deaths' = deaths
        /\ summary' = summary /\ text' = text /\ status' = status
    BY <1>10 DEF LineArrives, Rotate, TimePasses, logVars, cycle, published
  <2>2. FilesKnown'
    BY <2>1, FilesKept DEF published
  <2>3. Cycle' = Cycle
    BY <2>1 DEF Cycle
  <2>4. Written'
    BY <1>2, <2>1, <2>3 DEF Written, Known
  <2>5. InOrder'
    BY <2>1 DEF InOrder
  <2>6. Agreed'
    BY <2>1 DEF Agreed, OnDisk
  <2> QED BY <1>1, <2>2, <2>4, <2>5, <2>6
<1> QED BY <1>4, <1>5, <1>6, <1>7, <1>8, <1>9, <1>10 DEF LogNext

LEMMA Suffices == LogInv => SummaryExact
<1> SUFFICES ASSUME LogInv PROVE SummaryExact
  OBVIOUS
<1> USE DEF LogInv
<1>1. \A o \in OnDisk(summary) \cup OnDisk(text) \cup OnDisk(status) : Known(o)
  BY DEF FilesKnown
<1>2. \A o \in OnDisk(summary) \cup OnDisk(text) \cup OnDisk(status) : Exact(o)
  BY <1>1 DEF Known, KnownAt, Exact
<1>3. \A s \in OnDisk(status) : status # <<>> /\ s = status[1]
  BY DEF FilesKnown, AtMostOne, OnDisk
<1>4. \A s \in OnDisk(status) :
        /\ summary # <<>> /\ text # <<>>
        /\ summary[1].now >= text[1].now /\ text[1].now >= s.now
        /\ s.empty > 0 <=> s.events = {}
  <2> SUFFICES ASSUME NEW s \in OnDisk(status)
               PROVE  /\ summary # <<>> /\ text # <<>>
                      /\ summary[1].now >= text[1].now /\ text[1].now >= s.now
                      /\ s.empty > 0 <=> s.events = {}
    OBVIOUS
  <2>1. summary # <<>> /\ text # <<>> /\ s.now <= text[1].now /\ text[1].now <= summary[1].now
    BY <1>3 DEF InOrder
  <2>2. s.empty > 0 <=> s.events = {}
    BY DEF FilesKnown
  <2> QED BY <2>1, <2>2
<1>5. phase = "idle" /\ deaths = 0 =>
        \A o \in OnDisk(summary) \cup OnDisk(text) : \E s \in OnDisk(status) : s.now = o.now /\ s.events = o.events
  BY DEF Agreed
<1> QED BY <1>2, <1>4, <1>5 DEF SummaryExact

\* Whatever lines come, when it dies and when the log is rotated, the summariser publishes
\* exactly the events of its window, and its status is never ahead of what it speaks for.
THEOREM SummaryIsExact == LogSpec => []SummaryExact
<1>1. LogInit => LogInv
  BY Begins
<1>2. LogInv /\ [LogNext]_logVars => LogInv'
  BY Kept
<1>3. LogInv => SummaryExact
  BY Suffices
<1> QED BY <1>1, <1>2, <1>3, PTL DEF LogSpec
=============================================================================
