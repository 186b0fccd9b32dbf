---------------------------- MODULE SummaryProofs ----------------------------
(***************************************************************************)
(* Proofs about Summary, for every number of rows, channels and ticks.     *)
(*                                                                         *)
(* That no settled row falls between two summaries rests on the stretches  *)
(* they cover: a summary lists what was settled from the start of the last *)
(* one (last_sent) until it read the journal, the last one covers what was *)
(* settled before its own reading, and a start is before its reading.      *)
(***************************************************************************)
EXTENDS Summary, SequenceTheorems, TLAPS

Types ==
  /\ clock \in Nat \ {0} /\ lastSent \in Nat
  /\ rows \in Seq(Row) /\ Len(rows) <= MaxRows
  /\ summary \in Summaries
  /\ listed \in [1..MaxRows -> Nat]
  /\ covered \in [from : Nat, to : Nat]

\* Clock readings lie in the past.
Past ==
  /\ \A id \in DOMAIN rows : rows[id].closed < clock
  /\ covered # Nothing => lastSent # 0 /\ lastSent <= covered.to
  /\ covered.to < clock

\* A summary begins where the last one did, and reads after it began.
Resumes ==
  /\ summary.phase # "idle" =>
       /\ summary.now \in 1..clock - 1
       /\ lastSent # 0 => summary.since = lastSent
  /\ summary.phase = "marking" => summary.read \in summary.now..clock - 1

\* Between the reading and the sending nothing joins the stretch it covers.
Reads ==
  summary.phase = "marking" =>
    \A id \in DOMAIN rows :
      /\ rows[id].how = "settled"
      /\ rows[id].closed \in summary.since..summary.read
      => id \in summary.ids

ListInv == Types /\ Past /\ Resumes /\ Reads /\ SettledIsListed

-----------------------------------------------------------------------------
(* Where it starts *)

LEMMA InitList == ASSUME SummaryAssumption PROVE Init => ListInv
<1> SUFFICES ASSUME Init PROVE ListInv
  OBVIOUS
<1>1. Types
  BY DEF Init, Types, SummaryAssumption, NoSummary, Summaries, Nothing
<1>2. Past /\ Resumes /\ Reads /\ SettledIsListed
  BY DEF Init, Past, Resumes, Reads, SettledIsListed, NoSummary, Nothing
<1> QED
  BY <1>1, <1>2 DEF ListInv

LEMMA RowTimes ==
  ASSUME Types
  PROVE  clock \in Nat /\ \A id \in DOMAIN rows : rows[id] \in Row /\ rows[id].closed \in Nat
<1>1. \A id \in DOMAIN rows : rows[id] \in Row
  BY DEF Types
<1> QED
  BY <1>1 DEF Types, Row

\* The start of a day is a time.
LEMMA DayStartIsTime ==
  ASSUME SummaryAssumption, NEW t \in Nat PROVE DayStart(t) \in Nat
<1>1. t \div TicksPerDay \in Nat
  BY DEF SummaryAssumption
<1> QED
  BY <1>1 DEF DayStart, Day, SummaryAssumption

-----------------------------------------------------------------------------
(* The other tasks *)

LEMMA EnterStep == ASSUME SummaryAssumption, ListInv, Enter PROVE ListInv'
<1> DEFINE row == [entered |-> clock, closed |-> 0, how |-> "open"]
<1>1. /\ rows' = Append(rows, row) /\ clock' = clock + 1 /\ Len(rows) < MaxRows
      /\ UNCHANGED <<lastSent, summary, listed, covered>>
  BY DEF Enter, Stamped
<1>2. row \in Row
  BY DEF ListInv, Types, Row
<1>3. /\ rows' \in Seq(Row) /\ Len(rows') = Len(rows) + 1
      /\ DOMAIN rows' = DOMAIN rows \cup {Len(rows) + 1}
      /\ \A id \in DOMAIN rows : rows'[id] = rows[id]
      /\ rows'[Len(rows) + 1] = row
  BY <1>1, <1>2 DEF ListInv, Types
<1>4. Types'
  BY <1>1, <1>3 DEF ListInv, Types, SummaryAssumption
<1>5. Past'
  <2>1. /\ clock \in Nat \ {0}
        /\ \A id \in DOMAIN rows : rows[id].closed \in Nat /\ rows[id].closed < clock
    BY RowTimes DEF ListInv, Types, Past
  <2>2. \A id \in DOMAIN rows' : rows'[id].closed < clock'
    BY <1>1, <1>3, <2>1
  <2> QED
    BY <1>1, <2>2 DEF ListInv, Types, Past
<1>6. Resumes'
  BY <1>1 DEF ListInv, Types, Resumes, Summaries
<1>7. Reads' /\ SettledIsListed'
  BY <1>1, <1>3 DEF ListInv, Reads, SettledIsListed
<1> QED
  BY <1>4, <1>5, <1>6, <1>7 DEF ListInv

\* A row that closes now does so after every stretch there is.
LEMMA CloseStep ==
  ASSUME SummaryAssumption, ListInv, NEW id \in DOMAIN rows, NEW how \in {"settled", "stopped"},
         Close(id, how)
  PROVE  ListInv'
<1> DEFINE row == [rows[id] EXCEPT !.closed = clock, !.how = how]
<1>1. /\ rows' = [rows EXCEPT ![id] = row] /\ clock' = clock + 1
      /\ UNCHANGED <<lastSent, summary, listed, covered>>
  BY DEF Close, Stamped
<1>2. rows[id] \in Row /\ clock \in Nat
  BY DEF ListInv, Types
<1>3. row \in Row /\ row.closed = clock
  BY <1>2 DEF Row
<1>4. /\ rows' \in Seq(Row) /\ Len(rows') = Len(rows) /\ DOMAIN rows' = DOMAIN rows
      /\ \A other \in DOMAIN rows : other # id => rows'[other] = rows[other]
      /\ rows'[id].closed = clock
  <2> HIDE DEF row
  <2>1. rows \in Seq(Row)
    BY DEF ListInv, Types
  <2> QED
    BY <1>1, <1>3, <2>1
<1>5. Types'
  BY <1>1, <1>4 DEF ListInv, Types
<1>6. Past'
  <2>1. /\ clock \in Nat \ {0}
        /\ \A other \in DOMAIN rows :
             rows[other].closed \in Nat /\ rows[other].closed < clock
    BY RowTimes DEF ListInv, Types, Past
  <2>2. \A other \in DOMAIN rows' : rows'[other].closed < clock'
    BY <1>1, <1>4, <2>1
  <2> QED
    BY <1>1, <2>2 DEF ListInv, Types, Past
<1>7. Resumes'
  BY <1>1 DEF ListInv, Types, Resumes, Summaries
<1>8. Reads'
  BY <1>1, <1>4 DEF ListInv, Types, Resumes, Reads, Summaries
<1>9. SettledIsListed'
  BY <1>1, <1>4 DEF ListInv, Types, Past, SettledIsListed
<1> QED
  BY <1>5, <1>6, <1>7, <1>8, <1>9 DEF ListInv

\* A later clock keeps the invariant.
LEMMA WaitStep ==
  ASSUME ListInv, clock' \in {clock, clock + 1},
         UNCHANGED <<rows, lastSent, summary, listed, covered>>
  PROVE  ListInv'
<1>1. Types'
  BY DEF ListInv, Types
<1>4. Past'
  BY RowTimes DEF ListInv, Types, Past
<1>2. Resumes'
  BY DEF ListInv, Types, Resumes, Summaries
<1>3. Reads' /\ SettledIsListed'
  BY DEF ListInv, Reads, SettledIsListed
<1> QED
  BY <1>1, <1>2, <1>3, <1>4 DEF ListInv

-----------------------------------------------------------------------------
(* The summary *)

LEMMA StartStep == ASSUME SummaryAssumption, ListInv, SummaryStarts PROVE ListInv'
<1> DEFINE since == IF lastSent = 0 THEN DayStart(clock) ELSE lastSent
<1>1. /\ summary' = [phase |-> "resolving", now |-> clock, since |-> since,
                     read |-> 0, ids |-> {}]
      /\ clock' = clock + 1
      /\ UNCHANGED <<rows, lastSent, listed, covered>>
  BY DEF SummaryStarts, NoSummary, Stamped
<1>2. since \in Nat
  BY DayStartIsTime DEF ListInv, Types
<1>3. Types'
  BY <1>1, <1>2 DEF ListInv, Types, Summaries
<1>4. Past'
  BY <1>1, RowTimes DEF ListInv, Types, Past
<1>5. Resumes'
  BY <1>1, <1>2 DEF ListInv, Types, Resumes
<1>6. Reads' /\ SettledIsListed'
  BY <1>1 DEF ListInv, Reads, SettledIsListed
<1> QED
  BY <1>3, <1>4, <1>5, <1>6 DEF ListInv

LEMMA ComposeStep ==
  ASSUME SummaryAssumption, ListInv, NEW found \in SUBSET DOMAIN rows, Compose(found)
  PROVE  ListInv'
<1>1. /\ rows' = [id \in DOMAIN rows |->
                   IF id \in found THEN [rows[id] EXCEPT !.closed = clock, !.how = "settled"]
                   ELSE rows[id]]
  BY DEF Compose
<1>2. /\ clock' = clock + 1 /\ summary.phase = "resolving"
      /\ UNCHANGED <<lastSent, listed, covered>>
  BY DEF Compose, Stamped
<1>3. \A id \in DOMAIN rows : rows[id] \in Row
  BY DEF ListInv, Types
<1>4. \A id \in found : /\ rows'[id] \in Row /\ rows'[id].closed = clock
                        /\ rows'[id].how = "settled"
  BY <1>1, <1>3 DEF Row, ListInv, Types
<1>5. /\ DOMAIN rows' = DOMAIN rows
      /\ \A id \in DOMAIN rows \ found : rows'[id] = rows[id]
  BY <1>1
<1>6. rows' \in Seq(Row) /\ Len(rows') = Len(rows)
  <2>1. rows \in Seq(Row) /\ DOMAIN rows = 1..Len(rows) /\ Len(rows) \in Nat
    BY DEF ListInv, Types
  <2>2. \A id \in DOMAIN rows : rows'[id] \in Row
    BY <1>3, <1>4, <1>5
  <2>3. rows' = [id \in 1..Len(rows) |-> rows'[id]]
    BY <1>1, <2>1
  <2> QED
    BY <2>1, <2>2, <2>3
<1>7. ClosedSince(rows', summary.since) \in SUBSET (1..MaxRows)
  BY <1>6 DEF ListInv, Types, ClosedSince, SummaryAssumption
<1>8. /\ summary' \in Summaries
      /\ summary'.phase = "marking" /\ summary'.read = clock
      /\ summary'.now = summary.now /\ summary'.since = summary.since
      /\ summary'.ids = ClosedSince(rows', summary.since)
  <2>1. summary' = [summary EXCEPT !.phase = "marking", !.read = clock,
                                   !.ids = ClosedSince(rows', summary.since)]
    BY DEF Compose
  <2>2. summary \in Summaries /\ clock \in Nat
    BY DEF ListInv, Types
  <2> QED
    BY <1>7, <2>1, <2>2 DEF Summaries
<1>9. Types'
  BY <1>2, <1>6, <1>8 DEF ListInv, Types
<1>10. Past'
  <2>1. /\ clock \in Nat \ {0}
        /\ \A id \in DOMAIN rows : rows[id].closed \in Nat /\ rows[id].closed < clock
    BY RowTimes DEF ListInv, Types, Past
  <2>2. \A id \in DOMAIN rows' : rows'[id].closed < clock'
    BY <1>2, <1>4, <1>5, <2>1
  <2> QED
    BY <1>2, <2>2 DEF ListInv, Types, Past
<1>11. Resumes'
  BY <1>2, <1>8 DEF ListInv, Types, Resumes, Summaries
<1>12. Reads'
  BY <1>4, <1>5, <1>8 DEF Reads, ClosedSince, ResolvedAt
<1>13. SettledIsListed'
  <2> SUFFICES ASSUME NEW id \in DOMAIN rows, rows'[id].how = "settled",
                      covered # Nothing, rows'[id].closed \in covered.from..covered.to
               PROVE  listed[id] > 0
    BY <1>2, <1>5 DEF SettledIsListed
  <2>1. covered.from \in Nat /\ covered.to \in Nat /\ clock \in Nat /\ covered.to < clock
    BY DEF ListInv, Types, Past
  <2>2. id \notin found
    BY <1>4, <2>1
  <2>3. rows'[id] = rows[id]
    BY <1>5, <2>2
  <2> QED
    BY <2>3 DEF ListInv, SettledIsListed
<1> QED
  BY <1>9, <1>10, <1>11, <1>12, <1>13 DEF ListInv

LEMMA SendStep == ASSUME SummaryAssumption, ListInv, Send PROVE ListInv'
<1>1. /\ summary.phase = "marking" /\ summary' = NoSummary
      /\ lastSent' = summary.now
      /\ listed' = [id \in 1..MaxRows |->
                     listed[id] + (IF id \in summary.ids THEN 1 ELSE 0)]
      /\ covered' = [from |-> IF covered = Nothing THEN summary.since ELSE covered.from,
                     to |-> summary.read]
      /\ UNCHANGED <<clock, rows>>
  BY DEF Send, Told
<1>2. /\ summary.now \in 1..clock - 1 /\ summary.read \in summary.now..clock - 1
      /\ summary.since \in Nat /\ clock \in Nat
  BY <1>1 DEF ListInv, Types, Resumes, Summaries
<1>3. Types'
  BY <1>1, <1>2 DEF ListInv, Types, NoSummary, Summaries
<1>4. Past'
  BY <1>1, <1>2 DEF ListInv, Past
<1>5. Resumes' /\ Reads'
  BY <1>1 DEF NoSummary, Resumes, Reads
<1>6. SettledIsListed'
  <2>1. SUFFICES ASSUME NEW id \in DOMAIN rows, rows[id].how = "settled",
                        rows[id].closed \in covered'.from..covered'.to
                 PROVE  listed'[id] > 0
    BY <1>1 DEF SettledIsListed
  <2>2. id \in 1..MaxRows /\ listed[id] \in Nat /\ rows[id].closed \in Nat
    BY RowTimes DEF ListInv, Types, SummaryAssumption
  <2>3. CASE id \in summary.ids
    BY <1>1, <2>2, <2>3
  <2>4. CASE id \notin summary.ids
    <3>1. rows[id].closed < summary.since
      BY <1>1, <1>2, <2>1, <2>2, <2>4 DEF ListInv, Reads
    <3>2. covered # Nothing
      BY <1>1, <1>2, <2>1, <2>2, <3>1
    <3>3. summary.since <= covered.to
      BY <1>1, <3>2 DEF ListInv, Past, Resumes
    <3>4. rows[id].closed \in covered.from..covered.to
      BY <1>1, <1>2, <2>1, <2>2, <3>1, <3>2, <3>3 DEF ListInv, Types
    <3> QED
      BY <1>1, <2>1, <2>2, <3>2, <3>4 DEF ListInv, SettledIsListed
  <2> QED
    BY <2>3, <2>4
<1> QED
  BY <1>3, <1>4, <1>5, <1>6 DEF ListInv

\* A summary that raised, and a new process, which has covered nothing yet.
LEMMA AfreshStep == ASSUME ListInv, SummaryRaises \/ Restart PROVE ListInv'
<1>1. CASE SummaryRaises
  <2>1. summary' = NoSummary /\ UNCHANGED <<clock, rows, lastSent, listed, covered>>
    BY <1>1 DEF SummaryRaises
  <2>2. Types' /\ Past'
    BY <2>1 DEF ListInv, Types, Past, NoSummary, Summaries
  <2>3. Resumes' /\ Reads' /\ SettledIsListed'
    BY <2>1 DEF ListInv, Resumes, Reads, SettledIsListed, NoSummary
  <2> QED
    BY <2>2, <2>3 DEF ListInv
<1>2. CASE Restart
  <2>1. /\ summary' = NoSummary /\ lastSent' = 0 /\ covered' = Nothing
        /\ listed' = [id \in 1..MaxRows |-> 0]
        /\ UNCHANGED <<clock, rows>>
    BY <1>2 DEF Restart
  <2>2. Types' /\ Past'
    BY <2>1 DEF ListInv, Types, Past, NoSummary, Summaries, Nothing
  <2>3. Resumes' /\ Reads' /\ SettledIsListed'
    BY <2>1 DEF Resumes, Reads, SettledIsListed, NoSummary
  <2> QED
    BY <2>2, <2>3 DEF ListInv
<1> QED
  BY <1>1, <1>2

-----------------------------------------------------------------------------
(* Theorems *)

LEMMA ListStep ==
  ASSUME SummaryAssumption, ListInv, [Next]_vars PROVE ListInv'
<1>1. CASE \/ Tick
           \/ BusNext /\ UNCHANGED <<clock, rows, lastSent, summary, listed, covered>>
           \/ UNCHANGED vars
  <2>1. /\ clock' \in {clock, clock + 1}
        /\ UNCHANGED <<rows, lastSent, summary, listed, covered>>
    BY <1>1 DEF Tick, Stamped, vars
  <2> QED
    BY <2>1, WaitStep
<1>2. CASE \E key \in CooldownKeys \ {"daily_summary"} : Alert(key)
  <2>1. /\ clock' \in {clock, clock + 1}
        /\ UNCHANGED <<rows, lastSent, summary, listed, covered>>
    BY <1>2 DEF Alert
  <2> QED
    BY <2>1, WaitStep
<1>3. CASE Tasks
  <2>1. CASE Enter \/ SummaryStarts \/ SummaryRaises \/ Send
    BY <2>1, EnterStep, StartStep, AfreshStep, SendStep
  <2>2. CASE \E id \in DOMAIN rows, how \in {"settled", "stopped"} : Close(id, how)
    BY <2>2, CloseStep
  <2>3. CASE \E found \in SUBSET DOMAIN rows : Compose(found)
    BY <2>3, ComposeStep
  <2> QED
    BY <1>2, <1>3, <2>1, <2>2, <2>3 DEF Tasks
<1>4. CASE Restart
  BY <1>4, AfreshStep
<1> QED
  BY <1>1, <1>3, <1>4 DEF Next

\* For every length of the day and every time of the summary, however long its
\* lookups and marks take and whatever closes in between: what the reviewer
\* settles is listed by a summary of the process (main.py:368).
THEOREM NoneIsSkipped ==
  ASSUME SummaryAssumption
  PROVE  Spec => []SettledIsListed
<1>1. ListInv /\ [Next]_vars => ListInv'
  BY ListStep
<1>2. ListInv => SettledIsListed
  BY DEF ListInv
<1> QED
  BY <1>1, <1>2, InitList, PTL DEF Spec

\* The task has ended, or was cancelled, before the session is closed
\* (alerts.py:121-130), for every number of channels and whatever it was doing.
THEOREM QuietWhenClosed == Spec => []ClosedIsQuiet
<1> DEFINE Ended == shutdown \in {"ended", "closed"} => worker = Idle
<1>1. Init => Ended
  BY DEF Init, BusInit
<1>2. Ended /\ [Next]_vars => Ended'
  BY DEF Next, Tasks, Enter, Close, Alert, SummaryStarts, Compose, SummaryRaises, Send,
         Tick, Restart, BusNext, Take, PostEnds, PostTimesOut, StopBus, WorkerEnds,
         WorkerCancelled, CloseSession, Posting, vars, busVars
<1>3. Ended => ClosedIsQuiet
  BY DEF ClosedIsQuiet, Posting
<1> QED
  BY <1>1, <1>2, <1>3, PTL DEF Spec

-----------------------------------------------------------------------------
(* The bus and its types *)

Event == [serial : 0..Serials - 1, parts : 1..2]

\* A bus in its types, whose queue is not over its size.
BusTyped(b) ==
  /\ b \in [age : [CooldownKeys -> 0..AlertCooldown], queue : Seq(Event),
            serial : 0..Serials - 1]
  /\ Len(b.queue) <= QueueSize

BusInv ==
  /\ BusTyped(bus)
  /\ worker = Idle \/ worker \in Post
  /\ shutdown \in {"no", "stopping", "finishing", "ended", "closed"}

LEMMA FollowsTyped ==
  ASSUME BusAssumption, NEW serial \in 0..Serials - 1
  PROVE  Follows(serial) \in 0..Serials - 1
<1>1. Serials \in Nat \ {0} /\ serial + 1 \in Nat
  BY DEF BusAssumption, Serials
<1> HIDE DEF Serials
<1> QED
  BY <1>1 DEF Follows

LEMMA NewBusTyped ==
  ASSUME BusAssumption, NEW uptime \in 0..AlertCooldown, NEW serial \in 0..Serials - 1
  PROVE  BusTyped(NewBus(uptime, serial))
<1>1. [k \in CooldownKeys |-> uptime] \in [CooldownKeys -> 0..AlertCooldown]
  OBVIOUS
<1>2. << >> \in Seq(Event) /\ Len(<< >>) <= QueueSize
  BY DEF BusAssumption
<1> QED
  BY <1>1, <1>2 DEF NewBus, BusTyped

\* emit() keeps the queue within its size: it drops what no longer fits.
LEMMA EmittedTyped ==
  ASSUME BusAssumption, NEW b, BusTyped(b), NEW key, NEW parts \in 1..2
  PROVE  BusTyped(Emitted(b, key, parts))
<1> DEFINE muted  == key \notin NoCooldown /\ b.age[key] < AlertCooldown
           marked == IF key \in NoCooldown THEN b.age ELSE [b.age EXCEPT ![key] = 0]
           next   == Follows(b.serial)
           event  == [serial |-> next, parts |-> parts]
<1>1. /\ b.age \in [CooldownKeys -> 0..AlertCooldown] /\ b.queue \in Seq(Event)
      /\ b.serial \in 0..Serials - 1 /\ Len(b.queue) <= QueueSize
      /\ DOMAIN b = {"age", "queue", "serial"}
  BY DEF BusTyped
<1>2. marked \in [CooldownKeys -> 0..AlertCooldown]
  <2>1. 0 \in 0..AlertCooldown
    BY DEF BusAssumption
  <2> QED
    BY <1>1, <2>1
<1>3. next \in 0..Serials - 1
  BY <1>1, FollowsTyped
<1>4. event \in Event
  BY <1>3 DEF Event
<1>5. Emitted(b, key, parts) =
        IF muted THEN b
        ELSE IF Len(b.queue) = QueueSize THEN [b EXCEPT !.age = marked]
        ELSE [age |-> marked, queue |-> Append(b.queue, event), serial |-> next]
  BY DEF Emitted
<1> HIDE DEF muted, marked, next, event
<1>6. CASE muted
  BY <1>5, <1>6
<1>7. CASE ~muted /\ Len(b.queue) = QueueSize
  <2>1. Emitted(b, key, parts) = [b EXCEPT !.age = marked]
    BY <1>5, <1>7
  <2>2. [b EXCEPT !.age = marked] = [age |-> marked, queue |-> b.queue, serial |-> b.serial]
    BY DEF BusTyped
  <2> QED
    BY <1>1, <1>2, <2>1, <2>2 DEF BusTyped
<1>8. CASE ~muted /\ Len(b.queue) # QueueSize
  <2>1. /\ Append(b.queue, event) \in Seq(Event)
        /\ Len(Append(b.queue, event)) = Len(b.queue) + 1
    BY <1>1, <1>4
  <2>2. Len(b.queue) + 1 <= QueueSize
    BY <1>1, <1>8 DEF BusAssumption
  <2> QED
    BY <1>2, <1>3, <1>5, <1>8, <2>1, <2>2 DEF BusTyped
<1> QED
  BY <1>6, <1>7, <1>8

LEMMA AgedTyped ==
  ASSUME BusAssumption, NEW b, BusTyped(b)
  PROVE  BusTyped(Aged(b))
<1> DEFINE aged == [k \in CooldownKeys |-> IF b.age[k] < AlertCooldown THEN b.age[k] + 1
                                                                   ELSE b.age[k]]
<1>1. aged \in [CooldownKeys -> 0..AlertCooldown]
  <2>1. \A k \in CooldownKeys : b.age[k] \in 0..AlertCooldown
    BY DEF BusTyped
  <2>2. AlertCooldown \in Nat
    BY DEF BusAssumption
  <2> QED
    BY <2>1, <2>2
<1>2. Aged(b) = [b EXCEPT !.age = aged]
  BY DEF Aged
<1> HIDE DEF aged
<1>3. [b EXCEPT !.age = aged] = [age |-> aged, queue |-> b.queue, serial |-> b.serial]
  BY DEF BusTyped
<1> QED
  BY <1>1, <1>2, <1>3 DEF BusTyped

\* The dispatching task takes an event, and goes through its parts and channels.
LEMMA WorkerStep ==
  ASSUME BusAssumption, BusInv, BusNext
  PROVE  BusInv'
<1>1. CASE Take
  <2> DEFINE event == Head(bus.queue)
             rest  == Tail(bus.queue)
  <2>1. /\ bus.queue # << >> /\ shutdown' \in {shutdown, "finishing"}
        /\ worker' = [serial |-> event.serial, parts |-> event.parts, part |-> 1, channel |-> 1]
        /\ bus' = [bus EXCEPT !.queue = rest]
    BY <1>1 DEF Take
  <2>2. /\ bus.queue \in Seq(Event) /\ Len(bus.queue) <= QueueSize
        /\ bus.age \in [CooldownKeys -> 0..AlertCooldown] /\ bus.serial \in 0..Serials - 1
    BY DEF BusInv, BusTyped
  <2>3. event \in Event /\ rest \in Seq(Event) /\ Len(rest) <= QueueSize
    BY <2>1, <2>2 DEF BusAssumption
  <2> HIDE DEF event, rest
  <2>4. 1 \in 1..Len(Channels)
    BY DEF BusAssumption
  <2>5. worker' \in Post
    BY <2>1, <2>3, <2>4 DEF Post, Event
  <2>6. [bus EXCEPT !.queue = rest] = [age |-> bus.age, queue |-> rest, serial |-> bus.serial]
    BY DEF BusInv, BusTyped
  <2> QED
    BY <2>1, <2>2, <2>3, <2>5, <2>6 DEF BusInv, BusTyped
<1>2. CASE PostEnds
  <2>1. worker \in Post /\ UNCHANGED <<bus, shutdown>>
    BY <1>2 DEF PostEnds, Posting, BusInv
  <2>2. worker' = Idle \/ worker' \in Post
    <3>1. CASE worker.channel < Len(Channels)
      <4>1. worker' = [worker EXCEPT !.channel = worker.channel + 1]
        BY <1>2, <3>1 DEF PostEnds
      <4>2. worker.channel + 1 \in 1..Len(Channels)
        BY <2>1, <3>1 DEF Post, BusAssumption
      <4> QED
        BY <2>1, <4>1, <4>2 DEF Post
    <3>2. CASE ~(worker.channel < Len(Channels)) /\ worker.part < worker.parts
      <4>1. worker' = [worker EXCEPT !.part = worker.part + 1, !.channel = 1]
        BY <1>2, <3>2 DEF PostEnds
      <4>2. worker.part + 1 \in 1..2 /\ 1 \in 1..Len(Channels)
        BY <2>1, <3>2 DEF Post, BusAssumption
      <4> QED
        BY <2>1, <4>1, <4>2 DEF Post
    <3>3. CASE ~(worker.channel < Len(Channels)) /\ ~(worker.part < worker.parts)
      BY <1>2, <3>3 DEF PostEnds
    <3> QED
      BY <3>1, <3>2, <3>3
  <2> QED
    BY <2>1, <2>2 DEF BusInv
<1>3. CASE PostTimesOut \/ StopBus \/ WorkerEnds \/ WorkerCancelled \/ CloseSession
  BY <1>3 DEF PostTimesOut, StopBus, WorkerEnds, WorkerCancelled, CloseSession, BusInv
<1> QED
  BY <1>1, <1>2, <1>3 DEF BusNext

LEMMA BusStep ==
  ASSUME BusAssumption, BusInv, [Next]_vars
  PROVE  BusInv'
<1>1. ASSUME NEW key, NEW parts \in 1..2, bus' = Emitted(bus, key, parts),
             UNCHANGED <<worker, shutdown>>
      PROVE  BusInv'
  BY <1>1, EmittedTyped DEF BusInv
<1>2. CASE Tasks
  <2>1. ASSUME UNCHANGED busVars PROVE BusInv'
    BY <2>1 DEF busVars, BusInv
  <2>2. CASE \E key \in CooldownKeys \ {"daily_summary"} : Alert(key)
    BY <1>1, <2>2 DEF Alert
  <2>3. CASE Send
    BY <1>1, <2>3 DEF Send
  <2>4. CASE Enter \/ SummaryStarts \/ SummaryRaises
    BY <2>1, <2>4 DEF Enter, SummaryStarts, SummaryRaises
  <2>5. CASE \E id \in DOMAIN rows, how \in {"settled", "stopped"} : Close(id, how)
    BY <2>1, <2>5 DEF Close
  <2>6. CASE \E found \in SUBSET DOMAIN rows : Compose(found)
    BY <2>1, <2>6 DEF Compose
  <2> QED
    BY <1>2, <2>2, <2>3, <2>4, <2>5, <2>6 DEF Tasks
<1>3. CASE Tick
  BY <1>3, AgedTyped DEF Tick, BusInv
<1>4. CASE BusNext
  BY <1>4, WorkerStep
<1>5. CASE Restart
  <2>1. PICK uptime \in 0..AlertCooldown : bus' = NewBus(uptime, bus.serial)
    BY <1>5 DEF Restart
  <2>2. bus.serial \in 0..Serials - 1
    BY DEF BusInv, BusTyped
  <2>3. BusTyped(NewBus(uptime, bus.serial))
    BY <2>2, NewBusTyped
  <2> QED
    BY <1>5, <2>1, <2>3 DEF Restart, BusInv
<1>6. CASE UNCHANGED vars
  BY <1>6 DEF vars, busVars, BusInv
<1> QED
  BY <1>2, <1>3, <1>4, <1>5, <1>6 DEF Next

\* The bus never holds more than its queue's size, whatever is emitted and
\* however slowly it is posted, and the machine stays in its types
\* (alerts.py:157).
THEOREM TypeCorrect ==
  ASSUME BusAssumption, SummaryAssumption
  PROVE  Spec => []TypeOK
<1>1. Init => BusInv
  <2> SUFFICES ASSUME Init PROVE BusInv
    OBVIOUS
  <2>1. PICK uptime \in 0..AlertCooldown : bus = NewBus(uptime, 0)
    BY DEF Init, BusInit
  <2>2. 0 \in 0..Serials - 1
    BY DEF BusAssumption, Serials
  <2> QED
    BY <2>1, <2>2, NewBusTyped DEF Init, BusInit, BusInv
<1>2. BusInv /\ [Next]_vars => BusInv'
  BY BusStep
<1>3. ListInv /\ [Next]_vars => ListInv'
  BY ListStep
<1>4. BusInv /\ ListInv => TypeOK
  BY DEF BusInv, BusTyped, ListInv, Types, TypeOK, BusTypeOK, Event, Posting
<1> QED
  BY <1>1, <1>2, <1>3, <1>4, InitList, PTL DEF Spec
=============================================================================
