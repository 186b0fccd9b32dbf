------------------------------ MODULE Summary ------------------------------
(***************************************************************************)
(* The daily summary (daily_summary_loop in main.py) on the alert bus: once *)
(* a day, after daily_summary_time, it settles what can be settled, lists  *)
(* the trades closed since the last summary and emits one event of a head  *)
(* and details.  Meanwhile other tasks close rows and emit alerts.         *)
(*                                                                         *)
(* `clock' is UTC; two timestamps are never equal, so whatever takes one   *)
(* moves it on.  A row is known by when it was entered and closed and by   *)
(* whether it carries resolved_at (settled by the reviewer) or not         *)
(* (stopped out).                                                          *)
(***************************************************************************)
EXTENDS AlertBus

CONSTANTS
  TicksPerDay,
  SummaryTime,  \* daily_summary_time, in ticks after midnight
  MaxRows,      \* bounds: rows, ticks
  MaxClock

ASSUME SummaryAssumption ==
  /\ TicksPerDay \in Nat \ {0}
  /\ SummaryTime \in 0..TicksPerDay - 1
  /\ MaxRows \in Nat /\ MaxClock \in Nat

VARIABLES
  clock,
  rows,      \* Seq(Row): the journal
  lastSent,  \* last_sent, 0 = None
  summary,   \* the loop: NoSummary, or the one it is composing
  listed,    \* history: [id -> times it was listed in this process]
  covered    \* history: [from, to], what the summaries of this process cover

vars == <<busVars, clock, rows, lastSent, summary, listed, covered>>

Row == [entered : Nat, closed : Nat, how : {"open", "settled", "stopped"}]
NoSummary == [phase |-> "idle", now |-> 0, since |-> 0, read |-> 0, ids |-> {}]
Summaries == [phase : {"idle", "resolving", "marking"}, now : Nat, since : Nat,
              read : Nat, ids : SUBSET (1..MaxRows)]
Nothing == [from |-> 0, to |-> 0]

Day(t) == t \div TicksPerDay
DayStart(t) == Day(t) * TicksPerDay

Init ==
  /\ BusInit
  /\ clock = 1
  /\ rows = << >>
  /\ lastSent = 0
  /\ summary = NoSummary
  /\ listed = [id \in 1..MaxRows |-> 0]
  /\ covered = Nothing

Stamped == clock < MaxClock /\ clock' = clock + 1

-----------------------------------------------------------------------------
(* The other tasks *)

Enter ==
  /\ Stamped
  /\ Len(rows) < MaxRows
  /\ rows' = Append(rows, [entered |-> clock, closed |-> 0, how |-> "open"])
  /\ UNCHANGED <<busVars, lastSent, summary, listed, covered>>

\* The reviewer's loop settles a row, the stop-loss exits it.
Close(id, how) ==
  /\ Stamped
  /\ rows[id].how = "open"
  /\ rows' = [rows EXCEPT ![id].closed = clock, ![id].how = how]
  /\ UNCHANGED <<busVars, lastSent, summary, listed, covered>>

Alert(key) ==
  /\ bus' = Emitted(bus, key, 1)
  /\ UNCHANGED <<worker, shutdown, clock, rows, lastSent, summary,
                 listed, covered>>

-----------------------------------------------------------------------------
(* daily_summary_loop *)

\* is_summary_due
Due ==
  /\ clock - DayStart(clock) >= SummaryTime
  /\ lastSent = 0 \/ Day(lastSent) < Day(clock)

\* `now' is taken, and check_resolutions starts its lookups.
SummaryStarts ==
  /\ summary = NoSummary
  /\ Due
  /\ Stamped
  /\ summary' = [NoSummary EXCEPT
                   !.phase = "resolving", !.now = clock,
                   !.since = IF lastSent = 0 THEN DayStart(clock) ELSE lastSent]
  /\ UNCHANGED <<busVars, rows, lastSent, listed, covered>>

\* closed_since: rows without resolved_at go by their entry.
ResolvedAt(row) == IF row.how = "settled" THEN row.closed ELSE row.entered

ClosedSince(journal, since) ==
  {id \in DOMAIN journal : journal[id].how # "open" /\ ResolvedAt(journal[id]) >= since}

\* The lookups are done: rows of the markets found final are settled, and the
\* lists are read from the journal before the marks are awaited.
Compose(found) ==
  /\ summary.phase = "resolving"
  /\ Stamped
  /\ found \subseteq {id \in DOMAIN rows : rows[id].how = "open"}
  /\ rows' = [id \in DOMAIN rows |->
       IF id \in found THEN [rows[id] EXCEPT !.closed = clock, !.how = "settled"]
                       ELSE rows[id]]
  /\ summary' = [summary EXCEPT !.phase = "marking", !.read = clock,
                                !.ids = ClosedSince(rows', summary.since)]
  /\ UNCHANGED <<busVars, lastSent, listed, covered>>

\* A query raises: last_sent is as it was, and the next turn starts over.
SummaryRaises ==
  /\ summary # NoSummary
  /\ summary' = NoSummary
  /\ UNCHANGED <<busVars, clock, rows, lastSent, listed, covered>>

\* What the summary told, for the properties.
Told ==
  /\ listed' = [id \in 1..MaxRows |->
       listed[id] + (IF id \in summary.ids THEN 1 ELSE 0)]
  /\ covered' = [from |-> IF covered = Nothing THEN summary.since ELSE covered.from,
                 to   |-> summary.read]

\* Mutation: last_sent is the time of sending.
SendAndStamp ==
  /\ summary.phase = "marking"
  /\ bus' = Emitted(bus, "daily_summary", 2)
  /\ lastSent' = clock
  /\ summary' = NoSummary
  /\ Told
  /\ UNCHANGED <<worker, shutdown, clock, rows>>

\* The marks are in; last_sent becomes the `now' of the start.
Send ==
  /\ summary.phase = "marking"
  /\ bus' = Emitted(bus, "daily_summary", 2)
  /\ lastSent' = summary.now
  /\ summary' = NoSummary
  /\ Told
  /\ UNCHANGED <<worker, shutdown, clock, rows>>

-----------------------------------------------------------------------------
(* Specification *)

Tick ==
  /\ Stamped
  /\ bus' = Aged(bus)
  /\ UNCHANGED <<worker, shutdown, rows, lastSent, summary, listed, covered>>

\* A new process, after a stop or a crash: a new bus, no last_sent; the journal
\* survives.
Restart ==
  /\ \E uptime \in 0..AlertCooldown : bus' = NewBus(uptime, bus.serial)
  /\ worker' = Idle
  /\ shutdown' = "no"
  /\ lastSent' = 0
  /\ summary' = NoSummary
  /\ listed' = [id \in 1..MaxRows |-> 0]
  /\ covered' = Nothing
  /\ UNCHANGED <<clock, rows>>

\* The tasks are cancelled before the bus is stopped.
Tasks ==
  /\ shutdown = "no"
  /\ \/ Enter
     \/ \E id \in DOMAIN rows, how \in {"settled", "stopped"} : Close(id, how)
     \/ \E key \in CooldownKeys \ {"daily_summary"} : Alert(key)
     \/ SummaryStarts
     \/ \E found \in SUBSET DOMAIN rows : Compose(found)
     \/ SummaryRaises
     \/ Send

Next ==
  \/ Tasks
  \/ Tick
  \/ BusNext /\ UNCHANGED <<clock, rows, lastSent, summary, listed, covered>>
  \/ Restart

Spec == Init /\ [][Next]_vars /\ BusFairness

-----------------------------------------------------------------------------
(* Properties *)

\* Type invariant.
TypeOK ==
  /\ BusTypeOK
  /\ clock \in Nat /\ lastSent \in Nat
  /\ rows \in Seq(Row)
  /\ summary \in Summaries
  /\ listed \in [1..MaxRows -> Nat]

\* A trade the reviewer settles is listed by the first summary composed after
\* it, whatever the summary waits for in between (main.py:368): none falls
\* between two summaries of a process.
SettledIsListed ==
  \A id \in DOMAIN rows :
    /\ rows[id].how = "settled"
    /\ covered # Nothing
    /\ rows[id].closed \in covered.from..covered.to
    => listed[id] > 0
=============================================================================
