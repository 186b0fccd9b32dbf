---------------------------- MODULE ReportsProofs ----------------------------
(***************************************************************************)
(* What the readers of a moving journal can rely on, for every number of   *)
(* rows, strategies and writes.                                            *)
(*                                                                         *)
(* A report does not reopen what it has shown settled, and leaves none of  *)
(* its positions out: a view selects the settled rows before the pending   *)
(* ones, what is settled stays settled, and what closes between two        *)
(* SELECTs closes inside the window, whose view is read after them.        *)
(*                                                                         *)
(* A walk through the pages of the trades misses none: the rows an offset  *)
(* skips are the newest, and a row entered meanwhile pushes the others to  *)
(* later pages, never to earlier ones.                                     *)
(***************************************************************************)
EXTENDS Reports, SumTheorems, SequenceTheorems

Row == [strategy : Strategies, entered : Int,
        outcome : {"pending", "won", "lost", "voided"}, resolved : Int, pnl : Int]

\* The parts of a report.
Parts == {"entered", "settled", "open", "enteredInWindow", "settledInWindow",
          "openLater", "recent", "listed"}

\* What was shown settled is settled; a list is empty before its SELECT.
ShownInOrder ==
  /\ \A i \in report.settled \cup report.settledInWindow \cup report.recent :
       i \in DOMAIN rows /\ Settled(i)
  /\ report.next <= 3 => report.open = {}
  /\ report.next <= 5 => report.settledInWindow = {}
  /\ report.next <= 6 => report.openLater = {}
  /\ report.next <= 8 => report.listed = {}

\* Where a position the lifetime view counted is, or will still be found: at
\* the SELECT of the settled rows, of the open ones, or in the window's view.
Accounted(i) ==
  \/ rows[i].outcome = "voided" \/ FiledBefore(i, report.since)
  \/ i \in report.settled \cup report.open \cup report.settledInWindow
  \/ report.next <= 2 /\ Settled(i)
  \/ report.next <= 3 /\ Pending(i)
  \/ report.next <= 5 /\ Settled(i) /\ ResolvedAt(i) >= report.since

SettledFirst ==
  /\ rows \in Seq(Row) /\ clock \in Nat
  /\ \A i \in DOMAIN rows : Pending(i) => rows[i].resolved = 0
  /\ DOMAIN report = Parts \cup {"next", "since"}
  /\ report.next \in 1..9 /\ report.since \in Int /\ report.since <= clock
  /\ ShownInOrder
  /\ NeverReopened
  /\ \A i \in report.entered : i \in DOMAIN rows /\ Accounted(i)

-----------------------------------------------------------------------------
(* The bot *)

\* What a write may make of an open row: voided, or settled with a stamp of now
\* or none.
Closes(i) ==
  /\ Pending(i) /\ rows'[i].entered = rows[i].entered
  /\ \/ rows'[i].outcome = "voided"
     \/ rows'[i].outcome \in {"won", "lost"} /\ rows'[i].resolved \in {clock + 1, rows[i].resolved}

\* A write closes one row, or adds an open one.
LEMMA BotRow ==
  ASSUME ReportsAssumption, rows \in Seq(Row), clock \in Nat, Bot
  PROVE  /\ rows' \in Seq(Row) /\ clock' = clock + 1
         /\ \A i \in DOMAIN rows : i \in DOMAIN rows' /\ (rows'[i] = rows[i] \/ Closes(i))
         /\ \A i \in DOMAIN rows' \ DOMAIN rows :
              rows'[i].outcome = "pending" /\ rows'[i].resolved = 0
<1> DEFINE Goal ==
      /\ rows' \in Seq(Row) /\ clock' = clock + 1
      /\ \A i \in DOMAIN rows : i \in DOMAIN rows' /\ (rows'[i] = rows[i] \/ Closes(i))
      /\ \A i \in DOMAIN rows' \ DOMAIN rows :
           rows'[i].outcome = "pending" /\ rows'[i].resolved = 0
<1>1. ASSUME NEW s \in Strategies, Enter(s)
      PROVE  Goal
  <2>1. NewRow(s) \in Row /\ NewRow(s).outcome = "pending" /\ NewRow(s).resolved = 0
    BY DEF NewRow, Row
  <2>2. rows' = Append(rows, NewRow(s)) /\ clock' = clock + 1
    BY <1>1 DEF Enter, Write
  <2>3. rows' \in Seq(Row)
    BY <2>1, <2>2
  <2>4. \A i \in DOMAIN rows : i \in DOMAIN rows' /\ rows'[i] = rows[i]
    BY <2>1, <2>2
  <2>5. \A i \in DOMAIN rows' \ DOMAIN rows : rows'[i] = NewRow(s)
    BY <2>1, <2>2
  <2> QED
    BY <2>1, <2>2, <2>3, <2>4, <2>5
<1>2. ASSUME NEW i \in DOMAIN rows, NEW row \in Row, rows' = [rows EXCEPT ![i] = row],
             clock' = clock + 1, rows[i].outcome = "pending", row.entered = rows[i].entered,
             \/ row.outcome = "voided"
             \/ row.outcome \in {"won", "lost"} /\ row.resolved \in {clock + 1, rows[i].resolved}
      PROVE  Goal
  BY <1>2 DEF Closes, Pending
<1>3. ASSUME NEW i \in DOMAIN rows, NEW pnl \in Pnls, Resolve(i, pnl)
      PROVE  Goal
  <2> DEFINE outcome == IF pnl > 0 THEN "won" ELSE "lost"
             row     == [rows[i] EXCEPT !.outcome = outcome, !.pnl = pnl,
                                        !.resolved = clock + 1]
  <2>1. rows[i] \in Row /\ pnl \in Int /\ clock + 1 \in Int
    BY DEF ReportsAssumption
  <2>2. outcome \in {"won", "lost"}
    OBVIOUS
  <2>3. rows' = [rows EXCEPT ![i] = row] /\ clock' = clock + 1 /\ rows[i].outcome = "pending"
    BY <1>3 DEF Resolve, Write, Pending
  <2> HIDE DEF outcome
  <2>4. /\ row \in Row /\ row.entered = rows[i].entered
        /\ row.outcome \in {"won", "lost"} /\ row.resolved = clock + 1
    BY <2>1, <2>2 DEF Row
  <2> HIDE DEF row, Goal
  <2> QED
    BY <1>2, <2>3, <2>4
<1>4. ASSUME NEW i \in DOMAIN rows, NEW pnl \in Pnls, StopOut(i, pnl)
      PROVE  Goal
  <2> DEFINE row == [rows[i] EXCEPT !.outcome = "lost", !.pnl = pnl]
  <2>1. rows[i] \in Row /\ pnl \in Int
    BY DEF ReportsAssumption
  <2>2. /\ row \in Row /\ row.entered = rows[i].entered
        /\ row.outcome = "lost" /\ row.resolved = rows[i].resolved
    BY <2>1 DEF Row
  <2>3. rows' = [rows EXCEPT ![i] = row] /\ clock' = clock + 1 /\ rows[i].outcome = "pending"
    BY <1>4 DEF StopOut, Write, Pending
  <2> HIDE DEF row, Goal
  <2> QED
    BY <1>2, <2>2, <2>3
<1>5. ASSUME NEW i \in DOMAIN rows, Void(i)
      PROVE  Goal
  <2> DEFINE row == [rows[i] EXCEPT !.outcome = "voided"]
  <2>1. row \in Row /\ row.entered = rows[i].entered /\ row.outcome = "voided"
    <3>1. rows[i] \in Row
      OBVIOUS
    <3> QED
      BY <3>1 DEF Row
  <2>2. rows' = [rows EXCEPT ![i] = row] /\ clock' = clock + 1 /\ rows[i].outcome = "pending"
    BY <1>5 DEF Void, Write, Pending
  <2> HIDE DEF row, Goal
  <2> QED
    BY <1>2, <2>1, <2>2
<1> QED
  BY <1>1, <1>3, <1>4, <1>5 DEF Bot, Ids

\* Whatever it writes, a settled row stays.
LEMMA SettledStays ==
  ASSUME ReportsAssumption, rows \in Seq(Row), clock \in Nat, Bot
  PROVE  /\ rows' \in Seq(Row) /\ clock' \in Nat
         /\ \A i \in DOMAIN rows : Settled(i) => i \in DOMAIN rows' /\ Settled(i)'
<1>1. ASSUME NEW i \in DOMAIN rows, Settled(i)
      PROVE  i \in DOMAIN rows' /\ Settled(i)'
  <2>1. ~Pending(i)
    BY <1>1 DEF Settled, Pending
  <2> QED
    BY <1>1, <2>1, BotRow DEF Closes, Settled
<1> QED
  BY <1>1, BotRow

LEMMA BotStep ==
  ASSUME ReportsAssumption, SettledFirst, Bot
  PROVE  SettledFirst'
<1>1. /\ rows \in Seq(Row) /\ clock \in Nat /\ rows' \in Seq(Row) /\ clock' = clock + 1
      /\ \A i \in DOMAIN rows : i \in DOMAIN rows' /\ (rows'[i] = rows[i] \/ Closes(i))
      /\ \A i \in DOMAIN rows' \ DOMAIN rows :
           rows'[i].outcome = "pending" /\ rows'[i].resolved = 0
  BY BotRow DEF SettledFirst
<1>2. report' = report
  BY DEF Bot, Enter, Resolve, StopOut, Void, Write
<1>3. report.since \in Int /\ report.since <= clock' /\ clock' \in Nat
  BY <1>1 DEF SettledFirst
<1>4. \A i \in DOMAIN rows' : Pending(i)' => rows'[i].resolved = 0
  BY <1>1 DEF SettledFirst, Pending, Closes
<1>5. ShownInOrder'
  BY <1>1, <1>2, SettledStays DEF SettledFirst, ShownInOrder
<1>6. ASSUME NEW i \in report.entered
      PROVE  i \in DOMAIN rows' /\ Accounted(i)'
  <2>1. i \in DOMAIN rows /\ Accounted(i) /\ i \in DOMAIN rows'
    BY <1>1 DEF SettledFirst
  <2>2. CASE rows'[i] = rows[i]
    BY <1>2, <2>1, <2>2 DEF Accounted, FiledBefore, Settled, Pending, ResolvedAt
  <2>3. CASE Closes(i)
    <3>1. Pending(i) /\ rows[i].resolved = 0 /\ rows'[i].entered = rows[i].entered
      BY <2>1, <2>3 DEF SettledFirst, Closes
    <3>2. report.next <= 3 \/ i \in report.settled \cup report.open \cup report.settledInWindow
      BY <2>1, <3>1 DEF Accounted, FiledBefore, Settled, Pending
    <3>3. \/ rows'[i].outcome = "voided"
          \/ Settled(i)' /\ rows'[i].resolved \in {clock + 1, 0}
      BY <2>3, <3>1 DEF Closes, Settled
    <3>4. CASE i \in report.settled \cup report.open \cup report.settledInWindow
      BY <1>2, <2>1, <3>4 DEF Accounted
    <3>5. CASE rows'[i].outcome = "voided"
      BY <2>1, <3>5 DEF Accounted
    <3>6. CASE report.next <= 3 /\ Settled(i)' /\ rows'[i].resolved \in {clock + 1, 0}
      <4>1. report.next <= 5 /\ clock + 1 # 0 /\ clock + 1 >= report.since
        BY <1>1, <1>3, <3>6 DEF SettledFirst
      <4>2. FiledBefore(i, report.since)' \/ ResolvedAt(i)' >= report.since
        <5>1. rows'[i].entered \in Int
          <6>1. rows'[i] \in Row
            BY <1>1, <2>1
          <6> QED
            BY <6>1 DEF Row
        <5>2. CASE rows'[i].resolved = clock + 1
          BY <4>1, <5>2 DEF ResolvedAt
        <5>3. CASE rows'[i].resolved = 0
          BY <1>2, <1>3, <3>6, <5>1, <5>3 DEF ResolvedAt, FiledBefore
        <5> QED
          BY <3>6, <5>2, <5>3
      <4> QED
        BY <1>2, <2>1, <3>6, <4>1, <4>2 DEF Accounted
    <3> QED
      BY <3>2, <3>3, <3>4, <3>5, <3>6
  <2> QED
    BY <1>1, <2>1, <2>2, <2>3
<1> QED
  BY <1>1, <1>2, <1>3, <1>4, <1>5, <1>6 DEF SettledFirst, NeverReopened

-----------------------------------------------------------------------------
(* The report *)

LEMMA StartStep ==
  ASSUME ReportsAssumption, SettledFirst, StartReport
  PROVE  SettledFirst'
<1>1. /\ report' = [report EXCEPT !.since = clock - Window, !.entered = Ids, !.next = 2]
      /\ report.next = 1 /\ UNCHANGED <<rows, clock>>
  BY DEF StartReport, Selected
<1>2. DOMAIN report = Parts \cup {"next", "since"}
  BY DEF SettledFirst
<1>3. /\ DOMAIN report' = DOMAIN report /\ report'.since = clock - Window
      /\ report'.entered = Ids /\ report'.next = 2
      /\ \A part \in Parts \ {"entered"} : report'[part] = report[part]
  BY <1>1, <1>2 DEF Parts
<1>4. report'.since \in Int /\ report'.since <= clock'
  BY <1>1, <1>3 DEF SettledFirst, ReportsAssumption
<1>5. /\ report'.settled = report.settled /\ report'.open = report.open
      /\ report'.settledInWindow = report.settledInWindow
      /\ report'.openLater = report.openLater
      /\ report'.recent = report.recent /\ report'.listed = report.listed
  BY <1>3 DEF Parts
<1>6. ShownInOrder' /\ NeverReopened'
  BY <1>1, <1>3, <1>5 DEF SettledFirst, ShownInOrder, NeverReopened, Settled
<1>7. ASSUME NEW i \in report'.entered
      PROVE  i \in DOMAIN rows' /\ Accounted(i)'
  <2>1. i \in DOMAIN rows /\ rows[i] \in Row
    BY <1>3, <1>7 DEF Ids, SettledFirst
  <2>2. rows[i].outcome \in {"pending", "won", "lost", "voided"}
    BY <2>1 DEF Row
  <2> QED
    BY <1>1, <1>3, <2>1, <2>2 DEF Accounted, Settled, Pending
<1> QED
  BY <1>1, <1>3, <1>4, <1>6, <1>7 DEF SettledFirst, Pending

LEMMA SelectStep ==
  ASSUME SettledFirst, Select
  PROVE  SettledFirst'
<1>1. report.next \in 2..8
  <2>1. Len(Order) = 8
    BY DEF Order
  <2> QED
    BY <2>1 DEF Select
<1>2. /\ DOMAIN report = Parts \cup {"next", "since"} /\ report.since \in Int
      /\ rows \in Seq(Row) /\ clock \in Nat
  BY DEF SettledFirst
<1>3. ASSUME NEW what \in Parts \ {"entered"}, what = Order[report.next]
      PROVE  /\ DOMAIN report' = DOMAIN report
             /\ report'.next = report.next + 1 /\ report'.since = report.since
             /\ report'.entered = report.entered
             /\ report'[what] = Selected(what)
             /\ \A other \in Parts : other # what => report'[other] = report[other]
             /\ UNCHANGED <<rows, clock>>
  <2>1. /\ report' = [report EXCEPT ![what] = Selected(what), !.next = report.next + 1]
        /\ UNCHANGED <<rows, clock>>
    BY <1>3 DEF Select
  <2> QED
    BY <1>2, <2>1 DEF Parts
<1>4. CASE report.next = 2
  <2>1. Order[report.next] = "settled" /\ "settled" \in Parts
    BY <1>4 DEF Order, Parts
  <2>2. /\ DOMAIN report' = DOMAIN report /\ report'.next = 3 /\ report'.since = report.since
        /\ report'.settled = Selected("settled") /\ UNCHANGED <<rows, clock>>
        /\ report'.entered = report.entered /\ report'.open = report.open
        /\ report'.enteredInWindow = report.enteredInWindow /\ report'.settledInWindow = report.settledInWindow
        /\ report'.openLater = report.openLater /\ report'.recent = report.recent
        /\ report'.listed = report.listed
    BY <1>4, <1>3, <2>1 DEF Parts
  <2>3. ShownInOrder' /\ NeverReopened'
    BY <1>4, <2>2 DEF SettledFirst, ShownInOrder, NeverReopened, Selected, Ids,
      Settled, Pending, SettledInView, ResolvedAt
  <2>4. ASSUME NEW i \in report.entered
        PROVE  i \in DOMAIN rows' /\ Accounted(i)'
    BY <1>4, <2>2 DEF SettledFirst, ShownInOrder, Accounted, Selected, Ids, FiledBefore,
      Settled, Pending, SettledInView, ResolvedAt
  <2> QED
    BY <2>2, <2>3, <2>4 DEF SettledFirst, Pending
<1>5. CASE report.next = 3
  <2>1. Order[report.next] = "open" /\ "open" \in Parts
    BY <1>5 DEF Order, Parts
  <2>2. /\ DOMAIN report' = DOMAIN report /\ report'.next = 4 /\ report'.since = report.since
        /\ report'.open = Selected("open") /\ UNCHANGED <<rows, clock>>
        /\ report'.entered = report.entered /\ report'.settled = report.settled
        /\ report'.enteredInWindow = report.enteredInWindow /\ report'.settledInWindow = report.settledInWindow
        /\ report'.openLater = report.openLater /\ report'.recent = report.recent
        /\ report'.listed = report.listed
    BY <1>5, <1>3, <2>1 DEF Parts
  <2>3. ShownInOrder' /\ NeverReopened'
    BY <1>5, <2>2 DEF SettledFirst, ShownInOrder, NeverReopened, Selected, Ids,
      Settled, Pending, SettledInView, ResolvedAt
  <2>4. ASSUME NEW i \in report.entered
        PROVE  i \in DOMAIN rows' /\ Accounted(i)'
    BY <1>5, <2>2 DEF SettledFirst, ShownInOrder, Accounted, Selected, Ids, FiledBefore,
      Settled, Pending, SettledInView, ResolvedAt
  <2> QED
    BY <2>2, <2>3, <2>4 DEF SettledFirst, Pending
<1>6. CASE report.next = 4
  <2>1. Order[report.next] = "enteredInWindow" /\ "enteredInWindow" \in Parts
    BY <1>6 DEF Order, Parts
  <2>2. /\ DOMAIN report' = DOMAIN report /\ report'.next = 5 /\ report'.since = report.since
        /\ report'.enteredInWindow = Selected("enteredInWindow") /\ UNCHANGED <<rows, clock>>
        /\ report'.entered = report.entered /\ report'.settled = report.settled
        /\ report'.open = report.open /\ report'.settledInWindow = report.settledInWindow
        /\ report'.openLater = report.openLater /\ report'.recent = report.recent
        /\ report'.listed = report.listed
    BY <1>6, <1>3, <2>1 DEF Parts
  <2>3. ShownInOrder' /\ NeverReopened'
    BY <1>6, <2>2 DEF SettledFirst, ShownInOrder, NeverReopened, Selected, Ids,
      Settled, Pending, SettledInView, ResolvedAt
  <2>4. ASSUME NEW i \in report.entered
        PROVE  i \in DOMAIN rows' /\ Accounted(i)'
    BY <1>6, <2>2 DEF SettledFirst, ShownInOrder, Accounted, Selected, Ids, FiledBefore,
      Settled, Pending, SettledInView, ResolvedAt
  <2> QED
    BY <2>2, <2>3, <2>4 DEF SettledFirst, Pending
<1>7. CASE report.next = 5
  <2>1. Order[report.next] = "settledInWindow" /\ "settledInWindow" \in Parts
    BY <1>7 DEF Order, Parts
  <2>2. /\ DOMAIN report' = DOMAIN report /\ report'.next = 6 /\ report'.since = report.since
        /\ report'.settledInWindow = Selected("settledInWindow") /\ UNCHANGED <<rows, clock>>
        /\ report'.entered = report.entered /\ report'.settled = report.settled
        /\ report'.open = report.open /\ report'.enteredInWindow = report.enteredInWindow
        /\ report'.openLater = report.openLater /\ report'.recent = report.recent
        /\ report'.listed = report.listed
    BY <1>7, <1>3, <2>1 DEF Parts
  <2>3. ShownInOrder' /\ NeverReopened'
    BY <1>7, <2>2 DEF SettledFirst, ShownInOrder, NeverReopened, Selected, Ids,
      Settled, Pending, SettledInView, ResolvedAt
  <2>4. ASSUME NEW i \in report.entered
        PROVE  i \in DOMAIN rows' /\ Accounted(i)'
    BY <1>7, <2>2 DEF SettledFirst, ShownInOrder, Accounted, Selected, Ids, FiledBefore,
      Settled, Pending, SettledInView, ResolvedAt
  <2> QED
    BY <2>2, <2>3, <2>4 DEF SettledFirst, Pending
<1>8. CASE report.next = 6
  <2>1. Order[report.next] = "openLater" /\ "openLater" \in Parts
    BY <1>8 DEF Order, Parts
  <2>2. /\ DOMAIN report' = DOMAIN report /\ report'.next = 7 /\ report'.since = report.since
        /\ report'.openLater = Selected("openLater") /\ UNCHANGED <<rows, clock>>
        /\ report'.entered = report.entered /\ report'.settled = report.settled
        /\ report'.open = report.open /\ report'.enteredInWindow = report.enteredInWindow
        /\ report'.settledInWindow = report.settledInWindow /\ report'.recent = report.recent
        /\ report'.listed = report.listed
    BY <1>8, <1>3, <2>1 DEF Parts
  <2>3. ShownInOrder' /\ NeverReopened'
    BY <1>8, <2>2 DEF SettledFirst, ShownInOrder, NeverReopened, Selected, Ids,
      Settled, Pending, SettledInView, ResolvedAt
  <2>4. ASSUME NEW i \in report.entered
        PROVE  i \in DOMAIN rows' /\ Accounted(i)'
    BY <1>8, <2>2 DEF SettledFirst, ShownInOrder, Accounted, Selected, Ids, FiledBefore,
      Settled, Pending, SettledInView, ResolvedAt
  <2> QED
    BY <2>2, <2>3, <2>4 DEF SettledFirst, Pending
<1>9. CASE report.next = 7
  <2>1. Order[report.next] = "recent" /\ "recent" \in Parts
    BY <1>9 DEF Order, Parts
  <2>2. /\ DOMAIN report' = DOMAIN report /\ report'.next = 8 /\ report'.since = report.since
        /\ report'.recent = Selected("recent") /\ UNCHANGED <<rows, clock>>
        /\ report'.entered = report.entered /\ report'.settled = report.settled
        /\ report'.open = report.open /\ report'.enteredInWindow = report.enteredInWindow
        /\ report'.settledInWindow = report.settledInWindow /\ report'.openLater = report.openLater
        /\ report'.listed = report.listed
    BY <1>9, <1>3, <2>1 DEF Parts
  <2>3. ShownInOrder' /\ NeverReopened'
    BY <1>9, <2>2 DEF SettledFirst, ShownInOrder, NeverReopened, Selected, Ids,
      Settled, Pending, SettledInView, ResolvedAt
  <2>4. ASSUME NEW i \in report.entered
        PROVE  i \in DOMAIN rows' /\ Accounted(i)'
    BY <1>9, <2>2 DEF SettledFirst, ShownInOrder, Accounted, Selected, Ids, FiledBefore,
      Settled, Pending, SettledInView, ResolvedAt
  <2> QED
    BY <2>2, <2>3, <2>4 DEF SettledFirst, Pending
<1>10. CASE report.next = 8
  <2>1. Order[report.next] = "listed" /\ "listed" \in Parts
    BY <1>10 DEF Order, Parts
  <2>2. /\ DOMAIN report' = DOMAIN report /\ report'.next = 9 /\ report'.since = report.since
        /\ report'.listed = Selected("listed") /\ UNCHANGED <<rows, clock>>
        /\ report'.entered = report.entered /\ report'.settled = report.settled
        /\ report'.open = report.open /\ report'.enteredInWindow = report.enteredInWindow
        /\ report'.settledInWindow = report.settledInWindow /\ report'.openLater = report.openLater
        /\ report'.recent = report.recent
    BY <1>10, <1>3, <2>1 DEF Parts
  <2>3. ShownInOrder' /\ NeverReopened'
    BY <1>10, <2>2 DEF SettledFirst, ShownInOrder, NeverReopened, Selected, Ids,
      Settled, Pending, SettledInView, ResolvedAt
  <2>4. ASSUME NEW i \in report.entered
        PROVE  i \in DOMAIN rows' /\ Accounted(i)'
    BY <1>10, <2>2 DEF SettledFirst, ShownInOrder, Accounted, Selected, Ids, FiledBefore,
      Settled, Pending, SettledInView, ResolvedAt
  <2> QED
    BY <2>2, <2>3, <2>4 DEF SettledFirst, Pending
<1> QED
  BY <1>1, <1>4, <1>5, <1>6, <1>7, <1>8, <1>9, <1>10

LEMMA InitSettledFirst == Init => SettledFirst
BY DEF Init, NoReport, SettledFirst, ShownInOrder, NeverReopened, Parts

LEMMA SettledFirstStep ==
  ASSUME ReportsAssumption, SettledFirst, [Next]_vars
  PROVE  SettledFirst'
<1>1. CASE Render
  <2>1. report' = NoReport /\ UNCHANGED <<rows, clock>>
    BY <1>1 DEF Render
  <2> QED
    BY <2>1 DEF NoReport, SettledFirst, ShownInOrder, NeverReopened, Parts, Pending
<1>2. CASE StartWalk \/ Count \/ Fetch \/ FetchFails \/ UNCHANGED vars
  <2>1. UNCHANGED <<rows, clock, report>>
    BY <1>2 DEF StartWalk, Count, Fetch, FetchFails, vars
  <2> QED
    BY <2>1 DEF SettledFirst, ShownInOrder, NeverReopened, Accounted, FiledBefore,
      Settled, Pending, ResolvedAt
<1> QED
  BY <1>1, <1>2, BotStep, StartStep, SelectStep DEF Next

-----------------------------------------------------------------------------
(* Theorem *)

\* However many rows there are, whatever the window, and wherever between two
\* of its SELECTs the bot settles, stops out, voids or enters one: a report
\* shows no position open after it has shown it settled, and none of those it
\* counted is missing, but for what a stop-loss filed before the window
\* (report.collect).
THEOREM ReportIsConsistent ==
  ASSUME ReportsAssumption
  PROVE  Spec => []ReportConsistent
<1>1. SettledFirst /\ [Next]_vars => SettledFirst'
  BY SettledFirstStep
<1>2. SettledFirst => ReportConsistent
  <2>1. Len(Order) = 8
    BY DEF Order
  <2> QED
    BY <2>1 DEF SettledFirst, Accounted, ReportConsistent, NoneMissing
<1> QED
  BY <1>1, <1>2, InitSettledFirst, PTL DEF Spec

-----------------------------------------------------------------------------
(* The pages *)

\* A client has met the rows it skipped: those newer than the ones its offset
\* leaves, which a row entered meanwhile only makes fewer.
Walking ==
  /\ {"offset", "total", "counted", "start", "met", "torn", "done"} = DOMAIN walk
  /\ walk.offset \in Nat /\ walk.total \in Nat /\ walk.start \subseteq DOMAIN rows
  /\ walk.torn \in BOOLEAN /\ walk.counted \in BOOLEAN
  /\ reader = "trades" /\ ~walk.torn =>
       /\ walk.counted => walk.total = Len(rows)
       /\ \A i \in walk.start :
            walk.done \/ i > Len(rows) - walk.offset => i \in walk.met

\* Whatever the bot writes, it adds a row or leaves their number.
LEMMA BotRows ==
  ASSUME ReportsAssumption, rows \in Seq(Row), clock \in Nat, Bot
  PROVE  /\ rows' \in Seq(Row) /\ reader' = reader
         /\ \/ Len(rows') = Len(rows) /\ walk' = walk
            \/ /\ Len(rows') = Len(rows) + 1
               /\ walk' = [walk EXCEPT !.torn = walk.torn \/ walk.counted]
<1>1. rows' \in Seq(Row) /\ reader' = reader
  BY SettledStays DEF Bot, Enter, Resolve, StopOut, Void, Write
<1>2. ASSUME NEW s \in Strategies, Enter(s)
      PROVE  /\ Len(rows') = Len(rows) + 1
             /\ walk' = [walk EXCEPT !.torn = walk.torn \/ walk.counted]
  <2>1. NewRow(s) \in Row
    BY DEF NewRow, Row
  <2>2. rows' = Append(rows, NewRow(s))
    BY <1>2 DEF Enter, Write
  <2>3. Len(rows') = Len(rows) + 1
    BY <2>1, <2>2
  <2> QED
    BY <1>2, <2>3 DEF Enter
<1>3. ASSUME NEW i \in Ids, Void(i) \/ \E pnl \in Pnls : Resolve(i, pnl) \/ StopOut(i, pnl)
      PROVE  Len(rows') = Len(rows) /\ walk' = walk
  <2>1. \E row : rows' = [rows EXCEPT ![i] = row]
    BY <1>3 DEF Void, Resolve, StopOut, Write
  <2>2. DOMAIN rows' = DOMAIN rows
    BY <2>1
  <2>3. Len(rows') = Len(rows)
    BY <1>1, <2>2
  <2> QED
    BY <1>3, <2>3 DEF Void, Resolve, StopOut
<1> QED
  BY <1>1, <1>2, <1>3 DEF Bot

\* The newer rows of row i of n.
LEMMA NewerRows ==
  ASSUME NEW n \in Nat, NEW i \in 1..n
  PROVE  Cardinality({j \in 1..n : j > i}) = n - i
<1>1. {j \in 1..n : j > i} = (i + 1)..n
  OBVIOUS
<1>2. Cardinality((i + 1)..n) = n - i
  <2>1. i + 1 \in Int /\ n \in Int
    OBVIOUS
  <2>2. Cardinality((i + 1)..n) = IF i + 1 > n THEN 0 ELSE n - (i + 1) + 1
    BY <2>1, FS_Interval
  <2> QED
    BY <2>2
<1> QED
  BY <1>1, <1>2

\* A page of the trades holds the rows its offset and its size select, and is
\* the last one when that is all that is left.
LEMMA PageOfTrades ==
  ASSUME ReportsAssumption, rows \in Seq(Row), NEW offset \in Nat
  PROVE  /\ \A i \in Ids : i \in Page("trades", offset)
              <=> Len(rows) - i \in offset..offset + PageSize - 1
         /\ Cardinality(Page("trades", offset)) \in Nat
         /\ offset + Cardinality(Page("trades", offset)) >= Len(rows)
              => Len(rows) - offset - PageSize <= 0
<1> DEFINE n    == Len(rows)
           page == Page("trades", offset)
           last == n - offset
<1>1. n \in Nat /\ Ids = 1..n /\ PageSize \in Nat \ {0}
  BY DEF Ids, ReportsAssumption
<1>2. Listable("trades") = 1..n
  BY <1>1 DEF Listable
<1>3. page = {i \in 1..n : Cardinality({j \in 1..n : j > i}) \in offset..offset + PageSize - 1}
  BY <1>2 DEF Page
<1> HIDE DEF page, n
<1>4. page = {i \in 1..n : n - i \in offset..offset + PageSize - 1}
  BY <1>1, <1>3, NewerRows
<1>5. \A i \in Ids : i \in page <=> n - i \in offset..offset + PageSize - 1
  BY <1>1, <1>4
<1>6. page \subseteq (last - PageSize + 1)..last
  BY <1>1, <1>4
<1>7. IsFiniteSet((last - PageSize + 1)..last) /\ Cardinality((last - PageSize + 1)..last) = PageSize
  <2>1. last - PageSize + 1 \in Int /\ last \in Int
    BY <1>1
  <2>2. /\ IsFiniteSet((last - PageSize + 1)..last)
        /\ Cardinality((last - PageSize + 1)..last) =
             IF last - PageSize + 1 > last THEN 0 ELSE last - (last - PageSize + 1) + 1
    BY <2>1, FS_Interval
  <2> QED
    BY <1>1, <2>1, <2>2
<1>8. Cardinality(page) \in Nat /\ Cardinality(page) <= PageSize
  <2>1. IsFiniteSet(page) /\ Cardinality(page) <= Cardinality((last - PageSize + 1)..last)
    BY <1>6, <1>7, FS_Subset
  <2> QED
    BY <1>7, <2>1, FS_CardinalityType
<1>9. offset + Cardinality(page) >= n => n - offset - PageSize <= 0
  BY <1>1, <1>8
<1> QED
  BY <1>5, <1>8, <1>9 DEF page, n

LEMMA WalkInit == Init => Walking
BY DEF Init, NoWalk, Walking

LEMMA BotWalks ==
  ASSUME ReportsAssumption, SettledFirst, Walking, Bot
  PROVE  Walking'
<1>1. /\ rows \in Seq(Row) /\ rows' \in Seq(Row) /\ reader' = reader
      /\ \/ Len(rows') = Len(rows) /\ walk' = walk
         \/ /\ Len(rows') = Len(rows) + 1
            /\ walk' = [walk EXCEPT !.torn = walk.torn \/ walk.counted]
  BY BotRows DEF SettledFirst
<1>2. CASE Len(rows') = Len(rows) /\ walk' = walk
  <2>1. DOMAIN rows' = DOMAIN rows
    BY <1>1, <1>2
  <2> QED
    BY <1>1, <1>2, <2>1 DEF Walking
<1>3. CASE /\ Len(rows') = Len(rows) + 1
           /\ walk' = [walk EXCEPT !.torn = walk.torn \/ walk.counted]
  <2>1. DOMAIN rows \subseteq DOMAIN rows'
    BY <1>1, <1>3
  <2>2. /\ DOMAIN walk' = DOMAIN walk
        /\ walk'.offset = walk.offset /\ walk'.total = walk.total
        /\ walk'.counted = walk.counted /\ walk'.start = walk.start
        /\ walk'.met = walk.met /\ walk'.done = walk.done
        /\ walk'.torn = (walk.torn \/ walk.counted)
    BY <1>3 DEF Walking
  <2>3. walk'.torn \in BOOLEAN
    BY <2>2
  <2>4. ~walk'.torn => ~walk.torn /\ ~walk.counted
    BY <2>2
  <2>5. \A i \in walk.start : i \in Nat
    BY <1>1 DEF Walking
  <2>6. \A i \in walk.start : i > Len(rows') - walk.offset => i > Len(rows) - walk.offset
    BY <1>1, <1>3, <2>5 DEF Walking
  <2> QED
    BY <1>1, <2>1, <2>2, <2>3, <2>4, <2>6 DEF Walking
<1> QED
  BY <1>1, <1>2, <1>3

LEMMA FetchWalks ==
  ASSUME ReportsAssumption, SettledFirst, Walking, Fetch
  PROVE  Walking'
<1> DEFINE page == Page(reader, walk.offset)
           more == walk.offset + Cardinality(page) < walk.total
           met  == walk.met \cup page
           offset == IF more THEN walk.offset + PageSize ELSE walk.offset
<1>1. /\ walk.counted /\ UNCHANGED <<rows, reader>>
      /\ walk' = [walk EXCEPT !.counted = FALSE, !.met = met, !.done = ~more,
                              !.offset = offset]
  BY DEF Fetch
<1>2. /\ {"offset", "total", "counted", "start", "met", "torn", "done"} = DOMAIN walk
      /\ walk.offset \in Nat /\ walk.total \in Nat /\ PageSize \in Nat
  BY DEF Walking, ReportsAssumption
<1>3. offset \in Nat
  BY <1>2
<1> HIDE DEF met, more, offset
<1>4. /\ DOMAIN walk' = DOMAIN walk /\ walk'.counted = FALSE /\ walk'.met = met
      /\ walk'.done = ~more /\ walk'.offset = offset
      /\ walk'.total = walk.total /\ walk'.start = walk.start /\ walk'.torn = walk.torn
  BY <1>1, <1>2
<1>5. ASSUME reader = "trades", ~walk.torn, NEW i \in walk.start,
             ~more \/ i > Len(rows) - offset
      PROVE  i \in met
  <2>1. rows \in Seq(Row) /\ Len(rows) \in Nat /\ i \in 1..Len(rows) /\ i \in Ids
    BY DEF SettledFirst, Walking, Ids
  <2>2. walk.total = Len(rows) /\ (i > Len(rows) - walk.offset => i \in walk.met)
    BY <1>1, <1>5 DEF Walking
  <2>3. /\ i \in page <=> Len(rows) - i \in walk.offset..walk.offset + PageSize - 1
        /\ Cardinality(page) \in Nat
        /\ walk.offset + Cardinality(page) >= Len(rows)
             => Len(rows) - walk.offset - PageSize <= 0
    BY <1>2, <1>5, <2>1, PageOfTrades
  <2> HIDE DEF page
  <2>4. ~more => walk.offset + Cardinality(page) >= Len(rows)
    BY <1>2, <2>1, <2>2, <2>3 DEF more
  <2>5. i > Len(rows) - walk.offset - PageSize
    <3>1. CASE more
      BY <1>5, <2>1, <1>2, <3>1 DEF offset
    <3>2. CASE ~more
      BY <2>1, <1>2, <2>3, <2>4, <3>2
    <3> QED
      BY <3>1, <3>2
  <2>6. CASE i > Len(rows) - walk.offset
    BY <2>2, <2>6 DEF met
  <2>7. CASE i <= Len(rows) - walk.offset
    <3>1. Len(rows) - i \in walk.offset..walk.offset + PageSize - 1
      BY <1>2, <2>1, <2>5, <2>7
    <3> QED
      BY <2>3, <3>1 DEF met
  <2> QED
    BY <1>2, <2>1, <2>6, <2>7
<1> QED
  BY <1>1, <1>2, <1>3, <1>4, <1>5 DEF Walking

LEMMA WalkStep ==
  ASSUME ReportsAssumption, SettledFirst, Walking, [Next]_vars
  PROVE  Walking'
<1>1. CASE StartReport \/ Select \/ Render \/ UNCHANGED vars
  <2>1. UNCHANGED <<rows, walk, reader>>
    BY <1>1 DEF StartReport, Select, Render, vars
  <2> QED
    BY <2>1 DEF Walking
<1>2. CASE StartWalk
  <2>1. /\ walk' = [NoWalk EXCEPT !.start = Listable(reader), !.done = FALSE]
        /\ UNCHANGED <<rows, reader>>
    BY <1>2 DEF StartWalk
  <2>2. Listable(reader) \subseteq DOMAIN rows
    BY DEF Listable, Ids
  <2>3. walk' = [offset |-> 0, total |-> 0, counted |-> FALSE, start |-> Listable(reader),
                 met |-> {}, torn |-> FALSE, done |-> FALSE]
    BY <2>1 DEF NoWalk
  <2>4. \A i \in Listable(reader) : ~(i > Len(rows) - 0)
    BY <2>2 DEF SettledFirst
  <2>5. /\ DOMAIN walk' = {"offset", "total", "counted", "start", "met", "torn", "done"}
        /\ walk'.offset = 0 /\ walk'.total = 0 /\ walk'.counted = FALSE
        /\ walk'.start = Listable(reader) /\ walk'.torn = FALSE /\ walk'.done = FALSE
    BY <2>3
  <2>6. ASSUME NEW i \in walk'.start, walk'.done \/ i > Len(rows') - walk'.offset
        PROVE  i \in walk'.met
    <3>1. i \in Listable(reader) /\ i > Len(rows) - 0
      BY <2>1, <2>5, <2>6
    <3> QED
      BY <2>4, <3>1
  <2>7. /\ walk'.offset \in Nat /\ walk'.total \in Nat /\ walk'.start \subseteq DOMAIN rows'
    BY <2>1, <2>2, <2>5
  <2>8. walk'.torn \in BOOLEAN /\ walk'.counted \in BOOLEAN /\ ~walk'.counted
    BY <2>5, Zenon
  <2> QED
    BY <2>5, <2>6, <2>7, <2>8 DEF Walking
<1>3. CASE Count
  <2> DEFINE total == Cardinality(Listable(reader))
  <2>1. /\ walk' = [walk EXCEPT !.counted = TRUE, !.total = total] /\ ~walk.done
        /\ UNCHANGED <<rows, reader>>
    BY <1>3 DEF Count
  <2>2. Len(rows) \in Nat /\ DOMAIN rows = 1..Len(rows)
    BY DEF SettledFirst
  <2>3. total \in Nat
    <3>1. IsFiniteSet(1..Len(rows)) /\ Listable(reader) \subseteq 1..Len(rows)
      BY <2>2, FS_Interval DEF Listable, Ids
    <3> QED
      BY <3>1, FS_Subset, FS_CardinalityType
  <2>4. reader = "trades" => total = Len(rows)
    <3>1. reader = "trades" => Listable(reader) = 1..Len(rows)
      BY <2>2 DEF Listable, Ids
    <3>2. Cardinality(1..Len(rows)) = Len(rows)
      <4>1. Cardinality(1..Len(rows)) = IF 1 > Len(rows) THEN 0 ELSE Len(rows) - 1 + 1
        BY <2>2, FS_Interval
      <4> QED
        BY <2>2, <4>1
    <3> QED
      BY <3>1, <3>2
  <2> HIDE DEF total
  <2>5. /\ DOMAIN walk' = DOMAIN walk /\ walk'.counted = TRUE /\ walk'.total = total
        /\ walk'.offset = walk.offset /\ walk'.start = walk.start /\ walk'.torn = walk.torn
        /\ walk'.met = walk.met /\ walk'.done = walk.done
    BY <2>1 DEF Walking
  <2> QED
    BY <2>1, <2>3, <2>4, <2>5 DEF Walking
<1>4. CASE FetchFails
  <2>1. walk' = NoWalk
    BY <1>4 DEF FetchFails
  <2> QED
    BY <2>1 DEF NoWalk, Walking
<1> QED
  BY <1>1, <1>2, <1>3, <1>4, BotWalks, FetchWalks DEF Next

\* However many rows, of whatever page size, and whatever is entered, settled
\* or voided between two requests: a client that walks the trades until
\* has_more is false has met every row that was there when it began, unless a
\* row was entered between a page's count and the page. A walk that comes to a
\* page with a voided row ends there, in a server error (get_trades).
THEOREM WalkCovers ==
  ASSUME ReportsAssumption
  PROVE  Spec => []PagesCover
<1>1. SettledFirst /\ [Next]_vars => SettledFirst'
  BY SettledFirstStep
<1>2. SettledFirst /\ Walking /\ [Next]_vars => Walking'
  BY WalkStep
<1>3. Walking => PagesCover
  BY DEF Walking, PagesCover
<1> QED
  BY <1>1, <1>2, <1>3, InitSettledFirst, WalkInit, PTL DEF Spec

-----------------------------------------------------------------------------
(* The books *)

\* What the readers may take for granted of a row: its stamps are moments of
\* the past, and one that is open or was voided carries no P&L.
Booked(row, now) ==
  /\ row.entered \in 0..now
  /\ row.resolved \in Nat
  /\ row.outcome \in {"pending", "voided"} => row.pnl = 0

Books ==
  /\ rows \in Seq(Row) /\ clock \in Nat
  /\ \A i \in DOMAIN rows : Booked(rows[i], clock)

LEMMA BooksInit == Init => Books
BY DEF Init, Books

\* A write books one row, the others keep.
LEMMA BotBooks ==
  ASSUME ReportsAssumption, Books, Bot
  PROVE  Books'
<1>1. rows \in Seq(Row) /\ clock \in Nat /\ rows' \in Seq(Row) /\ clock' \in Nat
  BY SettledStays DEF Books
<1>2. clock' = clock + 1
  BY DEF Bot, Enter, Resolve, StopOut, Void, Write
<1>3. \A row \in Row : Booked(row, clock) => Booked(row, clock + 1)
  BY <1>1 DEF Booked
<1>4. ASSUME NEW s \in Strategies, Enter(s)
      PROVE  \A i \in DOMAIN rows' : Booked(rows'[i], clock + 1)
  <2>1. NewRow(s) \in Row /\ Booked(NewRow(s), clock + 1)
    BY <1>1 DEF NewRow, Row, Booked
  <2>2. rows' = Append(rows, NewRow(s))
    BY <1>4 DEF Enter, Write
  <2>3. TAKE i \in DOMAIN rows'
  <2>4. \/ rows'[i] = NewRow(s)
        \/ i \in DOMAIN rows /\ rows'[i] = rows[i]
    BY <1>1, <2>1, <2>2
  <2>5. i \in DOMAIN rows => rows[i] \in Row /\ Booked(rows[i], clock)
    BY <1>1 DEF Books
  <2> QED
    BY <1>3, <2>1, <2>4, <2>5
<1>5. ASSUME NEW i \in Ids, Void(i) \/ \E pnl \in Pnls : Resolve(i, pnl) \/ StopOut(i, pnl)
      PROVE  \A j \in DOMAIN rows' : Booked(rows'[j], clock + 1)
  <2>1. rows[i] \in Row /\ Booked(rows[i], clock + 1) /\ rows[i].outcome = "pending"
    <3>1. rows[i] \in Row /\ Booked(rows[i], clock)
      BY <1>1 DEF Books, Ids
    <3>2. rows[i].outcome = "pending"
      BY <1>5 DEF Void, Resolve, StopOut, Pending
    <3> QED
      BY <1>3, <3>1, <3>2
  <2>2. PICK row : Booked(row, clock + 1) /\ rows' = [rows EXCEPT ![i] = row]
    <3>1. CASE Void(i)
      <4> DEFINE row == [rows[i] EXCEPT !.outcome = "voided"]
      <4>1. Booked(row, clock + 1)
        BY <2>1 DEF Booked, Row
      <4>2. rows' = [rows EXCEPT ![i] = row]
        BY <3>1 DEF Void, Write
      <4> QED
        BY <4>1, <4>2
    <3>2. CASE \E pnl \in Pnls : Resolve(i, pnl)
      <4>1. PICK pnl \in Pnls : Resolve(i, pnl)
        BY <3>2
      <4> DEFINE outcome == IF pnl > 0 THEN "won" ELSE "lost"
                 row     == [rows[i] EXCEPT !.outcome = outcome, !.pnl = pnl,
                                            !.resolved = clock + 1]
      <4>2. rows' = [rows EXCEPT ![i] = row]
        BY <4>1 DEF Resolve, Write
      <4>3. Booked(row, clock + 1)
        <5>1. outcome \in {"won", "lost"}
          OBVIOUS
        <5> HIDE DEF outcome
        <5>2. /\ row.entered = rows[i].entered /\ row.resolved = clock + 1
              /\ row.outcome = outcome
          BY <2>1 DEF Row
        <5> HIDE DEF row
        <5> QED
          BY <1>1, <2>1, <5>1, <5>2 DEF Booked
      <4> QED
        BY <4>2, <4>3
    <3>3. CASE \E pnl \in Pnls : StopOut(i, pnl)
      <4>1. PICK pnl \in Pnls : StopOut(i, pnl)
        BY <3>3
      <4> DEFINE row == [rows[i] EXCEPT !.outcome = "lost", !.pnl = pnl]
      <4>2. rows' = [rows EXCEPT ![i] = row]
        BY <4>1 DEF StopOut, Write
      <4>3. Booked(row, clock + 1)
        BY <2>1 DEF Booked, Row
      <4> QED
        BY <4>2, <4>3
    <3> QED
      BY <1>5, <3>1, <3>2, <3>3
  <2>3. TAKE j \in DOMAIN rows'
  <2>4. j \in DOMAIN rows /\ rows'[j] = IF j = i THEN row ELSE rows[j]
    BY <1>1, <2>2
  <2>5. rows[j] \in Row /\ Booked(rows[j], clock)
    BY <1>1, <2>4 DEF Books
  <2> QED
    BY <1>3, <2>2, <2>4, <2>5
<1>6. \A i \in DOMAIN rows' : Booked(rows'[i], clock + 1)
  BY <1>4, <1>5 DEF Bot
<1> QED
  BY <1>1, <1>2, <1>6 DEF Books, Booked

LEMMA BooksStep ==
  ASSUME ReportsAssumption, Books, [Next]_vars
  PROVE  Books'
<1>1. CASE Bot
  BY <1>1, BotBooks
<1>2. CASE UNCHANGED <<rows, clock>>
  BY <1>2 DEF Books, Booked
<1> QED
  BY <1>1, <1>2 DEF Next, StartReport, Select, Render, StartWalk, Count, Fetch, FetchFails, vars

-----------------------------------------------------------------------------
(* The totals *)

\* What is added up are integers, over finitely many rows.
LEMMA RowsAddUp ==
  ASSUME Books
  PROVE  /\ IsFiniteSet(Ids) /\ Ids = 1..Len(rows) /\ Len(rows) \in Nat
         /\ \A i \in Ids : /\ rows[i] \in Row /\ Booked(rows[i], clock)
                           /\ [j \in Ids |-> Pnl(j)][i] = Pnl(i) /\ Pnl(i) \in Int
<1>1. rows \in Seq(Row)
  BY DEF Books
<1>2. Ids = 1..Len(rows) /\ Len(rows) \in Nat
  BY <1>1 DEF Ids
<1>3. IsFiniteSet(Ids)
  BY <1>2, FS_Interval
<1>4. \A i \in Ids : rows[i] \in Row
  BY <1>1 DEF Ids
<1>5. \A i \in Ids : Pnl(i) \in Int
  BY <1>4 DEF Pnl, Row
<1> QED
  BY <1>2, <1>3, <1>4, <1>5 DEF Books, Ids

LEMMA TotalInt ==
  ASSUME Books, NEW ids \in SUBSET Ids
  PROVE  TotalPnl(ids) \in Int
<1> DEFINE f == [i \in Ids |-> Pnl(i)]
<1>1. IsFiniteSet(ids) /\ \A i \in ids : f[i] \in Int
  BY RowsAddUp, FS_Subset
<1> HIDE DEF f
<1>2. SumFunctionOnSet(f, ids) \in Int
  BY <1>1, SumInt
<1> QED
  BY <1>2 DEF TotalPnl, f

LEMMA TotalOfNone == TotalPnl({}) = 0
BY SumOfNone DEF TotalPnl

LEMMA TotalOfTwo ==
  ASSUME Books, NEW A \in SUBSET Ids, NEW B \in SUBSET Ids, A \cap B = {}
  PROVE  TotalPnl(A \cup B) = TotalPnl(A) + TotalPnl(B)
<1> DEFINE f == [i \in Ids |-> Pnl(i)]
<1>1. IsFiniteSet(Ids) /\ \A i \in Ids : f[i] \in Int
  BY RowsAddUp
<1> HIDE DEF f
<1>2. SumFunctionOnSet(f, A \cup B) = SumFunctionOnSet(f, A) + SumFunctionOnSet(f, B)
  BY <1>1, SumUnion
<1> QED
  BY <1>2 DEF TotalPnl, f

LEMMA TotalWithOne ==
  ASSUME Books, NEW A \in SUBSET Ids, NEW i \in Ids, i \notin A
  PROVE  TotalPnl(A \cup {i}) = TotalPnl(A) + Pnl(i)
<1> DEFINE f == [j \in Ids |-> Pnl(j)]
<1>1. IsFiniteSet(A) /\ (\A j \in A : f[j] \in Int) /\ f[i] \in Int /\ f[i] = Pnl(i)
  BY RowsAddUp, FS_Subset
<1>2. TotalPnl(A) \in Int
  BY TotalInt
<1> HIDE DEF f
<1>3. SumFunctionOnSet(f, A \cup {i}) = f[i] + SumFunctionOnSet(f, A)
  BY <1>1, SumAdd
<1> QED
  BY <1>1, <1>2, <1>3 DEF TotalPnl, f

\* Open and voided rows add nothing.
LEMMA TotalOfSettled ==
  ASSUME Books, NEW ids \in SUBSET Ids
  PROVE  TotalPnl(ids) = TotalPnl({i \in ids : Settled(i)})
<1> DEFINE f == [i \in Ids |-> Pnl(i)]
           settled == {i \in ids : Settled(i)}
<1>1. IsFiniteSet(ids) /\ settled \in SUBSET ids /\ \A i \in ids : f[i] \in Int
  BY RowsAddUp, FS_Subset
<1>2. \A i \in ids \ settled : f[i] = 0
  BY RowsAddUp DEF Settled, Booked, Pnl, Row
<1> HIDE DEF f, settled
<1>3. SumFunctionOnSet(f, ids) = SumFunctionOnSet(f, settled)
  BY <1>1, <1>2, SumOfNothings
<1> QED
  BY <1>3 DEF TotalPnl, f, settled

\* Strategy by strategy, nothing is left out or counted twice.
LEMMA TotalByStrategy ==
  ASSUME ReportsAssumption, Books, NEW ids \in SUBSET Ids
  PROVE  SumFunction([s \in Strategies |-> TotalPnl({i \in ids : rows[i].strategy = s})])
           = TotalPnl(ids)
<1> DEFINE f == [i \in Ids |-> Pnl(i)]
           group == [i \in Ids |-> rows[i].strategy]
           total == [s \in Strategies |-> TotalPnl({i \in ids : rows[i].strategy = s})]
<1>1. IsFiniteSet(ids)
  BY RowsAddUp, FS_Subset
<1>2. \A i \in ids : f[i] \in Int
  BY RowsAddUp
<1>3. IsFiniteSet(Strategies) /\ DOMAIN total = Strategies
  BY DEF ReportsAssumption
<1>4. \A i \in ids : group[i] = rows[i].strategy
  OBVIOUS
<1>5. \A i \in ids : group[i] \in Strategies
  BY <1>4, RowsAddUp DEF Row
<1>6. \A s \in Strategies : total[s] = SumFunctionOnSet(f, GroupOf(group, ids, s))
  <2> TAKE s \in Strategies
  <2>1. GroupOf(group, ids, s) = {i \in ids : rows[i].strategy = s}
    BY <1>4 DEF GroupOf
  <2>2. total[s] = TotalPnl({i \in ids : rows[i].strategy = s})
    OBVIOUS
  <2>3. TotalPnl({i \in ids : rows[i].strategy = s})
          = SumFunctionOnSet(f, {i \in ids : rows[i].strategy = s})
    BY DEF TotalPnl
  <2> HIDE DEF group, f, total
  <2> QED
    BY <2>1, <2>2, <2>3, Zenon
<1> HIDE DEF f, group, total
<1>7. SumFunctionOnSet(total, Strategies) = SumFunctionOnSet(f, ids)
  BY <1>1, <1>2, <1>3, <1>5, <1>6, SumOverGroups
<1> QED
  BY <1>3, <1>7 DEF SumFunction, TotalPnl, f, total

-----------------------------------------------------------------------------
(* The drawdown *)

\* A walk over the first m rows.
WalkedTo(m, since, f) ==
  f = [n \in 0..m |-> IF n = 0 THEN [total |-> 0, peak |-> 0, worst |-> 0]
                      ELSE IF n \in Walked(since) THEN WalkEquity(f[n - 1], n)
                      ELSE f[n - 1]]

LEMMA EquityExists ==
  ASSUME NEW since, NEW m \in Nat
  PROVE  \E f : WalkedTo(m, since, f)
<1> DEFINE First == [total |-> 0, peak |-> 0, worst |-> 0]
           After(equity, n) == IF n \in Walked(since) THEN WalkEquity(equity, n) ELSE equity
           T == {k \in Nat : \E f : WalkedTo(k, since, f)}
<1>1. 0 \in T
  <2> DEFINE f == [n \in 0..0 |-> First]
  <2>1. WalkedTo(0, since, f)
    BY DEF WalkedTo
  <2> QED
    BY <2>1
<1>2. ASSUME NEW k \in Nat, k \in T PROVE k + 1 \in T
  <2>1. PICK f : WalkedTo(k, since, f)
    BY <1>2
  <2>2. /\ DOMAIN f = 0..k
        /\ \A n \in 0..k : f[n] = IF n = 0 THEN First ELSE After(f[n - 1], n)
    BY <2>1 DEF WalkedTo
  <2> DEFINE g == [n \in 0..(k + 1) |-> IF n = k + 1 THEN After(f[k], k + 1) ELSE f[n]]
  <2> HIDE DEF First, After
  <2>3. \A n \in 0..(k + 1) : g[n] = IF n = 0 THEN First ELSE After(g[n - 1], n)
    BY <2>2
  <2>4. g = [n \in 0..(k + 1) |-> IF n = 0 THEN First ELSE After(g[n - 1], n)]
    <3>1. g = [n \in 0..(k + 1) |-> g[n]]
      OBVIOUS
    <3> HIDE DEF g
    <3> QED
      BY <2>3, <3>1
  <2>5. WalkedTo(k + 1, since, g)
    <3> HIDE DEF g
    <3> QED
      BY <2>4 DEF WalkedTo, First, After
  <2> QED
    BY <2>5
<1> HIDE DEF T
<1>3. m \in T
  BY <1>1, <1>2, AllNaturals
<1> QED
  BY <1>3 DEF T

\* The equity curve, row by row.
LEMMA EquityWalks ==
  ASSUME Books, NEW since
  PROVE  /\ Equity(since)[0] = [total |-> 0, peak |-> 0, worst |-> 0]
         /\ \A n \in Ids : Equity(since)[n] =
              IF n \in Walked(since) THEN WalkEquity(Equity(since)[n - 1], n)
              ELSE Equity(since)[n - 1]
<1>1. Ids = 1..Len(rows) /\ Len(rows) \in Nat
  BY RowsAddUp
<1>2. \E f : WalkedTo(Len(rows), since, f)
  BY <1>1, EquityExists
<1>3. WalkedTo(Len(rows), since, Equity(since))
  BY <1>2, Zenon DEF WalkedTo, Equity
<1>4. \A n \in 0..Len(rows) : Equity(since)[n] =
        IF n = 0 THEN [total |-> 0, peak |-> 0, worst |-> 0]
        ELSE IF n \in Walked(since) THEN WalkEquity(Equity(since)[n - 1], n)
        ELSE Equity(since)[n - 1]
  <2> DEFINE f == Equity(since)
  <2>1. f = [n \in 0..Len(rows) |-> IF n = 0 THEN [total |-> 0, peak |-> 0, worst |-> 0]
                      ELSE IF n \in Walked(since) THEN WalkEquity(f[n - 1], n)
                      ELSE f[n - 1]]
    BY <1>3 DEF WalkedTo
  <2> HIDE DEF f
  <2>2. \A n \in 0..Len(rows) : f[n] =
          IF n = 0 THEN [total |-> 0, peak |-> 0, worst |-> 0]
          ELSE IF n \in Walked(since) THEN WalkEquity(f[n - 1], n)
          ELSE f[n - 1]
    BY <2>1
  <2> QED
    BY <2>2 DEF f
<1> QED
  BY <1>1, <1>4

\* The P&L of the walked rows up to row n.
Run(since, n) == TotalPnl({i \in Walked(since) : i <= n})

LEMMA RunWalks ==
  ASSUME Books, NEW since
  PROVE  /\ Run(since, 0) = 0
         /\ \A n \in Nat : Run(since, n) \in Int
         /\ \A n \in Ids : Run(since, n) =
              Run(since, n - 1) + (IF n \in Walked(since) THEN Pnl(n) ELSE 0)
<1>1. Ids = 1..Len(rows) /\ Len(rows) \in Nat /\ Walked(since) \subseteq Ids
  BY RowsAddUp DEF Walked
<1> DEFINE Upto(n) == {i \in Walked(since) : i <= n}
<1>2. Upto(0) = {}
  BY <1>1
<1>3. \A n \in Nat : TotalPnl(Upto(n)) \in Int
  BY <1>1, TotalInt
<1>4. ASSUME NEW n \in Ids
      PROVE  TotalPnl(Upto(n)) =
               TotalPnl(Upto(n - 1)) + (IF n \in Walked(since) THEN Pnl(n) ELSE 0)
  <2>1. n - 1 \in Nat /\ Upto(n - 1) \in SUBSET Ids /\ n \notin Upto(n - 1)
    BY <1>1
  <2>2. CASE n \in Walked(since)
    <3>1. Upto(n) = Upto(n - 1) \cup {n}
      BY <1>1, <2>2
    <3> HIDE DEF Upto
    <3>2. TotalPnl(Upto(n - 1) \cup {n}) = TotalPnl(Upto(n - 1)) + Pnl(n)
      BY <2>1, TotalWithOne
    <3> QED
      BY <2>2, <3>1, <3>2
  <2>3. CASE n \notin Walked(since)
    <3>1. Upto(n) = Upto(n - 1)
      BY <1>1, <2>3
    <3> HIDE DEF Upto
    <3> QED
      BY <1>3, <2>1, <2>3, <3>1
  <2> QED
    BY <2>2, <2>3
<1> QED
  BY <1>2, <1>3, <1>4, TotalOfNone DEF Run

\* A stretch is what the run gained over it.
LEMMA StretchOfRun ==
  ASSUME Books, NEW since, NEW a \in Ids, NEW b \in Ids, a <= b
  PROVE  TotalPnl({i \in Walked(since) : a <= i /\ i <= b})
           = Run(since, b) - Run(since, a - 1)
<1>1. Ids = 1..Len(rows) /\ Len(rows) \in Nat /\ Walked(since) \subseteq Ids
  BY RowsAddUp DEF Walked
<1> DEFINE Upto(n) == {i \in Walked(since) : i <= n}
           stretch == {i \in Walked(since) : a <= i /\ i <= b}
<1>2. /\ Upto(b) = Upto(a - 1) \cup stretch /\ Upto(a - 1) \cap stretch = {}
      /\ Upto(a - 1) \in SUBSET Ids /\ stretch \in SUBSET Ids
  BY <1>1
<1> HIDE DEF Upto, stretch
<1>3. TotalPnl(Upto(a - 1) \cup stretch) = TotalPnl(Upto(a - 1)) + TotalPnl(stretch)
  BY <1>2, TotalOfTwo
<1>4. TotalPnl(Upto(a - 1)) \in Int /\ TotalPnl(stretch) \in Int
  BY <1>2, TotalInt
<1>5. TotalPnl(stretch) = TotalPnl(Upto(b)) - TotalPnl(Upto(a - 1))
  BY <1>2, <1>3, <1>4
<1> QED
  BY <1>5 DEF Upto, stretch, Run

\* After n rows: the total is the run, the peak its highest point so far, the
\* worst its deepest fall so far.
Drawn(since, n) ==
  LET equity == Equity(since)[n]
  IN /\ equity.total = Run(since, n)
     /\ \E b \in 0..n : equity.peak = Run(since, b)
     /\ \A b \in 0..n : Run(since, b) <= equity.peak
     /\ \E a, b \in 0..n : a <= b /\ equity.worst = Run(since, b) - Run(since, a)
     /\ \A a, b \in 0..n : a <= b => equity.worst <= Run(since, b) - Run(since, a)

LEMMA DrawnStep ==
  ASSUME Books, NEW since, NEW n \in Nat, n + 1 \in Ids, Drawn(since, n)
  PROVE  Drawn(since, n + 1)
<1> DEFINE old == Equity(since)[n]
           new == Equity(since)[n + 1]
           R(k) == Run(since, k)
<1>1. \A k \in Nat : R(k) \in Int
  BY RunWalks
<1>2. /\ old.total = R(n)
      /\ \E b \in 0..n : old.peak = R(b)
      /\ \A b \in 0..n : R(b) <= old.peak
      /\ \E a, b \in 0..n : a <= b /\ old.worst = R(b) - R(a)
      /\ \A a, b \in 0..n : a <= b => old.worst <= R(b) - R(a)
  BY DEF Drawn
<1>3. n + 1 \in Nat /\ n + 1 - 1 = n
  OBVIOUS
<1>4. new = IF n + 1 \in Walked(since) THEN WalkEquity(old, n + 1) ELSE old
  BY <1>3, EquityWalks
<1>5. R(n + 1) = R(n) + (IF n + 1 \in Walked(since) THEN Pnl(n + 1) ELSE 0)
  BY <1>3, RunWalks
<1>6. Pnl(n + 1) \in Int
  BY RowsAddUp
<1>7. old.peak \in Int /\ old.worst \in Int /\ old.total \in Int
  <2>1. PICK b \in 0..n : old.peak = R(b)
    BY <1>2
  <2>2. PICK c \in 0..n, d \in 0..n : old.worst = R(d) - R(c)
    BY <1>2
  <2>3. R(b) \in Int /\ R(c) \in Int /\ R(d) \in Int /\ R(n) \in Int
    BY <1>1
  <2> HIDE DEF old, R
  <2> QED
    BY <1>2, <2>1, <2>2, <2>3
<1>8. /\ new.total = R(n + 1)
      /\ new.peak \in {old.peak, R(n + 1)} /\ old.peak <= new.peak /\ R(n + 1) <= new.peak
      /\ new.worst \in {old.worst, R(n + 1) - new.peak}
      /\ new.worst <= old.worst /\ new.worst <= R(n + 1) - new.peak
  <2>1. CASE n + 1 \in Walked(since)
    <3> DEFINE total == old.total + Pnl(n + 1)
               peak  == Max({old.peak, total})
               worst == Min({old.worst, total - peak})
    <3>1. new = [total |-> total, peak |-> peak, worst |-> worst]
      BY <1>4, <2>1 DEF WalkEquity
    <3>2. total \in Int /\ total = R(n + 1)
      BY <1>2, <1>5, <1>6, <1>7, <2>1
    <3> HIDE DEF total
    <3>3. peak \in {old.peak, total} /\ old.peak <= peak /\ total <= peak
      BY <1>7, <3>2 DEF Max
    <3> HIDE DEF peak
    <3>4. total - peak \in Int
      BY <1>7, <3>2, <3>3
    <3>5. worst \in {old.worst, total - peak} /\ worst <= old.worst /\ worst <= total - peak
      BY <1>7, <3>4 DEF Min
    <3> HIDE DEF worst
    <3>6. new.total = total /\ new.peak = peak /\ new.worst = worst
      BY <3>1
    <3> HIDE DEF old, new, R
    <3> QED
      BY <3>2, <3>3, <3>5, <3>6
  <2>2. CASE n + 1 \notin Walked(since)
    <3>1. new = old /\ R(n + 1) = R(n) /\ R(n) \in Int
      BY <1>1, <1>4, <1>5, <2>2
    <3>2. R(n) <= old.peak
      BY <1>2
    <3>3. \A k \in 0..n : old.worst <= R(n) - R(k)
      BY <1>2
    <3>4. old.worst <= R(n) - old.peak
      BY <1>2, <3>3
    <3> HIDE DEF old, new, R
    <3> QED
      BY <1>2, <1>7, <3>1, <3>2, <3>4
  <2> QED
    BY <2>1, <2>2
<1> HIDE DEF old, new, R
<1>9. \E b \in 0..(n + 1) : new.peak = R(b)
  BY <1>2, <1>8
<1>10. \A b \in 0..(n + 1) : R(b) <= new.peak
  <2> TAKE b \in 0..(n + 1)
  <2>1. CASE b \in 0..n
    <3>1. R(b) <= old.peak /\ R(b) \in Int /\ new.peak \in Int
      BY <1>1, <1>2, <1>7, <1>8, <2>1
    <3> QED
      BY <1>7, <1>8, <3>1
  <2>2. CASE b = n + 1
    BY <1>8, <2>2
  <2> QED
    BY <2>1, <2>2
<1>11. \E a, b \in 0..(n + 1) : a <= b /\ new.worst = R(b) - R(a)
  <2>1. CASE new.worst = old.worst
    BY <1>2, <2>1
  <2>2. CASE new.worst = R(n + 1) - new.peak
    <3>1. PICK c \in 0..(n + 1) : new.peak = R(c)
      BY <1>9
    <3> QED
      BY <2>2, <3>1
  <2> QED
    BY <1>8, <2>1, <2>2
<1>12. ASSUME NEW a \in 0..(n + 1), NEW b \in 0..(n + 1), a <= b
       PROVE  new.worst <= R(b) - R(a)
  <2>1. R(a) \in Int /\ R(b) \in Int /\ R(n + 1) \in Int /\ new.worst \in Int /\ new.peak \in Int
    BY <1>1, <1>7, <1>8
  <2>2. CASE b \in 0..n
    <3>1. a \in 0..n
      BY <1>12, <2>2
    <3>2. old.worst <= R(b) - R(a)
      BY <1>2, <1>12, <2>2, <3>1
    <3> QED
      BY <1>7, <1>8, <2>1, <3>2
  <2>3. CASE b = n + 1
    <3>1. R(a) <= new.peak
      BY <1>10
    <3> QED
      BY <1>8, <2>1, <2>3, <3>1
  <2> QED
    BY <2>2, <2>3
<1> QED
  BY <1>8, <1>9, <1>10, <1>11, <1>12 DEF Drawn, new, R

LEMMA AllDrawn ==
  ASSUME Books, NEW since
  PROVE  Drawn(since, Len(rows))
<1> DEFINE T == {n \in Nat : n <= Len(rows) => Drawn(since, n)}
<1>1. Ids = 1..Len(rows) /\ Len(rows) \in Nat
  BY RowsAddUp
<1>2. 0 \in T
  <2>1. /\ Equity(since)[0].total = 0 /\ Equity(since)[0].peak = 0
        /\ Equity(since)[0].worst = 0 /\ Run(since, 0) = 0
    BY EquityWalks, RunWalks
  <2>2. \A b \in 0..0 : b = 0
    OBVIOUS
  <2>3. Drawn(since, 0)
    BY <2>1, <2>2 DEF Drawn
  <2> QED
    BY <2>3
<1>3. ASSUME NEW n \in Nat, n \in T PROVE n + 1 \in T
  <2>1. n + 1 <= Len(rows) => n + 1 \in Ids /\ Drawn(since, n)
    BY <1>1, <1>3
  <2>2. n + 1 <= Len(rows) => Drawn(since, n + 1)
    BY <2>1, DrawnStep
  <2> QED
    BY <2>2
<1> HIDE DEF T
<1>4. Len(rows) \in T
  BY <1>1, <1>2, <1>3, AllNaturals
<1> QED
  BY <1>1, <1>4 DEF T

\* The walk through the equity finds the worst of all stretches.
LEMMA DrawdownIsWorst ==
  ASSUME Books, NEW since
  PROVE  MaxDrawdown(since) = WorstStretch(since)
<1> DEFINE n == Len(rows)
           R(k) == Run(since, k)
           Stretch(a, b) == TotalPnl({i \in Walked(since) : a <= i /\ i <= b})
           S == {0} \cup {Stretch(a, b) : a \in Ids, b \in Ids}
           worst == MaxDrawdown(since)
<1>1. Ids = 1..n /\ n \in Nat /\ Walked(since) \subseteq Ids
  BY RowsAddUp DEF Walked
<1>2. /\ \E a, b \in 0..n : a <= b /\ worst = R(b) - R(a)
      /\ \A a, b \in 0..n : a <= b => worst <= R(b) - R(a)
  BY AllDrawn DEF Drawn, MaxDrawdown
<1>3. \A k \in 0..n : R(k) \in Int
  BY <1>1, RunWalks
<1>4. \A a, b \in Ids : a <= b => a - 1 \in 0..n /\ b \in 0..n /\ a - 1 <= b
                                  /\ Stretch(a, b) = R(b) - R(a - 1)
  BY <1>1, StretchOfRun
<1>5. \A a, b \in Ids : ~(a <= b) => Stretch(a, b) = 0
  <2> TAKE a, b \in Ids
  <2> HAVE ~(a <= b)
  <2>1. {i \in Walked(since) : a <= i /\ i <= b} = {}
    BY <1>1
  <2> QED
    BY <2>1, TotalOfNone, Zenon
<1> HIDE DEF n, R, Stretch, worst
<1>6. worst \in Int /\ worst <= 0
  <2>1. 0 \in 0..n /\ 0 <= 0
    BY <1>1
  <2>2. worst <= R(0) - R(0) /\ R(0) \in Int
    BY <1>2, <1>3, <2>1
  <2> QED
    BY <1>2, <1>3, <2>2
<1>7. worst \in S
  <2>1. PICK a \in 0..n, b \in 0..n : a <= b /\ worst = R(b) - R(a)
    BY <1>2
  <2>2. CASE a = b
    <3>1. worst = 0
      BY <1>3, <2>1, <2>2
    <3> QED
      BY <3>1
  <2>3. CASE a # b
    <3>1. a + 1 \in Ids /\ b \in Ids /\ a + 1 <= b /\ a + 1 - 1 = a
      BY <1>1, <2>1, <2>3
    <3>2. Stretch(a + 1, b) = R(b) - R(a)
      BY <1>4, <3>1
    <3> QED
      BY <2>1, <3>1, <3>2
  <2> QED
    BY <2>2, <2>3
<1>8. \A x \in S : x \in Int /\ worst <= x
  <2> TAKE x \in S
  <2>1. CASE x = 0
    BY <1>6, <2>1
  <2>2. ASSUME NEW a \in Ids, NEW b \in Ids, x = Stretch(a, b)
        PROVE  x \in Int /\ worst <= x
    <3>1. CASE a <= b
      BY <1>2, <1>3, <1>4, <2>2, <3>1
    <3>2. CASE ~(a <= b)
      BY <1>5, <1>6, <2>2, <3>2
    <3> QED
      BY <3>1, <3>2
  <2> QED
    BY <2>1, <2>2
<1> HIDE DEF S
<1>9. Min(S) = worst
  <2>1. \A x \in S : (\A y \in S : x <= y) => x = worst
    BY <1>6, <1>7, <1>8
  <2> QED
    BY <1>7, <1>8, <2>1 DEF Min
<1> QED
  BY <1>9 DEF S, Stretch, worst, WorstStretch

-----------------------------------------------------------------------------
(* The time series *)

\* A later moment is in the same point of the series or in a later one.
LEMMA FloorMonotone ==
  ASSUME ReportsAssumption, NEW s \in Nat, NEW t \in Nat, s <= t
  PROVE  /\ FloorOf(s) \in Int /\ FloorOf(t) \in Int
         /\ FloorOf(s) <= FloorOf(t) /\ FloorOf(t) % Width = 0
<1> DEFINE p == s \div Width
           q == t \div Width
<1>1. Width \in Nat /\ Width > 0
  BY DEF ReportsAssumption
<1>2. /\ p \in Nat /\ p * Width <= s /\ s < p * Width + Width
      /\ q \in Nat /\ q * Width <= t /\ t < q * Width + Width
  BY <1>1
<1> HIDE DEF p, q
<1>3. p <= q
  <2> SUFFICES ASSUME q + 1 <= p PROVE FALSE
    BY <1>2
  <2>1. (q + 1) * Width <= p * Width
    BY <1>1, <1>2
  <2>2. (q + 1) * Width = q * Width + Width
    BY <1>1, <1>2
  <2>3. p * Width \in Int /\ q * Width \in Int
    BY <1>1, <1>2
  <2> QED
    BY <1>1, <1>2, <2>1, <2>2, <2>3
<1>4. p * Width \in Int /\ q * Width \in Int /\ p * Width <= q * Width
  BY <1>1, <1>2, <1>3
<1>5. (q * Width) % Width = 0
  BY <1>1, <1>2
<1> QED
  BY <1>4, <1>5 DEF FloorOf, p, q

\* Every settled row of the period has been added up by the last point.
LEMMA SeriesEnds ==
  ASSUME ReportsAssumption, Books, NEW since \in 0..clock
  PROVE  CumulativePnl(since, FloorOf(clock)) = TotalPnl(Walked(since))
<1> DEFINE added == {i \in Ids : /\ Settled(i) /\ rows[i].entered >= since
                                 /\ FloorOf(rows[i].entered)
                                      \in {t \in Points(since) : t <= FloorOf(clock)}}
<1>1. ASSUME NEW i \in Walked(since)
      PROVE  FloorOf(rows[i].entered) \in {t \in Points(since) : t <= FloorOf(clock)}
  <2>1. /\ rows[i].entered \in Nat /\ since \in Nat /\ clock \in Nat
        /\ since <= rows[i].entered /\ rows[i].entered <= clock
    BY RowsAddUp DEF Walked, Booked, Books
  <2>2. /\ FloorOf(since) <= FloorOf(rows[i].entered) /\ FloorOf(since) \in Int
        /\ FloorOf(rows[i].entered) % Width = 0
    BY <2>1, FloorMonotone
  <2>3. /\ FloorOf(rows[i].entered) <= FloorOf(clock)
        /\ FloorOf(rows[i].entered) \in Int /\ FloorOf(clock) \in Int
    BY <2>1, FloorMonotone
  <2> QED
    BY <2>2, <2>3 DEF Points
<1>2. added = Walked(since)
  BY <1>1 DEF Walked
<1> QED
  BY <1>2 DEF CumulativePnl

-----------------------------------------------------------------------------
(* Theorem *)

\* The numbers of one window agree.
LEMMA WindowAgrees ==
  ASSUME ReportsAssumption, Books, NEW since \in 0..clock
  PROVE  LET realized == RealizedPnlSince(since)
             summary  == SummaryForPeriod(since)
         IN /\ SumFunction([s \in Strategies |-> StrategyView(s, since).realized]) = realized
            /\ BucketSummary(ReviewRows(since)).total = realized
            /\ SumFunction([s \in Strategies |-> Breakdown(s, since)]) = summary.total
            /\ CumulativePnl(since, FloorOf(clock)) = summary.total
            /\ since = 0 => summary.total = realized
<1> DEFINE settled == {i \in Ids : Settled(i) /\ ResolvedAt(i) >= since}
           closed  == {i \in Ids : rows[i].entered >= since /\ ~Pending(i)}
           summary == SummaryForPeriod(since)
<1>1. settled \in SUBSET Ids /\ closed \in SUBSET Ids
  OBVIOUS
<1>2. RealizedPnlSince(since) = TotalPnl(settled)
  BY DEF RealizedPnlSince
<1>3. SumFunction([s \in Strategies |-> StrategyView(s, since).realized]) = TotalPnl(settled)
  <2>1. \A s \in Strategies :
          StrategyView(s, since).realized = TotalPnl({i \in settled : rows[i].strategy = s})
    BY DEF StrategyView, SettledInView
  <2> HIDE DEF settled
  <2>2. [s \in Strategies |-> StrategyView(s, since).realized]
          = [s \in Strategies |-> TotalPnl({i \in settled : rows[i].strategy = s})]
    BY <2>1
  <2>3. SumFunction([s \in Strategies |-> TotalPnl({i \in settled : rows[i].strategy = s})])
          = TotalPnl(settled)
    BY <1>1, TotalByStrategy
  <2> QED
    BY <2>2, <2>3, Zenon
<1>4. BucketSummary(ReviewRows(since)).total = TotalPnl(settled)
  <2>1. {i \in ReviewRows(since) : Settled(i)} = settled
    BY DEF ReviewRows, Settled, Pending
  <2> HIDE DEF settled
  <2> QED
    BY <2>1 DEF BucketSummary
<1>5. summary.total = TotalPnl(closed)
  <2>1. {i \in {i \in Ids : rows[i].entered >= since} : ~Pending(i)} = closed
    OBVIOUS
  <2> HIDE DEF closed
  <2> QED
    BY <2>1 DEF SummaryForPeriod
<1>6. SumFunction([s \in Strategies |-> Breakdown(s, since)]) = TotalPnl(closed)
  <2>1. ASSUME NEW s \in Strategies
        PROVE  Breakdown(s, since) = TotalPnl({i \in closed : rows[i].strategy = s})
    <3>1. {i \in Ids : rows[i].strategy = s /\ rows[i].entered >= since /\ ~Pending(i)}
            = {i \in closed : rows[i].strategy = s}
      OBVIOUS
    <3> HIDE DEF closed
    <3> QED
      BY <3>1 DEF Breakdown
  <2> HIDE DEF closed
  <2>2. [s \in Strategies |-> Breakdown(s, since)]
          = [s \in Strategies |-> TotalPnl({i \in closed : rows[i].strategy = s})]
    BY <2>1
  <2>3. SumFunction([s \in Strategies |-> TotalPnl({i \in closed : rows[i].strategy = s})])
          = TotalPnl(closed)
    BY <1>1, TotalByStrategy
  <2> QED
    BY <2>2, <2>3, Zenon
<1>7. TotalPnl(closed) = TotalPnl(Walked(since))
  <2>1. {i \in closed : Settled(i)} = Walked(since)
    BY DEF Walked, Settled, Pending
  <2>2. TotalPnl(closed) = TotalPnl({i \in closed : Settled(i)})
    BY <1>1, TotalOfSettled
  <2> QED
    BY <2>1, <2>2, Zenon
<1>8. since = 0 => Walked(since) = settled
  <2>1. \A i \in Ids : rows[i].entered >= 0 /\ ResolvedAt(i) >= 0
    BY RowsAddUp DEF Booked, ResolvedAt, Books
  <2> QED
    BY <2>1 DEF Walked
<1> HIDE DEF settled, closed, summary
<1>9. CumulativePnl(since, FloorOf(clock)) = summary.total
  BY <1>5, <1>7, SeriesEnds
<1>10. since = 0 => summary.total = TotalPnl(settled)
  BY <1>5, <1>7, <1>8
<1> QED
  BY <1>2, <1>3, <1>4, <1>5, <1>6, <1>9, <1>10 DEF summary

\* The report and the snapshot count one strategy alike.
LEMMA ViewsAgree ==
  ASSUME NEW since, NEW s
  PROVE  LET view == StrategyView(s, since) stats == PerfStats(s, since)
         IN <<view.wins, view.losses, view.realized>>
              = <<stats.wins, stats.losses, stats.realized>>
<1>1. {i \in SettledInView(since) : rows[i].strategy = s}
        = {i \in Ids : /\ rows[i].strategy = s
                       /\ Settled(i) /\ ResolvedAt(i) >= since}
  BY DEF SettledInView
<1> QED
  BY <1>1, Zenon DEF StrategyView, PerfStats

\* For every set of strategies, journal, window and width of the time series,
\* whatever was entered, settled, stopped out or voided, and in what order: the
\* strategy report, the P&L snapshot, the reviewer's metrics and the journal
\* realize the same P&L; the API's summary is the sum of its breakdown and the
\* end of its time series; and its drawdown is the worst loss over any stretch
\* of the settled rows (report.py, perf_report.py, reviewer.py, logger.py,
\* performance.py).
THEOREM NumbersAgree ==
  ASSUME ReportsAssumption
  PROVE  Spec => []BooksAgree
<1>1. Books /\ [Next]_vars => Books'
  BY BooksStep
<1>2. Books => BooksAgree
  <2> SUFFICES ASSUME Books PROVE BooksAgree
    OBVIOUS
  <2> QED
    BY WindowAgrees, ViewsAgree, DrawdownIsWorst DEF BooksAgree
<1> QED
  BY <1>1, <1>2, BooksInit, PTL DEF Spec
=============================================================================
