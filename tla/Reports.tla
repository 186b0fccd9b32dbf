------------------------------ MODULE Reports ------------------------------
(***************************************************************************)
(* The journal's readers: the strategy report (monitoring/report.py), the  *)
(* P&L snapshot (monitoring/perf_report.py), the reviewer's metrics        *)
(* (monitoring/reviewer.py), and the HTTP API's performance, trades and    *)
(* positions (api/routes), each written with its own SQL, while the bot    *)
(* goes on writing.                                                        *)
(*                                                                         *)
(* A reader outside the bot holds no lock and opens no transaction: every  *)
(* SELECT sees the journal at its own moment. The bot writes one row per   *)
(* tick of the clock, so timestamps are distinct.                          *)
(***************************************************************************)
EXTENDS Integers, Sequences, FiniteSets, FiniteSetsExt, Functions, SequencesExt

CONSTANTS
  Strategies,
  Pnls,       \* what a position may realize
  Width,      \* the width of a point of the time series
  PageSize,   \* limit of a page
  Window,     \* how far back the report's window reaches (--since)
  MaxClock    \* bound on the writes

ASSUME ReportsAssumption ==
  /\ IsFiniteSet(Strategies)
  /\ Pnls \subseteq Int /\ Window \in Nat /\ MaxClock \in Nat
  /\ Width \in Nat \ {0} /\ PageSize \in Nat \ {0}

VARIABLES
  rows,     \* the journal's rows
  clock,    \* the number of writes
  report,   \* the report being collected
  walk,     \* a client walking through an endpoint's pages
  reader    \* which of the two, or of the endpoints, reads in this behaviour

vars == <<rows, clock, report, walk, reader>>

Ids == DOMAIN rows
Settled(i) == rows[i].outcome \in {"won", "lost"}
Pending(i) == rows[i].outcome = "pending"

Pnl(i) == rows[i].pnl

TotalPnl(ids) == SumFunctionOnSet([i \in Ids |-> Pnl(i)], ids)

\* metadata.resolved_at, or the entry's timestamp where it is missing.
ResolvedAt(i) == IF rows[i].resolved = 0 THEN rows[i].entered ELSE rows[i].resolved

-----------------------------------------------------------------------------
(* The numbers, each as its own code computes it, from time "since" on. *)

\* The journal's own total, for the breaker and the daily summary.
RealizedPnlSince(since) ==
  TotalPnl({i \in Ids : Settled(i) /\ ResolvedAt(i) >= since})

\* report.py: the settled rows of a view are pulled and added one by one.
SettledInView(since) == {i \in Ids : Settled(i) /\ ResolvedAt(i) >= since}

\* The view of one strategy: entries by timestamp, resolutions by resolved_at.
StrategyView(strategy, since) ==
  LET entered  == {i \in Ids : rows[i].strategy = strategy /\ rows[i].entered >= since}
      resolved == {i \in SettledInView(since) : rows[i].strategy = strategy}
  IN [trades   |-> Cardinality(entered),
      wins     |-> Cardinality({i \in resolved : rows[i].outcome = "won"}),
      losses   |-> Cardinality({i \in resolved : rows[i].outcome = "lost"}),
      realized |-> TotalPnl(resolved)]

\* Mutation: perf_report selects resolutions by their entry.
PerfByEntry(strategy, since) ==
  LET resolved == {i \in Ids : /\ rows[i].strategy = strategy
                               /\ Settled(i) /\ rows[i].entered >= since}
  IN [wins     |-> Cardinality({i \in resolved : rows[i].outcome = "won"}),
      losses   |-> Cardinality({i \in resolved : rows[i].outcome = "lost"}),
      realized |-> TotalPnl(resolved)]

\* perf_report.py aggregates the same in SQL.
PerfStats(strategy, since) ==
  LET resolved == {i \in Ids : /\ rows[i].strategy = strategy
                               /\ Settled(i) /\ ResolvedAt(i) >= since}
  IN [wins     |-> Cardinality({i \in resolved : rows[i].outcome = "won"}),
      losses   |-> Cardinality({i \in resolved : rows[i].outcome = "lost"}),
      realized |-> TotalPnl(resolved)]

\* compute_review_metrics takes settled rows by resolution and pending rows by
\* entry; _bucket_summary adds up the closed ones of each group.
ReviewRows(cutoff) ==
  {i \in Ids : \/ Settled(i) /\ ResolvedAt(i) >= cutoff
               \/ Pending(i) /\ rows[i].entered >= cutoff}

BucketSummary(items) ==
  LET closed == {i \in items : Settled(i)}
  IN [n |-> Cardinality(items), closed |-> Cardinality(closed),
      total |-> TotalPnl(closed)]

\* The API's summary filters by the entry's timestamp, voided rows included. Its
\* periods are today, week and month, those of the series 24h, 7d and 30d:
\* "since" is the start of either.
SummaryForPeriod(since) ==
  LET taken == {i \in Ids : rows[i].entered >= since}
  IN [trades |-> Cardinality(taken),
      total  |-> TotalPnl({i \in taken : ~Pending(i)}),
      wins   |-> Cardinality({i \in taken : rows[i].outcome = "won"}),
      losses |-> Cardinality({i \in taken : rows[i].outcome = "lost"})]

\* The settled rows of a period, walked in the order of their entry, their ids'.
Walked(since) == {i \in Ids : Settled(i) /\ rows[i].entered >= since}

\* Running total, its peak and the worst fall below the peak, starting from 0.
WalkEquity(equity, i) ==
  LET total == equity.total + Pnl(i)
      peak  == Max({equity.peak, total})
  IN [total |-> total, peak |-> peak, worst |-> Min({equity.worst, total - peak})]

\* After the first n rows.
Equity(since) ==
  LET equity[n \in 0..Len(rows)] ==
        IF n = 0 THEN [total |-> 0, peak |-> 0, worst |-> 0]
        ELSE IF n \in Walked(since) THEN WalkEquity(equity[n - 1], n)
        ELSE equity[n - 1]
  IN equity

MaxDrawdown(since) == Equity(since)[Len(rows)].worst

\* One group of the breakdown, here by strategy.
Breakdown(strategy, since) ==
  TotalPnl({i \in Ids : /\ rows[i].strategy = strategy
                       /\ rows[i].entered >= since /\ ~Pending(i)})

FloorOf(time) == (time \div Width) * Width

\* One point per Width from the period's start to now.
Points(since) == {t \in FloorOf(since)..FloorOf(clock) : t % Width = 0}

\* Each point carries what was entered by then and has settled.
CumulativePnl(since, point) ==
  TotalPnl({i \in Ids : /\ Settled(i) /\ rows[i].entered >= since
                       /\ FloorOf(rows[i].entered) \in {t \in Points(since) : t <= point}})

-----------------------------------------------------------------------------
(* The bot writes. *)

NewRow(strategy) ==
  [strategy |-> strategy, entered |-> clock + 1, outcome |-> "pending",
   resolved |-> 0, pnl |-> 0]

NoWalk == [offset |-> 0, total |-> 0, counted |-> FALSE,
           start |-> {}, met |-> {}, torn |-> FALSE, done |-> TRUE]

\* What a report under way has selected, "next" the SELECT it comes to.
NoReport == [next |-> 1, since |-> 0,
             entered |-> {}, settled |-> {}, open |-> {},
             enteredInWindow |-> {}, settledInWindow |-> {}, openLater |-> {},
             recent |-> {}, listed |-> {}]

Init ==
  /\ rows = <<>>
  /\ clock = 0
  /\ report = NoReport
  /\ walk = NoWalk
  /\ reader \in {"report", "trades", "positions"}

Write(newRows) ==
  /\ clock < MaxClock
  /\ clock' = clock + 1
  /\ rows' = newRows
  /\ UNCHANGED <<report, reader>>

\* record_entry. A page read after it no longer agrees with the count before.
Enter(strategy) ==
  /\ Write(Append(rows, NewRow(strategy)))
  /\ walk' = [walk EXCEPT !.torn = @ \/ walk.counted]

\* The reviewer settles a row and stamps resolved_at.
Resolve(i, pnl) ==
  /\ Pending(i)
  /\ Write([rows EXCEPT ![i].outcome = IF pnl > 0 THEN "won" ELSE "lost",
                        ![i].pnl = pnl, ![i].resolved = clock + 1])
  /\ UNCHANGED walk

\* The stop-loss books a loss, whatever the sign, and stamps nothing.
StopOut(i, pnl) ==
  /\ Pending(i)
  /\ Write([rows EXCEPT ![i].outcome = "lost", ![i].pnl = pnl])
  /\ UNCHANGED walk

\* void_entry
Void(i) ==
  /\ Pending(i)
  /\ Write([rows EXCEPT ![i].outcome = "voided"])
  /\ UNCHANGED walk

Bot ==
  \/ \E s \in Strategies : Enter(s)
  \/ \E i \in Ids :
       \/ Void(i)
       \/ \E pnl \in Pnls : Resolve(i, pnl) \/ StopOut(i, pnl)

-----------------------------------------------------------------------------
(* The report is collected, one SELECT after the other. *)

\* Mutation: a view reads the open positions before the resolutions.
OpenFirst == <<"entered", "open", "settled",
               "enteredInWindow", "openLater", "settledInWindow", "recent", "listed">>

\* The lifetime view, the view of the window, the list of the newest settled
\* rows and that of the open ones. A view's open positions are never filtered.
Order == <<"entered", "settled", "open",
           "enteredInWindow", "settledInWindow", "openLater", "recent", "listed">>

\* The newest settled rows are listed up to a limit, here without one.
Selected(what) ==
  CASE what = "entered" -> Ids
    [] what \in {"settled", "recent"} -> {i \in Ids : Settled(i)}
    [] what = "enteredInWindow" -> {i \in Ids : rows[i].entered >= report.since}
    [] what = "settledInWindow" -> SettledInView(report.since)
    [] OTHER -> {i \in Ids : Pending(i)}

\* The start of the window is taken before anything is read.
StartReport ==
  /\ reader = "report" /\ report.next = 1
  /\ report' = [report EXCEPT !.since = clock - Window,
                              !.entered = Selected("entered"), !.next = 2]
  /\ UNCHANGED <<rows, clock, walk, reader>>

\* _collect_view twice, _collect_recent_settled and _collect_open_positions.
Select ==
  /\ report.next \in 2..Len(Order)
  /\ LET what == Order[report.next]
     IN report' = [report EXCEPT ![what] = Selected(what), !.next = @ + 1]
  /\ UNCHANGED <<rows, clock, walk, reader>>

\* The report is rendered, and another one may follow.
Render ==
  /\ report.next > Len(Order)
  /\ report' = NoReport
  /\ UNCHANGED <<rows, clock, walk, reader>>

-----------------------------------------------------------------------------
(* A client walks through an endpoint's pages, newest rows first. *)

\* Mutation: the trades endpoint lists open trades only.
ListsOpen(of) == {i \in Ids : Pending(i)}

\* /trades lists every row, /positions (status=open) the pending ones.
Listable(of) == {i \in Ids : of = "positions" => Pending(i)}

\* ORDER BY timestamp DESC LIMIT PageSize OFFSET offset
Page(of, offset) ==
  {i \in Listable(of) :
     Cardinality({j \in Listable(of) : j > i}) \in offset..offset + PageSize - 1}

StartWalk ==
  /\ reader # "report" /\ walk.done
  /\ walk' = [NoWalk EXCEPT !.start = Listable(reader), !.done = FALSE]
  /\ UNCHANGED <<rows, clock, report, reader>>

\* SELECT COUNT(*) ...
Count ==
  /\ ~walk.done /\ ~walk.counted
  /\ walk' = [walk EXCEPT !.counted = TRUE, !.total = Cardinality(Listable(reader))]
  /\ UNCHANGED <<rows, clock, report, reader>>

\* Trade knows no outcome "voided": a page with such a row is a server error.
Servable(page) == \A i \in page : rows[i].outcome # "voided"

\* ... and then the page; has_more compares the two.
Fetch ==
  /\ walk.counted
  /\ LET page == Page(reader, walk.offset)
         more == walk.offset + Cardinality(page) < walk.total
     IN /\ Servable(page)
        /\ walk' = [walk EXCEPT !.counted = FALSE, !.met = @ \cup page, !.done = ~more,
                                !.offset = IF more THEN @ + PageSize ELSE @]
  /\ UNCHANGED <<rows, clock, report, reader>>

\* The answer is an error and the client gives up, whatever it had met.
FetchFails ==
  /\ walk.counted /\ ~Servable(Page(reader, walk.offset))
  /\ walk' = NoWalk
  /\ UNCHANGED <<rows, clock, report, reader>>

Next ==
  \/ Bot
  \/ StartReport \/ Select \/ Render
  \/ StartWalk \/ Count \/ Fetch \/ FetchFails

Spec == Init /\ [][Next]_vars

-----------------------------------------------------------------------------
(* Properties. *)

\* The worst loss over any stretch of the settled rows, 0 if none lost.
WorstStretch(since) ==
  LET Stretch(a, b) == TotalPnl({i \in Walked(since) : a <= i /\ i <= b})
  IN Min({0} \cup {Stretch(a, b) : a \in Ids, b \in Ids})

\* Over any window the report, the snapshot, the reviewer and the journal agree
\* on what was realized, rows without resolved_at included; from any moment on the
\* API's summary is the sum of its breakdown and the end of its time series, its
\* drawdown is the worst stretch, and over the whole life it is the journal's
\* total (report.py, perf_report.py, reviewer.py, logger.py, performance.py).
\* The numbers depend on the rows alone: they are compared between two reports.
BooksAgree ==
  reader = "report" /\ report = NoReport => \A since \in 0..clock :
    LET realized == RealizedPnlSince(since)
        summary  == SummaryForPeriod(since)
    IN /\ SumFunction([s \in Strategies |-> StrategyView(s, since).realized]) = realized
       /\ \A s \in Strategies :
            LET view == StrategyView(s, since) stats == PerfStats(s, since)
            IN <<view.wins, view.losses, view.realized>>
                 = <<stats.wins, stats.losses, stats.realized>>
       /\ BucketSummary(ReviewRows(since)).total = realized
       /\ SumFunction([s \in Strategies |-> Breakdown(s, since)]) = summary.total
       /\ CumulativePnl(since, FloorOf(clock)) = summary.total
       /\ MaxDrawdown(since) = WorstStretch(since)
       /\ since = 0 => summary.total = realized

\* A position that one part of a report shows settled is open in none of its
\* later parts. (The other way round it may be: what the lifetime view counts
\* open may settle before the window's view and the recent list are read.)
NeverReopened ==
  /\ report.settled \cap (report.open \cup report.openLater \cup report.listed) = {}
  /\ report.settledInWindow \cap (report.openLater \cup report.listed) = {}
  /\ report.recent \cap report.listed = {}

\* Stopped out, and without resolved_at filed under its entry.
FiledBefore(i, since) == Settled(i) /\ rows[i].resolved = 0 /\ rows[i].entered < since

\* A position that a report's lifetime view has counted among its trades is in
\* its settled or open part, or among the settled ones of the window, if it was
\* not voided: what settles between two SELECTs settles inside the window.
\* Only a stop-loss, which leaves no resolved_at, can slip through.
NoneMissing ==
  report.next > Len(Order) =>
    \A i \in report.entered :
      \/ rows[i].outcome = "voided" \/ FiledBefore(i, report.since)
      \/ i \in report.settled \cup report.open \cup report.settledInWindow

\* A report read SELECT by SELECT from a moving journal does not take back what
\* it has shown, and leaves no position out (report.collect, _collect_view).
ReportConsistent == NeverReopened /\ NoneMissing

\* A client that walks the trades, newest first, until has_more is false has
\* met every row that was there when it began, whatever is entered or settled
\* meanwhile, unless a row was entered between a page's count and the page. No
\* client gets past a page with a voided row, which is not served (get_trades).
PagesCover ==
  reader = "trades" /\ walk.done /\ ~walk.torn => walk.start \subseteq walk.met
=============================================================================
