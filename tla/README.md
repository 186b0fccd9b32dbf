# Verification of polyvane

TLA+ models of the trading bot in `src/`, TLC configurations that check them on
small instances, and TLAPS proofs of the results that matter most. The reference
is the code; every definition that models code is tied to its lines in
`PROJECT.json` ("map").

## 1. The system

polyvane is one asyncio process (`main.py`) that runs a set of timer loops over
one SQLite journal and one or two exchanges. Nothing but the journal survives a
restart. Beside it, reports and an HTTP API read the journal from processes of
their own, and a backtest replays a strategy.

| Part | State | Operations | What makes it correct |
|---|---|---|---|
| Trade journal `core/logger.py` | table `trades` | record_entry, update_entry_fill, void_entry, apply_partial_exit, record_exit; sums and counts by day | rows mirror the account; PnL is complete and counted on the right day |
| Risk manager `core/risk.py` | day anchor, tripped, warned | check_trade, evaluate_circuit_breaker, is_halted, trip | every cap holds; a loss at the limit halts entries for the day |
| Executor `core/executor.py` | none of its own | submit: approve, record, order, reconcile or void | one order per approval, within it; the row ends up saying what is held |
| Kalshi client `core/kalshi_client.py` | HTTP session | POST with retries, typed errors | a resend never buys twice; every await ends |
| Stop-loss `core/stop_loss.py` | none | pass over a snapshot of open rows | sells what is held, books all of it |
| Reviewer `monitoring/reviewer.py` | none | check_resolutions from a snapshot, by two tasks; counterfactuals; metrics | each row settled once, none left behind; PnL is the cash made |
| Health monitor `monitoring/health.py` | pause flag, last scans, error log | poll: stalls, balance, errors; record_scan, record_error | short funds end trading, ample funds resume it, a stalled strategy is noticed |
| Alert bus `monitoring/alerts.py` | queue, cooldowns, one task | emit, dispatch, stop | accepted alerts go out; nothing is posted on a closed session |
| Daily summary `main.py` | last_sent | settle, list, emit, once a day | no closed trade falls between two summaries |
| Lazy strategy `strategies/lazy_weather` | `_fired`, signals of a scan | scan, garbage collection, hydration | a rung is bought once, on the way up |
| Weather strategy, scanners, data sources `strategies/weather` | last scan, last run, forecast cache | scan, evaluate | no model run missed or used twice; bets on exclusive outcomes cost less than they can pay |
| Backtest `backtesting` | none | replay of closed events | does not profit from prices that know the outcome |
| Reports, API `monitoring/*report.py`, `api/routes` | none | sums over windows, pages | all books agree; a report takes nothing back and leaves nothing out; paging skips none |
| Market cache, wallet, scripts, deployment | – | – | see section 7 |

How they interact. A `strategy_loop` per strategy asks `is_halted` and the pause
flag, scans, and submits each signal through the shared executor: `check_trade`
and `record_entry` run without an `await` between them, then the order is awaited
and its answer rewrites the row. Meanwhile the stop-loss loop, the reviewer's loop
and the daily summary (which calls the reviewer) each read the open rows, await
books, sells or lookups, and write rows back from what they read. The risk monitor
re-evaluates the day's sum, the health monitor awaits the balance and sets or
clears the flag. The coroutines interleave only at `await`, so whatever runs
between two awaits is one action in these models. Readers outside the bot hold no
lock: each of their SELECTs is an action.

What is hard here: snapshots used after an await; approvals that race each
other's fills and voids; retries of an order that may have landed; memory lost in
a restart (the breaker, the ladder, the summary); sums by day over rows that close
on another day; one listing or answer missing among several. `PROJECT.json`
"hazards" lists each at its line with the properties that would catch it.

## 2. Modules

| Module | Models | State and actions |
|---|---|---|
| `Journal` | `TradeJournal` and `Reviewer._record_resolution` | operators over a sequence of rows; the id is the index; a metadata field where it matters |
| `RiskManager` | `RiskManager` | `Approves` is check_trade with its early returns in order; the memory is a record `[anchor, tripped, warned]` |
| `TradingCore` | the tasks that share the journal, with exchange account and market life cycle | one action per stretch between awaits: `Enter`/`Refuse`/`Reconcile`/`Void`/`KeepDuplicate`, `StopSnapshot`…`StopReplyLost`, `ReviewSnapshot`/`Settle`, `EvaluateBreaker`/`PollHalted`/`Trip`; the world: `OrderFills`, `CloseMarket`, `Finalize`, `NewDay`, `Restart` |
| `KalshiOrder` | one live submission: `_place_kalshi_order`, the client's and the executor's retry loops, the handlers of `submit` | `Quote`, `Send`, `Retry`, `Receive`; Kalshi and the network: `TakeOrder`, `RefuseOrder`, `LoseRequest`, `LoseReply`, `TimeOut`; `Shutdown` |
| `Submission` | what one submission promises (abstract) | `SubLand`, `SubDecide`; `KalshiOrder` implements it through `Promise == INSTANCE Submission WITH …` |
| `Position` | one live position in lots and cents, from entry to close: fills, Polymarket tranches, marks and sells of the stop-loss, settlement, counterfactual, next to the account's lots and cash | `BuyFills`/`EntryAnswered`, `PostTranche`/`TrancheFails`/`RestingFills`, `StopLook`…`SellAnswered`, `StopPolymarket`, `ReviewLook`/`ReviewEnds`, `AnnotateLook`/`AnnotateEnds` |
| `Ladder` | the lazy strategy: scan, garbage collection, queue, hydration | `Scan`, `Submit`, `Reject`, `Close`, `Restart`; `Move`, `Delist` |
| `Health` | the health monitor, the pause hook and the strategy loops it pauses | `PollStarts`/`BalanceRead`/`PollEnds`/`PollFails`, `StartScan`…`Finish`; `Tick`, `FundsChange` |
| `AlertBus` | the alert bus | `Emitted` (emit), `Take`, `PostEnds`, `PostTimesOut`, `StopBus`, `WorkerEnds`/`WorkerCancelled`, `CloseSession` |
| `Summary` | the daily summary on the bus, with the tasks that close rows | `SummaryStarts`, `Compose`, `Send`, `SummaryRaises`; `Close`, `Restart` |
| `Ensemble` | the probability of a temperature interval under several models | operators |
| `WeatherMarkets` | what the exchanges list and how it is read: sides, bounds, prices, pages | operators |
| `WeatherStrategy` | the weather strategy in its loop: schedule, listing, gathered fetches and cache, signals, intents | `PollEarly`, `BeginScan`, `List`, `Gather`, `FetchEnds`, `Price`, `Evaluate`, `EndScan` |
| `Replay` | the backtest of an event, with forecasts, gates, fills and a measurement of its own | operators over a board, the exchange's result and the archives |
| `Reports` | the journal's readers while the bot writes | `Enter`, `Resolve`, `StopOut`, `Void`; `StartReport`/`Select`/`Render`, `StartWalk`/`Count`/`Fetch`/`FetchFails`; the sums as operators |
| `MC…` | small instances | model values and tables for the configurations |
| `SumTheorems` | sums of integers over finite sets, and induction stated about sets | lemmas for the proofs of the core, the reports and the weather strategy |
| `…Proofs` | TLAPS proofs | section 6 |

`Journal` ← `RiskManager` ← `TradingCore`, `AlertBus` ← `Summary` and `Ensemble` ←
`WeatherMarkets` ← `WeatherStrategy` ← `Replay` by EXTENDS. `KalshiOrder` opens up
what `TradingCore` does in the three actions `Reconcile`, `Void` and
`KeepDuplicate`; `Position` gives the amounts of one row their lots and cents;
`Ladder` and `WeatherStrategy` open up where the stakes and markets come from that
`TradingCore` picks; `Health` is the other reason a loop may sleep.

Main abstractions.

* Money in `TradingCore` is whole dollars at cost, a stake is picked from a set
  (Kelly sizing and the bankroll only choose a number that the caps then cut), an
  edge is compared with its minimum and nothing else, so `check_trade` gets the
  verdict. Time is the UTC day. In `KalshiOrder` and `Position` money is cents and
  a fill has one average price; Kalshi's fees are left out. `Position` takes the
  YES side, the only one that is entered.
* A balance is short, thin or ample; times in `Health` and `AlertBus` are ages
  that stop growing once they no longer matter.
* In `Ensemble` the Gaussian is a monotone table of per cents and a reading a
  whole degree Fahrenheit; the Celsius conversion is left out. `WeatherStrategy`
  has the markets of one city and day.
* In `Replay` a token has one past price, the same at all as-of times, or none.
* In `Reports` a behaviour has one reader; the list of recent trades has no limit.
  The `/trades` list with a city filter reads once and so cannot tear.
* `haltDay` (TradingCore), `earlier` (Ladder), `amiss` (Position), `listed` and
  `covered` (Summary), `begun` and `paced` (WeatherStrategy), and `walk.start`,
  `met` and `torn` (Reports) are history; of `paced`, `raised` and `sound` only tell
  which scans ended without an exception.

Definitions commented *Mutation* are not part of any specification: each is a
plausible bug that, put in the place of the definition after it, makes the checked
property fail (`PROJECT.json` "mutants").

Disturbances. `TradingCore`, `KalshiOrder` and `Ladder` have a constant
`Disturbances`; each run names the ones it allows, so that a property that holds
says what it depends on. `Position` remembers in `amiss` what has happened, so that
one run shows which of its properties survive what.

## 3. Runs that pass

| Run | Shows | Instance and why it is enough |
|---|---|---|
| `Caps` | open-position cap, dedup, nothing is entered on a halted day; a lasting loss keeps tripping, final positions get settled | one live, one paper strategy, one market, 3 rows, all disturbances; cap 2, so a third entry and every way to free a slot occur; limit 1, and the stop-loss and settlements move the day's sum in both directions |
| `Accounting` | ceiling, journal = account, bounded daily loss, per-strategy cap | two live strategies racing in two markets over two days; partial fills of 2, so a void or fill that is not trued up shows; limit 1 so one loss trips |
| `Paper` | daily cap on a paper exchange; a row settles once | two reviewers over two days with restarts, tier caps 1 and 2, a category limit that refuses some trades |
| `Ordering` | one order, within the approval, `Submission` implemented, the loops end | two attempts in each loop (so first, middle and last attempts occur), all disturbances, prices at 33, 60 and 99 cents, approvals that buy one to four contracts |
| `Exits` | the row holds what the account holds, a closed row's profit is the cash it made, no short position, tranches bounded | four lots, in two tranches on Polymarket: a remainder can itself be sold in part; bids on both sides of the trigger, at the lowest cent and none; two attempts per tranche |
| `Climb` | every add follows a climb; an open rung is not bought again | two markets, two rungs, prices below, between, above and beyond max_price; restarts at any moment; 3 rows, one more than it takes to double a rung |
| `Pausing` | short funds end trading, ample funds resume it, stalls are noticed | a live and a paper strategy, thresholds of one so every counter is reached, reads that fail or are stale |
| `Reporting` | a settled trade is listed by the next summary, alerts are taken, a closed bus is quiet | two days of six ticks, one row, a queue of one (full at once), two channels and two parts, a stop or a crash and a restart |
| `Weather` | no run missed, scans paced, exclusive bets below a dollar, the replay does not profit from hindsight | two models of unequal weight, two boards on each exchange with pages that fail, interval 4, a run at 0 and 2, cache of 2 ticks, 5 moments, 3 fetches in flight: an early scan, a scan that raises and is repeated, an expired reading and a fetch that outlives its gather all occur. The replay: as-of times 0, 2 and 4, the first before its start; every archive answer of three readings or none for either model, every measurement and result, which may disagree |
| `Reports` | five aggregations agree on every window, a report of two views takes nothing back and leaves nothing out, paging skips none | five writes, two strategies, gains and losses, a window of one tick, eight SELECTs with writes between them, pages of one row (one with a voided row is a server error), points two ticks wide; rows stopped out carry no resolved_at |

`CHECK_DEADLOCK` is off wherever rows, days, time or submissions are bounded: when
the bound is reached the model may stop. `Health` has no such bound and is checked
for deadlock.

Bounds are `MaxRows`, `MaxDay`, `MaxShort` (how far an oversell may take the
account below zero), `MaxErrors`, `MaxClock`, `MaxNow`, `MaxFlights`, one lost
answer to a sell in `Position` and, in `KalshiOrder`, the retry limits themselves.
The theorems of section 6 need no bound but those that are guards of the model.

## 4. Runs that find a violation

Each checks one property that a comment or the code's own text states, and TLC
finds a behaviour of the code that breaks it. `PROJECT.json` "findings" quotes both
sides.

| Run | What happens |
|---|---|
| `LateStop` | a stop-loss exit counts on the entry's day, outside today's breaker sum |
| `PaperSold` | the stop-loss sells real contracts for a paper strategy's row on a live exchange |

Limits met while modelling that no run demonstrates; most are a hazard with a note
in `PROJECT.json`, and are why a property above excludes a case:

* a stop-loss pass that started while an order was awaited sells the size asked
  for, overwrites the fill with a remainder of it, also past the market ceiling (so
  `Accounting` runs without the stop-loss), and sells a row voided meanwhile;
* a full stop-loss exit after a partial one books only the last chunk (so
  `PnlIsCash` leaves it out);
* a Polymarket sell is booked at the mark at once, whatever it fills;
* when every answer to a POST is lost the row is voided although the order may
  have filled; a duplicate answer keeps a row open even when the order filled
  nothing (so `Submission` allows both);
* a restart forgets the breaker's trip, and a day whose sum has been lifted since
  reopens; it forgets rungs that were closed or retired (so `AddsFollowClimb`
  speaks of the rows of one process) and the last summary;
* with one failed series in a listing an open rung is bought again (so `Climb` and
  the theorems about it have complete listings);
* a trip noticed by `check_trade` first is never announced; alerts are dropped by
  a full queue after their cooldown has started, and lost at a stop;
* `setup()` raising ends a strategy for good, and health never sees it;
* a Polymarket event's scan is stamped at its end, so a run published during the
  scan is taken as used; Kalshi prices each market from forecasts of its own
  moment (so `PortfolioBelowOne` compares signals of the same forecasts);
* a range is priced as [low, high) although its bounds are called inclusive;
* a Polymarket scan that raises is not stamped: due by the interval, it is repeated
  at every poll until one succeeds; caused by a model run, it is not tried again
  before the interval is over, because the run is remembered (so `ScanPaced` counts
  from the last scan that did not raise, and `RunScanned` from the last one begun);
* the shipped `weather_kalshi` leaves `min_liquidity_usd` at its default of 100
  (strategy.py:101), and a Kalshi signal carries a liquidity of 0 (strategy.py:444), so
  `evaluate` accepts none; the run sets `MinLiquidity` to 0, to see what follows;
* the backtest is no replay of the live decisions: it reads final prices, so it never
  trades the bucket that won (which is what keeps `HindsightNeverPays`); its
  request for forecasts carries no as-of time; its `min_agreement` is 0.7 by default,
  the live one 0.0; its liquidity gate is the closed event's, and it settles by an
  archive of measurements in UTC that may contradict the exchange. No property
  compares its trades with the live ones;
* a page of `/trades` with a voided row is a server error: `Trade.outcome` has no
  such value (api/models.py:155), and the query does not filter (so `PagesCover` speaks
  of the pages that are served, and no walk gets past such a row);
* a position that settles after the lifetime view's open SELECT is Open in the
  lifetime table and settled in the window's table and the recent list; one that is
  stopped out meanwhile, with its entry before the window, is in neither table (so
  `ReportConsistent` goes one way in time, and excepts that exit);
* `/positions` pages by offset over rows that leave the list when they settle; the
  API's periods go by entry, the reports' windows by resolution, and the API's
  summary and series give their periods different starts (today, week, month; 24h,
  7d, 30d), so `BooksAgree` compares them from one moment on.

## 5. Fairness

* `TradingCore!FairSpec`: weak fairness of the risk monitor and of each review
  task's snapshot, because both are timer loops that catch every exception and
  sleep; strong fairness of a settlement pass that finds every final market,
  because a pass may be cut by a restart or fail a lookup any number of times but
  the exchange answers again and again. Strategies, orders and the stop-loss have
  none.
* `KalshiOrder!FairSpec`: weak fairness of the coroutine, which the event loop
  resumes, and of the end of an await, which the session's total timeout
  (`kalshi_client.py:203`) guarantees even when nothing answers. Kalshi never has
  to accept or fill anything.
* `Health!FairSpec`: weak fairness of the poll and of the loops, timer loops whose
  awaits end by client timeouts; strong fairness of a balance that is read (reads
  may fail again and again, not for good) and of the end of a scan's signals,
  which are finitely many. Time, funds and orders have none.
* `AlertBus!BusFairness`: weak fairness of the dispatching task, and of the end of
  a post, which has a timeout of ten seconds.

## 6. Proofs

All for every value of the constants, under the named ASSUMEs of the modules.

* **`TypeCorrect`** (`TradingCoreProofs`): `Spec => []TypeOK`. TypeOK is inductive:
  it includes that an awaited order and every snapshot refer to rows that exist.
  The module's first part gives the types and domains of each journal operation.
* **`CapsHold`**, **`StrategyCapHolds`**, **`NoDuplicateHolds`**: concurrent cap,
  per-strategy cap, dedup. The argument is `JournalStep`: a step either appends one
  row that `Approves` let through, or keeps ids, strategies and markets and opens no
  row (nothing ever becomes `pending` again). The open rows therefore only shrink
  except at an entry, where check_trade has just counted them; the lemmas count with
  `FiniteSetTheorems`. This is why stale snapshots cannot break these caps although
  they break the market ceiling: they write sizes, never openness.
* **`HaltHolds`**: no entry on a day on which the process's breaker tripped, through
  restarts (which forget the trip and the history with it) and without `trip()`
  (which nothing calls). HaltedDayAdmitsNothing is not inductive; `TripRemembered`
  ties history to memory: if the halt was today, the anchor is today and the flag
  is up.
* **`CeilingHolds`**: the market ceiling, from the types and `OrdersInv`: the row an
  order is awaited for has the size that was asked for, and no two orders share a
  row. So a fill only lowers it, and what check_trade summed at an entry stays a
  bound. Sums over sets of rows are handled by `SumTheorems`, which proves by induction on
  subsets that a sum is the sum of its parts, is monotone, and changes by the change
  of one row. The hypothesis `NoLiveStop` (no stop-loss, or nothing live) is needed:
  a live pass writes the remainder of the size asked for over a fill.
* **`SettledOnceHolds`**, an action property: no step changes the outcome of a closed
  row. `WatchInv` says of all that tasks hold on to over an await that it is still to
  be done, or was done by another reviewer with the same outcome. The hypothesis
  `Careful` adds to `NoLiveStop` that no market becomes final while a task handles
  one of its rows (`"fast_final"`); otherwise a row settles and is then voided.
  **`DailyCapHolds`** rests on it: a voided row gives back its slot of the day and
  must not come back.
* **`AccountHolds`**: `Holding` is the property without its exception: outside final
  markets the rows, each counted for what its order has filled so far (`Held`), add
  up to the account, also while orders are awaited. `Answering` excludes lost
  replies, restarts of a live process and live stop-loss passes, each of which leaves
  a row that says something else. Stale settlements are allowed.
* **`DailyLossHolds`**: `Margin`, the inductive form, says the bound holds even if all
  that is open were lost: an entry is let through only while the day is short of the
  limit, the cap on open rows (`OpenCaps`) bounds what is open by then, and a
  settlement turns exposure into at most that loss. With two reviewers it is false
  at midnight: a row settled before it by one is settled again after it by the
  other and counts on the new day, which is why `OneReviewer` is a hypothesis.
* **`OneOrderOnly`, `CostWithinApproval`, `OrderTypeCorrect`,
  `ImplementsSubmission`** (`KalshiOrderProofs`): the invariant `OrderInv` says
  every request carries the one id, the terms fit the approval (two arithmetic
  lemmas about rounding), an answer on its way speaks truly of Kalshi's order,
  and the row is untouched until `submit` returns. With it every step of
  `KalshiOrder` is a step or a stutter of `Submission`.
* **`OpenRungsHold`, `ClimbHolds`, `LadderTypeCorrect`** (`LadderProofs`): the first
  two speak of rows while a scan looks at `fired`; `OpenInv` and `ClimbInv` tie
  them, and say that the queue already agrees with the rows, which is what a restart
  between scan and submission needs. That `"partial_fetch"` is excluded is
  necessary: TLC finds an open rung bought twice with it.
* **`RowFollowsAccount`, `NeverSoldShort`** (`PositionProofs`): `HoldingAgrees`
  speaks of moments when nothing is under way; `HoldingInv` says in every phase by
  how much the account is ahead of the row (`Entering`, `Selling`) and that a sell
  knows the row as it is. It holds as long as no answer is lost and no pass acts on
  an undecided entry, and both provisos are necessary.
* **`TranchesAlwaysBounded`** (`PositionProofs`): `TrancheInv` counts what was sent
  at most: all attempts of the tranches heard of, and those of the one under way.
  What is held and rests is within that, and that is within max_order_retries times
  the tranches.
* **`ProfitIsCash`** (`PositionProofs`): `BookInv` accounts for every cent in every phase: an open
  row has cost its lots and banked its exits in part (`Booked`), the rest of the cash
  is what a sell brought that is not booked yet or what the market paid; a reviewer
  holds the row as it is (`Viewed`).
* **`ScanPacedHolds`, `RunScannedHolds`** (`WeatherProofs`): `Paced` orders the times: the
  runs that caused a scan ≤ the run remembered ≤ the last scan begun ≤ now, and on
  Kalshi its stamp too; and the last scan that did not raise ≤ the stamp, on which
  the claim rests: an early scan is not due by the interval, so it is for a run later
  than that stamp and than every run that caused one before. **`TypeCorrect`** there needs that only fetches of the scan
  under way are awaited, and one per source (`Fetches`).
* **`PortfolioBelowOneHolds`** (`WeatherProofs`): `Priced` says that what a scan has
  found comes from readable markets of the board, one signal to a ticker, each with
  the price and the chance the code gave it and an edge above nothing; it needs
  `Waiting`: the markets still to be priced are readable, each ticker once
  (`ListedReadable`, through the pages, the tags and both deduplications), and none
  has a signal yet. A market then stands for an interval of the mixture (`From`,
  `Upto`), which rises (`BelowRises`), so markets that exclude each other have
  intervals that do not overlap (`SharesApart`), and their lengths add up to the
  whole at most (`SumApart`). A price is below the worth of its interval
  (`SignalCheap`), so all prices together are below the dollar. The hypothesis
  `Exclusive` is the exchange's promise that no reading pays two markets of a board,
  put in terms of the questions and not of how the scanner reads them.
* **`HindsightNeverPaysHolds`** (`WeatherProofs`): the bucket the exchange paid is
  closed at a dollar (`ClosedBucket`), and no mixture has an edge against a dollar
  (`NothingAtADollar`), as a chance is at most the whole (`BelowRises`) and a floor is
  more than nothing. Two trades won by the same measurement are of one bucket
  (`OneBucketPays`), which is `Exclusive` again; `MCWeather` assumes it of its boards.
  The theorem quantifies over the archives' answers, so nothing is assumed of them but
  that a reading is a whole number (`ReplayAssumption`).
* **`NoneIsSkipped`, `QuietWhenClosed`** (`SummaryProofs`): the stretches that
  summaries cover join up, because a summary begins where the last one did
  (`Resumes`), lists everything between that and its reading (`Reads`), and a later
  close lies past every reading (`Past`).
  **`TypeCorrect`** (`BusInv`): the queue stays within its size and only events enter it.
* **`ReportIsConsistent`, `WalkCovers`** (`ReportsProofs`): in each view the settled
  rows are selected before the pending ones, and no write unsettles a row
  (`SettledStays`), so what was shown settled is open in nothing selected later. What
  was counted and is in none of the lists so far is still open, voided, or settled
  since the window began, and the window's SELECT finds it. For
  the pages, `Walking`: whoever is newer than the rows the offset leaves has been met;
  a row entered meanwhile pushes rows to later pages, never past the offset.
* **`NumbersAgree`** (`ReportsProofs`): `Books` says that a row's stamps are
  moments of the past and that one that is open or was voided carries no P&L, which is
  why readers that select by different columns realize the same sums. The breakdown of the API groups them
  (`SumOverGroups`). The equity curve is a walk: by induction on the row it stands at,
  its level is the sum so far, its peak the highest level and its drawdown the worst
  fall from one level to a later one.

The strengthened invariants of the money (`CeilingInv` to `LossInv`, `BookInv`,
`Books`), the scans (`Priced`, `Waiting`) and the pages were checked by TLC on the small instances before they were proved.

Only model-checked: liveness (`LossHalts`, `FinalIsSettled`, `SubmissionEnds`,
`ShortStopsTrading`, `AmpleResumes`, `StallNoticed`, `QueuedIsTaken`), since fairness
and ENABLED are beyond the prover; and `Health!TypeOK`, whose error log is cut with
SelectSeq, of which the library proves nothing. The loops over a listing are a
recursive function (`Kept`) instead, about which `KeptStood` is proved by induction.
No module uses a RECURSIVE operator.

## 7. Not modelled, and the plan

Not modelled because there is nothing to check: wording of alerts and reports,
one-off scripts, deployment, the arbitrage and whale scaffolds, the strategy base
class, RSA signing, station tables, the terminal dashboard; the market cache, whose
lock is never held across an await and whose only readers are the scaffolds.

Not modelled though there is something: the rate limiter under the
forecast fetches (it only delays them), the calibration job and its table, the
weekly review, the bankroll provider, several events in one weather scan and
Celsius cities, the backtest's cache and statistics.

Next, in this order:

1. Proofs: the types of `Health`, and what its counters say of the pause; the caps of
   `TradingCore` with live stop-loss passes, for the markets in which no order is
   awaited when a pass begins.
2. A composition of `Health` with `TradingCore`, so that a pause and a halt meet in
   one loop, and of the breaker with `AlertBus`.
