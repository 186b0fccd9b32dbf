---------------------------- MODULE TradingCore ----------------------------
(***************************************************************************)
(* The tasks of main.py that share the trade journal, on one exchange:     *)
(* one strategy_loop per strategy submitting through the Executor, the     *)
(* risk monitor, the stop-loss loop, and the tasks that run the reviewer's *)
(* check_resolutions (its own loop and the daily summary).                 *)
(*                                                                         *)
(* The tasks are coroutines of one event loop: whatever runs between two   *)
(* awaits is one action.  check_trade and record_entry have no await       *)
(* between them and are one action; an order, a book or a market lookup is *)
(* awaited, and what was read before the await is used after it.           *)
(*                                                                         *)
(* Abstractions: money is counted at cost in whole dollars, and `account'  *)
(* is what the exchange really holds for us in each market, at cost; a     *)
(* winning dollar pays WinGain.                                            *)
(***************************************************************************)
EXTENDS RiskManager

CONSTANTS
  LiveStrategies,  \* strategies whose trades go live (is_paper_for_strategy)
  Reviewers,       \* tasks that call check_resolutions
  StopLossRuns,    \* TRUE when the stop-loss loop is scheduled
  Disturbances,    \* what may go wrong, see below
  Stakes,          \* sizes a strategy may ask for
  WinGain,         \* profit on a dollar staked at the entry price
  MaxShort,        \* how far below zero the exchange lets asks take us
  MaxRows, MaxDay  \* bounds: rows in the journal, days

\* "restart"      the process is killed and started again
\* "lost_reply"   an order lands but the executor or stop-loss never hears
\* "fast_final"   a market may become final while an order on it or a pass
\*                over it is still under way
\* "manual_trip"  RiskManager.trip(), which nothing in the repository calls
DisturbanceKinds ==
  {"restart", "lost_reply", "fast_final", "manual_trip"}

ASSUME CoreAssumption ==
  /\ LiveStrategies \subseteq Strategies
  /\ IsPaper => LiveStrategies = {}
  /\ StopLossRuns \in BOOLEAN
  /\ Disturbances \subseteq DisturbanceKinds
  /\ Stakes \subseteq Nat
  /\ WinGain \in Nat
  /\ MaxShort \in Nat
  /\ MaxRows \in Nat
  /\ MaxDay \in Nat \ {0}

VARIABLES
  rows,        \* the journal
  today,       \* the UTC day
  breaker,     \* RiskManager's memory
  submitting,  \* [Strategies -> Order]: the order each loop is awaiting
  account,     \* [Markets -> Int]: what the exchange holds for us, at cost
  market,      \* [Markets -> MarketState]
  stopView,    \* id -> size: what is left of the stop-loss pass's snapshot
  reviewView,  \* [Reviewers -> (id -> [size, partial])]: their snapshots
  haltDay      \* history: the last day the breaker tripped in this process

vars == <<rows, today, breaker, submitting, account, market, stopView,
          reviewView, haltDay>>

\* id 0 = none under way; `filled' is what the exchange filled so far.
Order  == [id : Nat, size : Nat, filled : Nat]
NoOrder == [id |-> 0, size |-> 0, filled |-> 0]
Empty  == [id \in {} |-> 0]
MarketState == {"open", "closed", "yes", "no"}

Mode(strategy) == IF strategy \in LiveStrategies THEN "live" ELSE "paper"
Final(m) == market[m] \in {"yes", "no"}
Busy(strategy) == submitting[strategy] # NoOrder

\* Ids of the rows of market m that some task is in the middle of handling.
HandledIds ==
  {submitting[s].id : s \in Strategies} \cup DOMAIN stopView
    \cup UNION {DOMAIN reviewView[r] : r \in Reviewers}

Handled(m) == \E id \in HandledIds \cap DOMAIN rows : rows[id].market = m

Init ==
  /\ rows = << >>
  /\ today = 1
  /\ breaker = NewBreaker(1)
  /\ submitting = [s \in Strategies |-> NoOrder]
  /\ account = [m \in Markets |-> 0]
  /\ market = [m \in Markets |-> "open"]
  /\ stopView = Empty
  /\ reviewView = [r \in Reviewers |-> Empty]
  /\ haltDay = 0

-----------------------------------------------------------------------------
(* The risk manager *)

\* strategy_loop asks is_halted before each scan: it only rolls the day.
PollHalted ==
  /\ ~IsPaper
  /\ breaker.anchor # today
  /\ breaker' = Rolled(breaker, today)
  /\ UNCHANGED <<rows, today, submitting, account, market, stopView,
                 reviewView, haltDay>>

\* risk_monitor_loop: evaluate_circuit_breaker.
EvaluateBreaker ==
  LET rolled == Rolled(breaker, today)
  IN  /\ ~IsPaper
      /\ breaker' = Evaluated(rolled, rows, today)
      /\ haltDay' = IF breaker'.tripped /\ ~rolled.tripped THEN today ELSE haltDay
      /\ UNCHANGED <<rows, today, submitting, account, market, stopView,
                     reviewView>>

Trip ==
  /\ "manual_trip" \in Disturbances
  /\ ~IsPaper
  /\ breaker' = [breaker EXCEPT !.tripped = TRUE]
  /\ haltDay' = today
  /\ UNCHANGED <<rows, today, submitting, account, market, stopView,
                 reviewView>>

-----------------------------------------------------------------------------
(* Executor.submit *)

\* check_trade says no.  A loss at the limit trips the breaker on the way,
\* unless the edge is too small to get that far (or it had tripped already).
Refuse(strategy, m, stake, edgeOk) ==
  LET rolled == Rolled(breaker, today)
      after  == IF edgeOk THEN Checked(rolled, rows, today) ELSE rolled
  IN  /\ ~Busy(strategy)
      /\ market[m] = "open"
      /\ edgeOk => ~\E size \in 1..MaxPosition :
                      Approves(rolled, rows, today, strategy, m, stake, size)
      /\ breaker' = after
      /\ haltDay' = IF after.tripped /\ ~rolled.tripped THEN today ELSE haltDay
      /\ UNCHANGED <<rows, today, submitting, account, market, stopView,
                     reviewView>>

\* check_trade approves `size' and record_entry writes the row.  A paper
\* trade is done; a live one goes on to await the exchange.
Enter(strategy, m, stake, size) ==
  LET rolled == Rolled(breaker, today)
      mode   == Mode(strategy)
  IN  /\ ~Busy(strategy)
      /\ market[m] = "open"
      /\ Len(rows) < MaxRows
      /\ Approves(rolled, rows, today, strategy, m, stake, size)
      /\ breaker' = rolled
      /\ rows' = RecordEntry(rows, strategy, m, mode, today, size)
      /\ submitting' = IF mode = "live"
                       THEN [submitting EXCEPT ![strategy] =
                               [id |-> Len(rows) + 1, size |-> size, filled |-> 0]]
                       ELSE submitting
      /\ UNCHANGED <<today, account, market, stopView, reviewView, haltDay>>

\* The exchange fills part or all of the order; at most once.
OrderFills(strategy, filled) ==
  LET order == submitting[strategy]
      m     == rows[order.id].market
  IN  /\ Busy(strategy)
      /\ order.filled = 0
      /\ filled <= order.size
      /\ market[m] = "open"
      /\ submitting' = [submitting EXCEPT ![strategy].filled = filled]
      /\ account' = [account EXCEPT ![m] = @ + filled]
      /\ UNCHANGED <<rows, today, breaker, market, stopView, reviewView,
                     haltDay>>

\* A reply ends the submission and rewrites the row.
Answered(strategy, newRows) ==
  /\ rows' = newRows
  /\ submitting' = [submitting EXCEPT ![strategy] = NoOrder]
  /\ UNCHANGED <<today, breaker, account, market, stopView, reviewView,
                 haltDay>>

\* The fill is reported: true up the row to what was filled.
Reconcile(strategy) ==
  /\ Busy(strategy)
  /\ submitting[strategy].filled > 0
  /\ Answered(strategy, UpdateEntryFill(rows, submitting[strategy].id,
                                        submitting[strategy].filled))

\* Unfilled, stale quote, insufficient funds or an error: void the row.  The
\* executor cannot tell an order that failed from one whose reply was lost.
Void(strategy) ==
  /\ Busy(strategy)
  /\ submitting[strategy].filled > 0 => "lost_reply" \in Disturbances
  /\ Answered(strategy, VoidEntry(rows, submitting[strategy].id))

\* A retry with the same client_order_id finds the order already there, filled
\* or not: the row is kept as it is, at the size that was asked for.
KeepDuplicate(strategy) ==
  /\ Busy(strategy)
  /\ "lost_reply" \in Disturbances
  /\ Answered(strategy, rows)

-----------------------------------------------------------------------------
(* StopLossManager.check_and_execute *)

\* Open positions whose market has not ended, with the size they have now.
StopSnapshot ==
  /\ StopLossRuns
  /\ stopView = Empty
  /\ stopView' = [id \in {i \in OpenIds(rows) : market[rows[i].market] = "open"}
                    |-> rows[id].size]
  /\ UNCHANGED <<rows, today, breaker, submitting, account, market,
                 reviewView, haltDay>>

\* Candidates are handled in the order of their ids.
StopTurn(id) == id \in DOMAIN stopView /\ \A other \in DOMAIN stopView : id <= other

StopDone(id) ==
  /\ stopView' = [other \in DOMAIN stopView \ {id} |-> stopView[other]]
  /\ UNCHANGED <<today, breaker, submitting, market, reviewView, haltDay>>

\* Above the trigger, no mark, dust, unfilled, or the sell raised.
StopSkip(id) ==
  /\ StopTurn(id)
  /\ StopDone(id)
  /\ UNCHANGED <<rows, account>>

\* Paper exchange: booked at the mark, no await since the marks came in.
StopPaper(id, loss) ==
  /\ IsPaper
  /\ StopTurn(id)
  /\ loss <= stopView[id]
  /\ rows' = RecordExit(rows, id, "lost", -loss)
  /\ StopDone(id)
  /\ UNCHANGED account

\* Live exchange: an IOC ask for the size in the snapshot fills `sold' of it.
\* Whether the row is a paper trade is not looked at.
AskFills(id, sold) ==
  LET m == rows[id].market
  IN  /\ ~IsPaper
      /\ StopTurn(id)
      /\ market[m] = "open"
      /\ sold <= stopView[id]
      /\ sold <= account[m] + MaxShort
      /\ account' = [account EXCEPT ![m] = @ - sold]

StopSold(id, sold, loss) ==
  /\ AskFills(id, sold)
  /\ sold = stopView[id]
  /\ loss <= sold
  /\ rows' = RecordExit(rows, id, "lost", -loss)
  /\ StopDone(id)

StopPartial(id, sold, loss) ==
  /\ AskFills(id, sold)
  /\ sold < stopView[id]
  /\ loss <= sold
  /\ rows' = ApplyPartialExit(rows, id, stopView[id] - sold, -loss)
  /\ StopDone(id)

\* The ask filled, the call raised: logged, and the row stays as it is.
StopReplyLost(id, sold) ==
  /\ "lost_reply" \in Disturbances
  /\ AskFills(id, sold)
  /\ StopDone(id)
  /\ UNCHANGED rows

-----------------------------------------------------------------------------
(* Reviewer.check_resolutions *)

\* Mutation: closed rows are read as well.
ReviewSnapshotOfAll(r) ==
  /\ reviewView[r] = Empty
  /\ rows # << >>
  /\ reviewView' = [reviewView EXCEPT ![r] =
       [id \in DOMAIN rows |-> [size    |-> rows[id].size,
                                partial |-> rows[id].partial]]]
  /\ UNCHANGED <<rows, today, breaker, submitting, account, market, stopView,
                 haltDay>>

ReviewSnapshot(r) ==
  /\ reviewView[r] = Empty
  /\ OpenIds(rows) # {}
  /\ reviewView' = [reviewView EXCEPT ![r] =
       [id \in OpenIds(rows) |-> [size    |-> rows[id].size,
                                  partial |-> rows[id].partial]]]
  /\ UNCHANGED <<rows, today, breaker, submitting, account, market, stopView,
                 haltDay>>

\* _compute_pnl, on the row as it was in the snapshot
SettlementPnl(seen, result) ==
  seen.partial + (IF result = "yes" THEN WinGain * seen.size ELSE -seen.size)

\* Mutation: rows of a market that resolved NO are passed over.
SettleWins(r, found) ==
  LET view == reviewView[r]
  IN  /\ view # Empty
      /\ \A m \in found : Final(m)
      /\ rows' = [id \in DOMAIN rows |->
           IF id \in DOMAIN view /\ rows[id].market \in {m \in found : market[m] = "yes"}
           THEN RecordResolution(rows, id, "won", SettlementPnl(view[id], "yes"),
                                 view[id].partial, today)[id]
           ELSE rows[id]]
      /\ reviewView' = [reviewView EXCEPT ![r] = Empty]
      /\ UNCHANGED <<today, breaker, submitting, account, market, stopView,
                     haltDay>>

\* After every market was looked up, the rows of those found final are
\* written without an await in between, from the snapshot.
Settle(r, found) ==
  LET view    == reviewView[r]
      settled == {id \in DOMAIN view : rows[id].market \in found}
      Write(id) ==
        LET result == market[rows[id].market]
        IN  RecordResolution(rows, id, IF result = "yes" THEN "won" ELSE "lost",
                             SettlementPnl(view[id], result),
                             view[id].partial, today)[id]
  IN  /\ view # Empty
      /\ \A m \in found : Final(m)
      /\ rows' = [id \in DOMAIN rows |-> IF id \in settled THEN Write(id)
                                                           ELSE rows[id]]
      /\ reviewView' = [reviewView EXCEPT ![r] = Empty]
      /\ UNCHANGED <<today, breaker, submitting, account, market, stopView,
                     haltDay>>

-----------------------------------------------------------------------------
(* The world *)

NewDay ==
  /\ today < MaxDay
  /\ today' = today + 1
  /\ UNCHANGED <<rows, breaker, submitting, account, market, stopView,
                 reviewView, haltDay>>

CloseMarket(m) ==
  /\ market[m] = "open"
  /\ market' = [market EXCEPT ![m] = "closed"]
  /\ UNCHANGED <<rows, today, breaker, submitting, account, stopView,
                 reviewView, haltDay>>

\* The exchange publishes the result and pays out.
Finalize(m, result) ==
  /\ market[m] = "closed"
  /\ Handled(m) => "fast_final" \in Disturbances
  /\ market' = [market EXCEPT ![m] = result]
  /\ account' = [account EXCEPT ![m] = 0]
  /\ UNCHANGED <<rows, today, breaker, submitting, stopView, reviewView,
                 haltDay>>

\* Only the journal, and the account, survive.
Restart ==
  /\ "restart" \in Disturbances
  /\ haltDay' = 0
  /\ breaker' = NewBreaker(today)
  /\ submitting' = [s \in Strategies |-> NoOrder]
  /\ stopView' = Empty
  /\ reviewView' = [r \in Reviewers |-> Empty]
  /\ UNCHANGED <<rows, today, account, market>>

-----------------------------------------------------------------------------
(* Specification *)

Amounts == 1..MaxPosition

StrategyLoop(s) ==
  \/ \E m \in Markets, stake \in Stakes :
        \/ \E edgeOk \in BOOLEAN : Refuse(s, m, stake, edgeOk)
        \/ \E size \in Amounts : Enter(s, m, stake, size)
  \/ \E filled \in Amounts : OrderFills(s, filled)
  \/ Reconcile(s)
  \/ Void(s)
  \/ KeepDuplicate(s)

StopLossLoop ==
  \/ StopSnapshot
  \/ \E id \in DOMAIN stopView :
        \/ StopSkip(id)
        \/ \E loss \in Amounts : StopPaper(id, loss)
        \/ \E sold \in Amounts : \/ StopReplyLost(id, sold)
                                \/ \E loss \in Amounts : \/ StopSold(id, sold, loss)
                                                        \/ StopPartial(id, sold, loss)

ReviewTask(r) ==
  \/ ReviewSnapshot(r)
  \/ \E found \in SUBSET Markets : Settle(r, found)

World ==
  \/ NewDay
  \/ \E m \in Markets : \/ CloseMarket(m)
                       \/ \E result \in {"yes", "no"} : Finalize(m, result)
  \/ Restart

Next ==
  \/ PollHalted
  \/ EvaluateBreaker
  \/ Trip
  \/ \E s \in Strategies : StrategyLoop(s)
  \/ StopLossLoop
  \/ \E r \in Reviewers : ReviewTask(r)
  \/ World

Spec == Init /\ [][Next]_vars

\* The monitor and the review tasks are timer loops that survive exceptions;
\* a pass may be cut by a restart or fail to look a market up, but one that
\* finds every final market keeps being possible and is not avoided forever.
SettleAll(r) == Settle(r, {m \in Markets : Final(m)})

Fairness ==
  /\ WF_vars(EvaluateBreaker)
  /\ \A r \in Reviewers : WF_vars(ReviewSnapshot(r)) /\ SF_vars(SettleAll(r))

FairSpec == Spec /\ Fairness

-----------------------------------------------------------------------------
(* Properties *)

Claims == [size : Nat, partial : Int]

\* Type invariant: the journal holds rows of the schema and every pending
\* reference (an awaited order, a snapshot) is to a row that exists.
TypeOK ==
  /\ rows \in Seq(Row)
  /\ today \in Nat
  /\ breaker \in Breaker
  /\ submitting \in [Strategies -> Order]
  /\ \A s \in Strategies : Busy(s) => submitting[s].id \in DOMAIN rows
  /\ account \in [Markets -> Int]
  /\ market \in [Markets -> MarketState]
  /\ DOMAIN stopView \subseteq DOMAIN rows
  /\ stopView \in [DOMAIN stopView -> Nat]
  /\ reviewView = [r \in Reviewers |-> reviewView[r]]
  /\ \A r \in Reviewers : /\ DOMAIN reviewView[r] \subseteq DOMAIN rows
                          /\ reviewView[r] \in [DOMAIN reviewView[r] -> Claims]
  /\ haltDay \in Nat

\* max_concurrent_positions (risk.py:360): never more open rows than the cap,
\* whatever the other tasks do to the journal between two checks.
ConcurrentCap == Cardinality(OpenIds(rows)) <= MaxConcurrentPositions

\* The per-strategy cap (risk.py:366), when it is on.
StrategyCap ==
  MaxConcurrentPerStrategy > 0 =>
    \A s \in Strategies :
      Cardinality(StrategyOpenIds(rows, s)) <= MaxConcurrentPerStrategy

\* One-and-done dedup (risk.py:335): a strategy with dedup on never holds two
\* open positions on one market, restarts included.
NoDuplicateHolding ==
  \A i, j \in OpenIds(rows) :
    /\ rows[i].strategy \in DedupStrategies
    /\ rows[i].strategy = rows[j].strategy
    /\ rows[i].market = rows[j].market
    => i = j

\* max_daily_positions (risk.py:324): a day never counts more positions than
\* the cap, although voided rows give their slot back.
DailyEntriesCap ==
  Cardinality(EntriesSince(rows, today)) <= MaxDailyPositions

\* max_market_exposure_usd (risk.py:390): the open rows of a market never add
\* up to more than the ceiling.
MarketExposureCap ==
  MaxMarketExposure > 0 =>
    \A m \in Markets : MarketExposure(rows, m) <= MaxMarketExposure

\* The journal mirrors the account (executor.py:430, logger.py:186): in a
\* market that is not final and has no order awaited, the live open rows add
\* up to what the exchange holds.
AccountAgrees ==
  \A m \in Markets :
    ~Final(m) /\ (\A s \in Strategies : Busy(s) => rows[submitting[s].id].market # m)
    => account[m] = ExposureOf(rows, {id \in DOMAIN rows : rows[id].mode = "live" /\ rows[id].market = m})

\* The breaker bounds the day (risk.py:3): entries stop at the limit, so a
\* day's realized loss exceeds it by at most the book that was open.
DailyLossBounded ==
  ~IsPaper =>
    RealizedPnlSince(rows, today) >
      -(MaxDailyLoss + MaxConcurrentPositions * MaxPosition)

\* A row is closed once: its outcome never changes again.
SettledOnce ==
  [][\A id \in DOMAIN rows :
       rows[id].outcome # "pending" => rows'[id].outcome = rows[id].outcome]_vars

\* Hitting the limit halts ALL trading (config.yaml:34, risk.py:5): a process
\* enters no row on a day on which its breaker tripped, whatever a settlement
\* or a late exit does to the day's sum afterwards.
HaltedDayAdmitsNothing ==
  [][Len(rows') > Len(rows) => haltDay # today]_vars

\* realized_pnl_since sums the trades RESOLVED since (logger.py:262): a row
\* that closes counts towards the day on which it closes.
ExitsCountToday ==
  [][\A id \in DOMAIN rows :
       /\ rows[id].outcome = "pending"
       /\ rows'[id].outcome \in {"won", "lost"}
       => ResolvedDay(rows'[id]) = today]_vars

\* A trade off the live allowlist stays paper (executor.py:117): no step that
\* writes a paper row moves the account.
PaperStaysOffExchange ==
  [][\A id \in DOMAIN rows :
       rows'[id] # rows[id] /\ account' # account => rows[id].mode = "live"]_vars

\* A lasting loss at the limit halts trading (risk.py:215), and does so again
\* after a restart has wiped the manager's memory.
LossHalts ==
  ~IsPaper => (<>[]LossLimitHit(rows, today) => []<>(breaker.tripped))

\* A position in a final market does not stay open (reviewer.py:158).
FinalIsSettled ==
  \A id \in 1..MaxRows :
    (id \in OpenIds(rows) /\ Final(rows[id].market)) ~> id \notin OpenIds(rows)

=============================================================================
