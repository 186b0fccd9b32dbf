---------------------------- MODULE RiskManager ----------------------------
(***************************************************************************)
(* The pre-trade gate and the daily-loss circuit breaker (core/risk.py).   *)
(* RiskManager holds its lock through every method, so each method is one  *)
(* operator over the journal's rows, the UTC day and the manager's own     *)
(* memory, the record [anchor, tripped, warned].                           *)
(*                                                                         *)
(* Abstractions: a stake is what kelly_size() or the strategy's hint asks  *)
(* for, in whole dollars; the volume tier of a market is fixed, so         *)
(* cap_for_volume() is a function of the market; a signal's edge is only   *)
(* compared with min_edge_pct, so check_trade gets the verdict.            *)
(***************************************************************************)
EXTENDS Journal

CONSTANTS
  ExchangeLive,             \* execution mode of the exchange: TRUE = live
  DedupStrategies,          \* strategies s with dedup_for(s)
  MaxConcurrentPositions,
  MaxConcurrentPerStrategy, \* 0 = off
  MaxDailyPositions,
  MaxDailyLoss,             \* abs(max_daily_loss_usd)
  MaxPosition,              \* max_position_usd
  MinPosition,              \* min_position_usd
  TierCap,                  \* [Markets -> Nat], max_position_usd of its tier
  MaxMarketExposure,        \* 0 = off
  Category,                 \* [Markets -> categories]; NoCategory = none given
  NoCategory,
  MaxCategoryPct            \* 100 * max_category_exposure_pct

ASSUME LimitAssumption ==
  /\ ExchangeLive \in BOOLEAN
  /\ DedupStrategies \subseteq Strategies
  /\ MaxConcurrentPositions \in Nat
  /\ MaxConcurrentPerStrategy \in Nat
  /\ MaxDailyPositions \in Nat
  /\ MaxDailyLoss \in Nat
  /\ MaxPosition \in Nat
  /\ MinPosition \in Nat
  /\ TierCap \in [Markets -> Nat]
  /\ MaxMarketExposure \in Nat
  /\ MaxCategoryPct \in Nat

\* main.py builds the manager with is_paper = "all exchanges are in paper
\* mode"; here there is one exchange.
IsPaper == ~ExchangeLive

Breaker == [anchor : Nat, tripped : BOOLEAN, warned : BOOLEAN]

NewBreaker(day) == [anchor |-> day, tripped |-> FALSE, warned |-> FALSE]

\* _maybe_roll_day: lazy, on the first call of the new day.
Rolled(breaker, day) ==
  IF breaker.anchor # day THEN NewBreaker(day) ELSE breaker

Smaller(a, b) == IF a <= b THEN a ELSE b

LossLimitHit(rows, day) == RealizedPnlSince(rows, day) <= -MaxDailyLoss

HalfLossHit(rows, day) ==
  /\ 2 * RealizedPnlSince(rows, day) <= -MaxDailyLoss
  /\ ~LossLimitHit(rows, day)

\* Mutation: trips only beyond the limit.
EvaluatedStrictly(breaker, rows, day) ==
  [breaker EXCEPT !.warned  = @ \/ HalfLossHit(rows, day),
                  !.tripped = @ \/ RealizedPnlSince(rows, day) < -MaxDailyLoss]

\* The state evaluate_circuit_breaker leaves, given the rolled memory.
Evaluated(breaker, rows, day) ==
  [breaker EXCEPT !.warned  = @ \/ HalfLossHit(rows, day),
                  !.tripped = @ \/ LossLimitHit(rows, day)]

-----------------------------------------------------------------------------
(* check_trade, in the order of its early returns *)

\* Mutations: only the memory, or only the journal, is asked.
StopsOnceTripped(breaker, rows, day) == ~IsPaper /\ breaker.tripped
StopsWhileLosing(breaker, rows, day) == ~IsPaper /\ LossLimitHit(rows, day)

\* Reached with the memory rolled and a sufficient edge.
BreakerStops(breaker, rows, day) ==
  /\ ~IsPaper
  /\ breaker.tripped \/ LossLimitHit(rows, day)

\* Mutation: closed positions do not count.
DailyFullOfOpen(rows, day) == Cardinality(OpenIds(rows)) >= MaxDailyPositions

DailyFull(rows, day) == Cardinality(EntriesSince(rows, day)) >= MaxDailyPositions

\* Mutation: paper rows are not looked at.
LiveDuplicates(rows, strategy, market) ==
  /\ strategy \in DedupStrategies
  /\ \E id \in StrategyOpenIds(rows, strategy) :
        rows[id].market = market /\ rows[id].mode = "live"

Duplicates(rows, strategy, market) ==
  /\ strategy \in DedupStrategies
  /\ \E id \in StrategyOpenIds(rows, strategy) : rows[id].market = market

\* Mutation: one position too many.
ConcurrentFullLate(rows) == Cardinality(OpenIds(rows)) > MaxConcurrentPositions

ConcurrentFull(rows) == Cardinality(OpenIds(rows)) >= MaxConcurrentPositions

\* Mutation: one position too many.
StrategyFullLate(rows, strategy) ==
  /\ MaxConcurrentPerStrategy > 0
  /\ Cardinality(StrategyOpenIds(rows, strategy)) > MaxConcurrentPerStrategy

StrategyFull(rows, strategy) ==
  /\ MaxConcurrentPerStrategy > 0
  /\ Cardinality(StrategyOpenIds(rows, strategy)) >= MaxConcurrentPerStrategy

CappedStake(market, stake) ==
  Smaller(stake, Smaller(TierCap[market], MaxPosition))

\* Mutation: not clamped into the headroom.
UnclampedSize(rows, market, stake) == CappedStake(market, stake)

\* Clamped into the market's headroom; not positive when there is none.
ApprovedSize(rows, market, stake) ==
  IF MaxMarketExposure > 0
  THEN Smaller(CappedStake(market, stake),
               MaxMarketExposure - MarketExposure(rows, market))
  ELSE CappedStake(market, stake)

CategoryFull(rows, market, size) ==
  LET inCategory == {id \in DOMAIN rows :
                       Category[rows[id].market] = Category[market]}
      total == ExposureOf(rows, DOMAIN rows) + size
  IN  /\ Category[market] # NoCategory
      /\ 100 * (ExposureOf(rows, inCategory) + size) > MaxCategoryPct * total

\* The trade is approved with this size.
Approves(breaker, rows, day, strategy, market, stake, size) ==
  /\ ~BreakerStops(breaker, rows, day)
  /\ ~DailyFull(rows, day)
  /\ ~Duplicates(rows, strategy, market)
  /\ ~ConcurrentFull(rows)
  /\ ~StrategyFull(rows, strategy)
  /\ size = ApprovedSize(rows, market, stake)
  /\ size > 0
  /\ size >= MinPosition
  /\ ~CategoryFull(rows, market, size)

\* What check_trade leaves in memory when it gets past the edge check.
Checked(breaker, rows, day) ==
  [breaker EXCEPT !.tripped = @ \/ (~IsPaper /\ LossLimitHit(rows, day))]

=============================================================================
