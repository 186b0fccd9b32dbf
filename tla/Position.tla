------------------------------ MODULE Position ------------------------------
(***************************************************************************)
(* One live position from its entry to its close, in lots and cents: the   *)
(* entry's fill (Executor.submit), the stop-loss's marks and sells         *)
(* (core/stop_loss.py), and settlement (Reviewer._compute_pnl), next to    *)
(* what the exchange really did.                                           *)
(*                                                                         *)
(* On Kalshi every order is immediate-or-cancel and answered with its      *)
(* fill; on Polymarket the entry is posted in tranches of resting orders,  *)
(* each retried on any error, and a sell is posted and taken for done.     *)
(* TradingCore has the journal's many rows and the caps; KalshiOrder has   *)
(* the retries of a Kalshi order.                                          *)
(***************************************************************************)
EXTENDS Integers

CONSTANTS
  Exchanges,       \* subset of {"kalshi", "polymarket"}
  Asked,           \* lots the approved size buys at the signal's price
  SignalPrice,     \* cents
  FillPrices,      \* average prices the exchange may report
  Bids,            \* best bids a pass may find, 0 = none
  StopPct,         \* stop_loss_pct, per cent
  Tranches,        \* staged_tranches
  OffsetPct,       \* limit_offset_pct, per cent
  MaxOrderRetries  \* max_order_retries

ASSUME PositionAssumption ==
  /\ Exchanges \subseteq {"kalshi", "polymarket"}
  /\ Asked \in Nat \ {0} /\ Tranches \in Nat \ {0} /\ Asked % Tranches = 0
  /\ SignalPrice \in 1..99 /\ FillPrices \subseteq 1..99 /\ Bids \subseteq 0..99
  /\ StopPct \in 0..100 /\ OffsetPct \in 0..100
  /\ MaxOrderRetries \in Nat \ {0}

VARIABLES
  exchange,
  row,      \* the journal's row; `by' is who closed it: "none", "stop", "review",
            \* or "annotated", a stop with its counterfactual `saved'
  entry,    \* the submission: phase "tranche" (Polymarket), or "asked" (the
            \* order is out) and "answered" (Kalshi), then "done"
  stop,     \* the stop-loss pass over this row: phase "idle", "marking",
            \* "asked", "answered", and what it read and was told
  review,   \* the reviewer's snapshot: NoView, or the row it read
  market,   \* "open", "closed", "yes" or "no"
  held,     \* lots the account holds
  resting,  \* lots of our buy orders that wait in Polymarket's book
  cash,     \* cents paid and received on this position
  amiss     \* history: which disturbances this behaviour has seen

vars == <<exchange, row, entry, stop, review, market, held, resting, cash, amiss>>

\* "reply_lost": an order landed, its answer did not; "early_pass": a stop-loss
\* pass read the row while the entry was awaited; "fast_final": the market
\* paid out while an order or a look-up was awaited.
Disturbances == {"reply_lost", "early_pass", "fast_final"}
Seen(d, yes) == amiss' = IF yes THEN amiss \cup {d} ELSE amiss

NoView == [outcome |-> "none"]
NoStop == [phase |-> "idle", shares |-> 0, price |-> 0, mark |-> 0,
           filled |-> 0, avg |-> 0]

PerTranche == Asked \div Tranches
Final == market \in {"yes", "no"}
Pending == row.outcome = "pending"

\* record_entry at the signal's price, and the order goes out.
Init ==
  /\ exchange \in Exchanges
  /\ row = [outcome |-> "pending", price |-> SignalPrice, shares |-> Asked,
            size |-> Asked * SignalPrice, partial |-> 0, pnl |-> 0, by |-> "none",
            saved |-> 0]
  /\ entry = [phase |-> IF exchange = "kalshi" THEN "asked" ELSE "tranche",
              price |-> 0, filled |-> 0, posted |-> 0, attempts |-> 0]
  /\ stop = NoStop
  /\ review = NoView
  /\ market = "open"
  /\ held = 0 /\ resting = 0 /\ cash = 0
  /\ amiss = {}

-----------------------------------------------------------------------------
(* Entry on Kalshi *)

\* What it filled at once; nothing when it found no ask or was refused.
BuyFills(lots, price) ==
  /\ entry.phase = "asked"
  /\ market = "open" \/ lots = 0
  /\ entry' = [entry EXCEPT !.phase = "answered", !.filled = lots, !.price = price]
  /\ held' = held + lots
  /\ cash' = cash - lots * price
  /\ UNCHANGED <<exchange, row, stop, review, market, resting, amiss>>

\* update_entry_fill, or void_entry when nothing filled
EntryAnswered ==
  /\ entry.phase = "answered"
  /\ entry' = [entry EXCEPT !.phase = "done"]
  /\ row' = IF entry.filled = 0
            THEN [row EXCEPT !.outcome = "voided", !.pnl = 0]
            ELSE [row EXCEPT !.price = entry.price, !.shares = entry.filled,
                             !.size = entry.filled * entry.price]
  /\ UNCHANGED <<exchange, stop, review, market, held, resting, cash, amiss>>

-----------------------------------------------------------------------------
(* Entry on Polymarket: _place_live_orders *)

\* The limit is below the signal's price, clamped to the book's range.
BuyLimit ==
  LET offered == (SignalPrice * (100 - OffsetPct)) \div 100
  IN  IF offered < 1 THEN 1 ELSE IF offered > 99 THEN 99 ELSE offered

\* Mutation: a lost answer does not count as an attempt.
PostTrancheAgain(heard) ==
  /\ entry.phase = "tranche"
  /\ market = "open"
  /\ Seen("reply_lost", ~heard)
  /\ resting' = resting + PerTranche
  /\ LET posted == IF heard THEN entry.posted + 1 ELSE entry.posted
     IN  /\ resting < 9 * Asked
         /\ entry' = [entry EXCEPT !.posted = posted,
                                   !.phase = IF posted = Tranches THEN "done" ELSE "tranche"]
         /\ row' = row
  /\ UNCHANGED <<exchange, stop, review, market, held, cash>>

\* A tranche is taken; `heard' tells whether the client learns of it.
PostTranche(heard) ==
  /\ entry.phase = "tranche"
  /\ market = "open"
  /\ Seen("reply_lost", ~heard)
  /\ resting' = resting + PerTranche
  /\ LET posted   == IF heard THEN entry.posted + 1 ELSE entry.posted
         attempts == IF heard THEN 0 ELSE entry.attempts + 1
     IN  /\ entry' = [entry EXCEPT !.posted = posted, !.attempts = attempts,
                                   !.phase = IF posted = Tranches \/ attempts = MaxOrderRetries
                                             THEN "done" ELSE "tranche"]
         /\ row' = IF attempts = MaxOrderRetries
                   THEN [row EXCEPT !.outcome = "voided", !.pnl = 0] ELSE row
  /\ UNCHANGED <<exchange, stop, review, market, held, cash>>

\* An error: retried, and at the last attempt the row is voided, whatever
\* tranches were posted before.
TrancheFails ==
  /\ entry.phase = "tranche"
  /\ LET attempts == entry.attempts + 1
         last     == attempts = MaxOrderRetries
     IN  /\ entry' = [entry EXCEPT !.attempts = attempts,
                                   !.phase = IF last THEN "done" ELSE "tranche"]
         /\ row' = IF last THEN [row EXCEPT !.outcome = "voided", !.pnl = 0] ELSE row
  /\ UNCHANGED <<exchange, stop, review, market, held, resting, cash, amiss>>

\* Resting buys fill at their limit; what is left is cancelled at the close.
RestingFills(lots) ==
  /\ market = "open"
  /\ lots \in 1..resting
  /\ resting' = resting - lots
  /\ held' = held + lots
  /\ cash' = cash - lots * BuyLimit
  /\ UNCHANGED <<exchange, row, entry, stop, review, market, amiss>>

-----------------------------------------------------------------------------
(* StopLossManager *)

\* check_and_execute reads the open rows of markets that have not ended, and
\* asks for their marks.
StopLook ==
  /\ stop = NoStop
  /\ Pending
  /\ market = "open"
  /\ entry.phase = "done" \/ "early_pass" \notin amiss
  /\ Seen("early_pass", entry.phase # "done")
  /\ stop' = [NoStop EXCEPT !.phase = "marking", !.shares = row.shares, !.price = row.price]
  /\ UNCHANGED <<exchange, row, entry, review, market, held, resting, cash>>

Triggers(mark) == 100 * mark <= stop.price * (100 - StopPct)

\* No mark, or a mark above the trigger.
StopPasses(mark) ==
  /\ stop.phase = "marking"
  /\ mark = 0 \/ ~Triggers(mark)
  /\ stop' = NoStop
  /\ UNCHANGED <<exchange, row, entry, review, market, held, resting, cash, amiss>>

\* Mutation: the snapshot's lots are rounded up to even lots.
StopAsksUp(mark) ==
  /\ stop.phase = "marking"
  /\ mark > 0
  /\ Triggers(mark)
  /\ stop' = [stop EXCEPT !.phase = "asked", !.mark = mark, !.shares = @ + (@ % 2)]
  /\ UNCHANGED <<exchange, row, entry, review, market, held, resting, cash, amiss>>

StopAsks(mark) ==
  /\ stop.phase = "marking"
  /\ mark > 0
  /\ Triggers(mark)
  /\ stop' = [stop EXCEPT !.phase = "asked", !.mark = mark]
  /\ UNCHANGED <<exchange, row, entry, review, market, held, resting, cash, amiss>>

\* _place_kalshi_sell: a little below the mark, down to a cent, within range
SellLimit ==
  LET below == (stop.mark * 99) \div 100
  IN  IF below < 1 THEN 1 ELSE IF below > 99 THEN 99 ELSE below

\* Kalshi matches the ask at its limit or better; it may find no bid.  What
\* is asked for is the lots of the snapshot, also when fewer are held.
AskFills(lots, price) ==
  /\ exchange = "kalshi"
  /\ stop.phase = "asked"
  /\ market = "open"
  /\ lots \in 0..stop.shares
  /\ price >= SellLimit
  /\ held' = held - lots
  /\ cash' = cash + lots * price

SellFills(lots, price) ==
  /\ AskFills(lots, price)
  /\ stop' = [stop EXCEPT !.phase = "answered", !.filled = lots, !.avg = price]
  /\ UNCHANGED <<exchange, row, entry, review, market, resting, amiss>>

\* The ask landed, the call raised: the row stays, the next pass sells again.
\* Bounded to one lost answer, as the account has no floor here.
SellReplyLost(lots, price) ==
  /\ "reply_lost" \notin amiss
  /\ AskFills(lots, price)
  /\ stop' = NoStop
  /\ Seen("reply_lost", lots > 0)
  /\ UNCHANGED <<exchange, row, entry, review, market, resting>>

\* An ask that never lands, or on a market that has closed.
SellRaises ==
  /\ stop.phase = "asked"
  /\ stop' = NoStop
  /\ UNCHANGED <<exchange, row, entry, review, market, held, resting, cash, amiss>>

\* record_exit
Exited(pnl) == [row EXCEPT !.outcome = "lost", !.pnl = pnl, !.by = "stop"]

\* Mutation: a partial fill is booked as the whole exit.
SellAnsweredWhole ==
  /\ stop.phase = "answered"
  /\ stop' = NoStop
  /\ row' = IF stop.filled = 0 THEN row
            ELSE Exited((stop.avg - stop.price) * stop.filled)
  /\ UNCHANGED <<exchange, entry, review, market, held, resting, cash, amiss>>

\* Unfilled: the row stays.  In part: it shrinks to the remainder of the
\* snapshot and banks the chunk.  In full: it is closed on the last chunk.
SellAnswered ==
  /\ stop.phase = "answered"
  /\ stop' = NoStop
  /\ LET gain == (stop.avg - stop.price) * stop.filled
         left == stop.shares - stop.filled
     IN  row' = IF stop.filled = 0 THEN row
                ELSE IF left > 0
                THEN [row EXCEPT !.shares = left, !.size = left * stop.price,
                                 !.partial = @ + gain]
                ELSE Exited(gain)
  /\ UNCHANGED <<exchange, entry, review, market, held, resting, cash, amiss>>

\* _place_sell_order: posted at a little below the mark and booked at the
\* mark at once, whatever part of it fills.
StopPolymarket(lots) ==
  /\ exchange = "polymarket"
  /\ stop.phase = "asked"
  /\ market = "open"
  /\ held >= stop.shares
  /\ lots \in 0..stop.shares
  /\ held' = held - lots
  /\ cash' = cash + lots * SellLimit
  /\ stop' = NoStop
  /\ row' = Exited((stop.mark - stop.price) * stop.shares)
  /\ UNCHANGED <<exchange, entry, review, market, resting, amiss>>

-----------------------------------------------------------------------------
(* The market, and Reviewer.check_resolutions *)

CloseMarket ==
  /\ market = "open"
  /\ market' = "closed"
  /\ resting' = 0
  /\ UNCHANGED <<exchange, row, entry, stop, review, held, cash, amiss>>

Finalize(result) ==
  /\ market = "closed"
  /\ Seen("fast_final", entry.phase # "done" \/ stop # NoStop \/ review # NoView)
  /\ market' = result
  /\ held' = 0
  /\ cash' = cash + (IF result = "yes" THEN 100 * held ELSE 0)
  /\ UNCHANGED <<exchange, row, entry, stop, review, resting>>

ReviewLook ==
  /\ review = NoView
  /\ Pending
  /\ review' = row
  /\ UNCHANGED <<exchange, row, entry, stop, market, held, resting, cash, amiss>>

\* Mutation: the chunk banked by a partial exit is dropped.
SettledPnlOfRest(seen) ==
  (IF market = "yes" THEN 100 * (seen.size \div seen.price) ELSE 0) - seen.size

\* _compute_pnl
SettledPnl(seen) ==
  (IF market = "yes" THEN 100 * (seen.size \div seen.price) ELSE 0)
    - seen.size + seen.partial

\* Looked up: a market that is final settles the row from the snapshot, with
\* the metadata it had then.
ReviewEnds ==
  /\ review # NoView /\ review.outcome = "pending"
  /\ review' = NoView
  /\ row' = IF Final
            THEN [row EXCEPT !.outcome = IF market = "yes" THEN "won" ELSE "lost",
                             !.pnl = SettledPnl(review), !.by = "review",
                             !.partial = review.partial]
            ELSE row
  /\ UNCHANGED <<exchange, entry, stop, market, held, resting, cash, amiss>>

\* _annotate_stop_counterfactuals, after the settlements: a stopped row of
\* Kalshi is looked up until its market is final, ...
AnnotateLook ==
  /\ review = NoView
  /\ exchange = "kalshi"
  /\ row.outcome = "lost" /\ row.by = "stop"
  /\ review' = row
  /\ UNCHANGED <<exchange, row, entry, stop, market, held, resting, cash, amiss>>

HoldPnl(seen) == (IF market = "yes" THEN 100 * seen.shares ELSE 0) - seen.size

\* ... and its metadata is written back with what the stop saved over holding.
AnnotateEnds ==
  /\ review # NoView /\ review.outcome = "lost"
  /\ review' = NoView
  /\ row' = IF Final
            THEN [row EXCEPT !.by = "annotated", !.partial = review.partial,
                             !.saved = review.pnl - HoldPnl(review)]
            ELSE row
  /\ UNCHANGED <<exchange, entry, stop, market, held, resting, cash, amiss>>

-----------------------------------------------------------------------------
(* Specification *)

Lots == 0..Asked

Buy ==
  \/ \E lots \in Lots, price \in FillPrices : BuyFills(lots, price)
  \/ EntryAnswered
  \/ \E heard \in BOOLEAN : PostTranche(heard)
  \/ TrancheFails
  \/ \E lots \in 1..resting : RestingFills(lots)

Pass ==
  \/ StopLook
  \/ \E mark \in Bids : StopPasses(mark) \/ StopAsks(mark)
  \/ \E lots \in Lots, price \in FillPrices : SellFills(lots, price) \/ SellReplyLost(lots, price)
  \/ SellRaises
  \/ SellAnswered
  \/ \E lots \in Lots : StopPolymarket(lots)

Next ==
  \/ Buy
  \/ Pass
  \/ CloseMarket
  \/ \E result \in {"yes", "no"} : Finalize(result)
  \/ ReviewLook \/ ReviewEnds
  \/ AnnotateLook \/ AnnotateEnds

Spec == Init /\ [][Next]_vars

-----------------------------------------------------------------------------
(* Properties *)

\* The row holds the lots the account holds, as soon as nothing is under way
\* (executor.py:430, stop_loss.py:241): on Kalshi, through fills in part, asks
\* that find no bid and exits in pieces, as long as no answer is lost and no
\* pass acts on a row whose entry is still awaited.
HoldingAgrees ==
  /\ exchange = "kalshi" /\ amiss \cap {"reply_lost", "early_pass"} = {}
  /\ ~Final /\ entry.phase = "done" /\ stop.phase \in {"idle", "marking"}
  => held = IF Pending THEN row.shares ELSE 0

\* A closed Kalshi row reports the money that was made (stop_loss.py:205:
\* never the mark), and the counterfactual of a stop the difference to holding
\* the lots of the last sell (reviewer.py:193), unless a full exit followed a
\* partial one, which record_exit does not fold in (stop_loss.py:279).
PnlIsCash ==
  /\ exchange = "kalshi" /\ amiss = {}
  /\ row.outcome \in {"won", "lost"} /\ ~(row.by \in {"stop", "annotated"} /\ row.partial # 0)
  => /\ row.pnl = cash
     /\ row.by = "annotated" =>
          row.saved = cash - ((IF market = "yes" THEN 100 ELSE 0) - entry.price) * row.shares

\* The bot sells what it holds and no more (stop_loss.py:352) unless a pass
\* read the row before the entry's fill was booked, or the answer to a sell
\* was lost.
NeverShort ==
  amiss \cap {"reply_lost", "early_pass"} = {} => held >= 0

\* A Polymarket entry buys what was approved (executor.py:598), and since a
\* tranche is retried without an order id, up to max_order_retries times that
\* when answers are lost, never more.
TranchesBounded ==
  exchange = "polymarket" =>
    held + resting <= Asked * (IF "reply_lost" \in amiss THEN MaxOrderRetries ELSE 1)
=============================================================================
