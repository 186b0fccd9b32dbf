--------------------------- MODULE PositionProofs ---------------------------
(***************************************************************************)
(* Proofs about Position, for every number of lots, every price, trigger   *)
(* and number of tranches: the row follows the account.                    *)
(*                                                                         *)
(* HoldingAgrees speaks of the moments when nothing is under way.  Between *)
(* them the account is ahead of the row by what an order filled: the       *)
(* invariant says by how much in every phase of the entry and of the sell, *)
(* and that the sell still knows the row as it is.  BookInv says the same  *)
(* of the cash: what the row cost, what it banked and what is not booked.  *)
(***************************************************************************)
EXTENDS Position, TLAPS

\* The fields the argument is about, which every change of a record keeps.
Types ==
  /\ exchange \in {"kalshi", "polymarket"}
  /\ {"outcome", "shares"} \subseteq DOMAIN row /\ row.shares \in Int
  /\ {"phase", "filled"} \subseteq DOMAIN entry /\ entry.filled \in Nat
  /\ {"phase", "shares", "filled"} \subseteq DOMAIN stop
  /\ stop.shares \in Int /\ stop.filled \in Nat
  /\ held \in Int /\ resting \in Nat

\* Nothing has happened that can set row and account apart.
Clean == amiss \cap {"reply_lost", "early_pass"} = {}

\* No sell before the entry is decided, and none of an empty row.
Entering ==
  entry.phase # "done" =>
    /\ stop.phase = "idle"
    /\ ~Final => Pending
    /\ ~Final /\ exchange = "kalshi" =>
         held = IF entry.phase = "answered" THEN entry.filled ELSE 0

\* A sell knows the row; what it filled is not booked yet.
Selling ==
  entry.phase = "done" /\ ~Final /\ exchange = "kalshi" =>
    /\ stop.phase # "idle" => Pending /\ stop.shares = row.shares
    /\ stop.phase = "answered" => stop.filled <= stop.shares
    /\ held = IF ~Pending THEN 0
              ELSE IF stop.phase = "answered" THEN row.shares - stop.filled
              ELSE row.shares

\* Kalshi has no tranches and no resting orders.
ByExchange ==
  IF exchange = "kalshi" THEN resting = 0 /\ entry.phase # "tranche"
  ELSE entry.phase \in {"tranche", "done"} /\ stop.phase # "answered"

HoldingInv ==
  /\ Types
  /\ ByExchange
  /\ Clean => Entering /\ Selling /\ held >= 0

-----------------------------------------------------------------------------
(* Where it starts *)

LEMMA InitHolding == ASSUME PositionAssumption PROVE Init => HoldingInv
BY DEF PositionAssumption, Init, NoStop, HoldingInv, Types, ByExchange, Entering, Selling,
       Clean, Final, Pending

\* Clean is only ever lost.
LEMMA CleanBefore == ASSUME NEW d, NEW yes, Seen(d, yes) PROVE Clean' => Clean
BY DEF Seen, Clean

-----------------------------------------------------------------------------
(* The entry *)

LEMMA KalshiEntryStep ==
  ASSUME PositionAssumption, HoldingInv,
         (\E lots \in Lots, price \in FillPrices : BuyFills(lots, price)) \/ EntryAnswered
  PROVE  HoldingInv'
<1>1. ASSUME NEW lots \in Lots, NEW price \in FillPrices, BuyFills(lots, price)
      PROVE  HoldingInv'
  <2>1. lots \in Nat
    BY DEF Lots, PositionAssumption
  <2>2. {"phase", "filled"} \subseteq DOMAIN entry
    BY DEF HoldingInv, Types
  <2>3. entry' = [entry EXCEPT !.phase = "answered", !.filled = lots, !.price = price]
    BY <1>1 DEF BuyFills
  <2>4. {"phase", "filled"} \subseteq DOMAIN entry'
    BY <2>2, <2>3
  <2>5. entry'.phase = "answered"
    BY <2>2, <2>3
  <2>6. entry'.filled = lots
    BY <2>2, <2>3
  <2>7. /\ entry.phase = "asked" /\ held' = held + lots
        /\ UNCHANGED <<exchange, row, stop, review, market, resting, amiss>>
    BY <1>1 DEF BuyFills
  <2> QED
    BY <2>1, <2>4, <2>5, <2>6, <2>7 DEF HoldingInv, Types, ByExchange, Clean, Entering,
                                         Selling, Final, Pending
<1>2. CASE EntryAnswered
  BY <1>2 DEF EntryAnswered, HoldingInv, Types, ByExchange, Clean, Entering, Selling,
              Final, Pending
<1> QED
  BY <1>1, <1>2

LEMMA TrancheStep ==
  ASSUME PositionAssumption, HoldingInv,
         \/ \E heard \in BOOLEAN : PostTranche(heard)
         \/ TrancheFails
         \/ \E lots \in 1..resting : RestingFills(lots)
  PROVE  HoldingInv'
<1>0. PerTranche \in Nat
  BY DEF PerTranche, PositionAssumption
<1>1. ASSUME NEW heard \in BOOLEAN, PostTranche(heard) PROVE HoldingInv'
  <2>1. Clean' => Clean
    BY <1>1, CleanBefore DEF PostTranche
  <2> DEFINE posted   == IF heard THEN entry.posted + 1 ELSE entry.posted
             attempts == IF heard THEN 0 ELSE entry.attempts + 1
             over     == posted = Tranches \/ attempts = MaxOrderRetries
  <2>2. {"phase", "filled"} \subseteq DOMAIN entry
    BY DEF HoldingInv, Types
  <2>3. entry' = [entry EXCEPT !.posted = posted, !.attempts = attempts,
                               !.phase = IF over THEN "done" ELSE "tranche"]
    BY <1>1 DEF PostTranche
  <2>4. {"phase", "filled"} \subseteq DOMAIN entry'
    BY <2>2, <2>3
  <2>5. entry'.phase \in {"tranche", "done"}
    BY <2>2, <2>3
  <2>6. entry'.filled = entry.filled
    BY <2>2, <2>3
  <2>7. {"outcome", "shares"} \subseteq DOMAIN row' /\ row'.shares = row.shares
    BY <1>1 DEF PostTranche, HoldingInv, Types
  <2>8. /\ resting' = resting + PerTranche
        /\ UNCHANGED <<exchange, stop, held>>
    BY <1>1 DEF PostTranche
  <2>9. Types'
    BY <1>0, <2>4, <2>6, <2>7, <2>8 DEF HoldingInv, Types
  <2>10. row'.outcome = row.outcome \/ entry'.phase = "done"
    BY <1>1 DEF PostTranche, HoldingInv, Types
  <2>11. /\ entry.phase = "tranche"
         /\ UNCHANGED <<exchange, stop, market, held>>
    BY <1>1 DEF PostTranche
  <2> QED
    BY <2>1, <2>4, <2>5, <2>9, <2>10, <2>11
    DEF HoldingInv, ByExchange, Entering, Selling, Final, Pending
<1>2. CASE TrancheFails
  BY <1>2 DEF TrancheFails, HoldingInv, Types, ByExchange, Clean, Entering, Selling,
              Final, Pending
<1>3. ASSUME NEW lots \in 1..resting, RestingFills(lots) PROVE HoldingInv'
  BY <1>3 DEF RestingFills, HoldingInv, Types, ByExchange, Clean, Entering, Selling,
              Final, Pending
<1> QED
  BY <1>1, <1>2, <1>3

-----------------------------------------------------------------------------
(* The stop-loss *)

LEMMA StopAskStep ==
  ASSUME PositionAssumption, HoldingInv,
         \/ StopLook
         \/ \E mark \in Bids : StopPasses(mark) \/ StopAsks(mark)
         \/ SellRaises
  PROVE  HoldingInv'
<1>1. CASE StopLook
  <2>1. Clean' => Clean /\ entry.phase = "done"
    BY <1>1 DEF StopLook, Seen, Clean
  <2> QED
    BY <1>1, <2>1 DEF StopLook, NoStop, HoldingInv, Types, ByExchange, Entering, Selling,
                      Final, Pending
<1>2. ASSUME NEW mark \in Bids, StopPasses(mark) PROVE HoldingInv'
  BY <1>2 DEF StopPasses, NoStop, HoldingInv, Types, ByExchange, Clean, Entering, Selling,
              Final, Pending
<1>3. ASSUME NEW mark \in Bids, StopAsks(mark) PROVE HoldingInv'
  BY <1>3 DEF StopAsks, HoldingInv, Types, ByExchange, Clean, Entering, Selling,
              Final, Pending
<1>4. CASE SellRaises
  BY <1>4 DEF SellRaises, NoStop, HoldingInv, Types, ByExchange, Clean, Entering, Selling,
              Final, Pending
<1> QED
  BY <1>1, <1>2, <1>3, <1>4

LEMMA SellStep ==
  ASSUME PositionAssumption, HoldingInv, NEW lots \in Lots,
         \/ \E price \in FillPrices : SellFills(lots, price) \/ SellReplyLost(lots, price)
         \/ StopPolymarket(lots)
  PROVE  HoldingInv'
<1>0. lots \in Nat
  BY DEF Lots, PositionAssumption
<1>1. ASSUME NEW price \in FillPrices, SellFills(lots, price) PROVE HoldingInv'
  <2>1. {"phase", "shares", "filled"} \subseteq DOMAIN stop /\ stop.shares \in Int
    BY DEF HoldingInv, Types
  <2>2. stop' = [stop EXCEPT !.phase = "answered", !.filled = lots, !.avg = price]
    BY <1>1 DEF SellFills
  <2>3. {"phase", "shares", "filled"} \subseteq DOMAIN stop'
    BY <2>1, <2>2
  <2>4. stop'.phase = "answered"
    BY <2>1, <2>2
  <2>5. stop'.filled = lots
    BY <2>1, <2>2
  <2>6. stop'.shares = stop.shares
    BY <2>1, <2>2
  <2>7. /\ exchange = "kalshi" /\ stop.phase = "asked" /\ market = "open"
        /\ lots \in 0..stop.shares /\ held' = held - lots
        /\ UNCHANGED <<exchange, row, entry, market, resting, amiss>>
    BY <1>1 DEF SellFills, AskFills
  <2>8. lots <= stop.shares
    BY <2>1, <2>7
  <2> QED
    BY <1>0, <2>1, <2>3, <2>4, <2>5, <2>6, <2>7, <2>8
    DEF HoldingInv, Types, ByExchange, Clean, Entering, Selling, Final, Pending
<1>2. ASSUME NEW price \in FillPrices, SellReplyLost(lots, price) PROVE HoldingInv'
  <2>1. Clean' => Clean /\ lots = 0
    BY <1>0, <1>2 DEF SellReplyLost, Seen, Clean
  <2> QED
    BY <1>0, <1>2, <2>1 DEF SellReplyLost, AskFills, NoStop, HoldingInv, Types, ByExchange,
                            Entering, Selling, Final, Pending
<1>3. CASE StopPolymarket(lots)
  BY <1>0, <1>3 DEF StopPolymarket, Exited, NoStop, HoldingInv, Types, ByExchange, Clean,
                    Entering, Selling, Final, Pending
<1> QED
  BY <1>1, <1>2, <1>3

LEMMA SellAnsweredStep ==
  ASSUME PositionAssumption, HoldingInv, SellAnswered PROVE HoldingInv'
<1>1. CASE stop.filled = 0
  BY <1>1 DEF SellAnswered, NoStop, HoldingInv, Types, ByExchange, Clean, Entering, Selling,
              Final, Pending
<1>2. CASE stop.filled # 0 /\ stop.shares - stop.filled > 0
  BY <1>2 DEF SellAnswered, NoStop, HoldingInv, Types, ByExchange, Clean, Entering, Selling,
              Final, Pending
<1>3. CASE stop.filled # 0 /\ ~(stop.shares - stop.filled > 0)
  BY <1>3 DEF SellAnswered, Exited, NoStop, HoldingInv, Types, ByExchange, Clean, Entering,
              Selling, Final, Pending
<1> QED
  BY <1>1, <1>2, <1>3

-----------------------------------------------------------------------------
(* The market and the reviewer *)

LEMMA MarketStep ==
  ASSUME PositionAssumption, HoldingInv,
         CloseMarket \/ \E result \in {"yes", "no"} : Finalize(result)
  PROVE  HoldingInv'
<1>1. CASE CloseMarket
  BY <1>1 DEF CloseMarket, HoldingInv, Types, ByExchange, Clean, Entering, Selling, Final,
              Pending
<1>2. ASSUME NEW result \in {"yes", "no"}, Finalize(result) PROVE HoldingInv'
  <2>1. Clean' => Clean
    BY <1>2 DEF Finalize, Seen, Clean
  <2> QED
    BY <1>2, <2>1 DEF Finalize, HoldingInv, Types, ByExchange, Entering, Selling, Final,
                      Pending
<1> QED
  BY <1>1, <1>2

LEMMA ReviewStep ==
  ASSUME PositionAssumption, HoldingInv,
         ReviewLook \/ ReviewEnds \/ AnnotateLook \/ AnnotateEnds
  PROVE  HoldingInv'
<1>1. CASE ReviewLook \/ AnnotateLook
  BY <1>1 DEF ReviewLook, AnnotateLook, HoldingInv, Types, ByExchange, Clean, Entering,
              Selling, Final, Pending
<1>2. CASE ReviewEnds
  BY <1>2 DEF ReviewEnds, HoldingInv, Types, ByExchange, Clean, Entering, Selling,
              Final, Pending
<1>3. CASE AnnotateEnds
  BY <1>3 DEF AnnotateEnds, HoldingInv, Types, ByExchange, Clean, Entering, Selling,
              Final, Pending
<1> QED
  BY <1>1, <1>2, <1>3

-----------------------------------------------------------------------------
(* What follows of the row and the account *)

LEMMA HoldingStep == ASSUME PositionAssumption, HoldingInv, [Next]_vars PROVE HoldingInv'
<1>1. CASE Buy
  BY <1>1, KalshiEntryStep, TrancheStep DEF Buy
<1>2. CASE Pass
  BY <1>2, StopAskStep, SellStep, SellAnsweredStep DEF Pass
<1>3. CASE UNCHANGED vars
  BY <1>3 DEF vars, HoldingInv, Types, ByExchange, Clean, Entering, Selling, Final, Pending
<1> QED
  BY <1>1, <1>2, <1>3, MarketStep, ReviewStep DEF Next

LEMMA HoldingAlways == ASSUME PositionAssumption PROVE Spec => []HoldingInv
<1>1. HoldingInv /\ [Next]_vars => HoldingInv'
  BY HoldingStep
<1> QED
  BY <1>1, InitHolding, PTL DEF Spec

\* Whatever is asked for, at whatever prices, and however it fills: once an
\* order is answered the row holds what Kalshi holds, as long as no answer is
\* lost and no pass acts on an undecided entry (executor.py:430).
THEOREM RowFollowsAccount == ASSUME PositionAssumption PROVE Spec => []HoldingAgrees
<1>1. HoldingInv => HoldingAgrees
  BY DEF HoldingInv, Types, Clean, Entering, Selling, HoldingAgrees
<1> QED
  BY <1>1, HoldingAlways, PTL

\* Under the same proviso the stop-loss never sells what the account does not
\* hold, on either exchange (stop_loss.py:352).
THEOREM NeverSoldShort == ASSUME PositionAssumption PROVE Spec => []NeverShort
<1>1. HoldingInv => NeverShort
  BY DEF HoldingInv, Clean, NeverShort
<1> QED
  BY <1>1, HoldingAlways, PTL

-----------------------------------------------------------------------------
(* The tranches *)

\* What was sent at most, counted in tranches: all attempts of those that were
\* heard of, and those of the one under way.
Sent(posted, attempts) == posted * MaxOrderRetries + attempts

Counted ==
  /\ {"phase", "posted", "attempts"} \subseteq DOMAIN entry
  /\ entry.posted \in 0..Tranches /\ entry.attempts \in 0..MaxOrderRetries
  /\ entry.posted = Tranches => entry.attempts = 0
  /\ entry.phase = "tranche" =>
       entry.posted < Tranches /\ entry.attempts < MaxOrderRetries

Landed ==
  exchange = "polymarket" =>
    /\ held \in Nat
    /\ held + resting <= PerTranche * Sent(entry.posted, entry.attempts)
    /\ "reply_lost" \notin amiss => held + resting <= PerTranche * entry.posted

TrancheInv == Counted /\ Landed

LEMMA ProductMonotone ==
  ASSUME NEW a \in Nat, NEW b \in Nat, NEW c \in Nat, a <= b
  PROVE  c * a <= c * b
<1>1. PICK d \in Nat : b = a + d
  <2>1. b - a \in Nat /\ b = a + (b - a)
    OBVIOUS
  <2> QED
    BY <2>1
<1>2. c * b = c * a + c * d /\ c * d \in Nat /\ c * a \in Nat
  BY <1>1
<1> QED
  BY <1>2

LEMMA Below ==
  ASSUME NEW a \in Nat, NEW b \in Nat, NEW c \in Nat, a <= b, b <= c
  PROVE  a <= c
OBVIOUS

LEMMA NatSum == ASSUME NEW a \in Nat, NEW b \in Nat PROVE a + b \in Nat
OBVIOUS

\* All tranches together are what was approved.
LEMMA TranchesAddUp ==
  ASSUME PositionAssumption
  PROVE  /\ PerTranche \in Nat /\ Tranches \in Nat \ {0} /\ MaxOrderRetries \in Nat \ {0}
         /\ Asked \in Nat /\ PerTranche * Tranches = Asked
BY DEF PositionAssumption, PerTranche

LEMMA InitTranche == ASSUME PositionAssumption PROVE Init => TrancheInv
<1> SUFFICES ASSUME Init PROVE TrancheInv
  OBVIOUS
<1>1. Counted
  BY DEF PositionAssumption, Init, Counted
<1>2. held + resting = 0 /\ held \in Nat /\ entry.posted = 0 /\ entry.attempts = 0
  BY DEF Init
<1>3. Landed
  BY <1>2, TranchesAddUp DEF Landed, Sent
<1> QED
  BY <1>1, <1>3 DEF TrancheInv

\* One more is sent: it is heard of, or it was an attempt.
LEMMA SentGrows ==
  ASSUME PositionAssumption, NEW posted \in Nat, NEW attempts \in 0..MaxOrderRetries - 1
  PROVE  /\ Sent(posted, attempts + 1) = Sent(posted, attempts) + 1
         /\ Sent(posted, attempts) + 1 <= Sent(posted + 1, 0)
         /\ Sent(posted, attempts) \in Nat /\ Sent(posted + 1, 0) \in Nat
<1>1. (posted + 1) * MaxOrderRetries = posted * MaxOrderRetries + MaxOrderRetries
  BY TranchesAddUp
<1>2. posted * MaxOrderRetries \in Nat /\ MaxOrderRetries \in Nat
  BY TranchesAddUp
<1> QED
  BY <1>1, <1>2 DEF Sent

\* No tranche is sent more often than it may be retried.
LEMMA SentBounded ==
  ASSUME PositionAssumption, Counted
  PROVE  /\ Sent(entry.posted, entry.attempts) \in Nat
         /\ Sent(entry.posted, entry.attempts) <= MaxOrderRetries * Tranches
<1>1. /\ entry.posted \in Nat /\ entry.attempts \in Nat /\ entry.attempts <= MaxOrderRetries
      /\ entry.posted <= Tranches
    BY TranchesAddUp DEF Counted
<1>2. entry.posted * MaxOrderRetries \in Nat /\ MaxOrderRetries * Tranches \in Nat
  BY <1>1, TranchesAddUp
<1>3. CASE entry.posted = Tranches
  <2>1. entry.attempts = 0
    BY <1>3 DEF Counted
  <2>2. Tranches * MaxOrderRetries = MaxOrderRetries * Tranches
    BY TranchesAddUp
  <2> QED
    BY <1>1, <1>2, <1>3, <2>1, <2>2 DEF Sent
<1>4. CASE entry.posted + 1 <= Tranches
  <2>1. MaxOrderRetries * (entry.posted + 1) <= MaxOrderRetries * Tranches
    BY <1>1, <1>4, TranchesAddUp, ProductMonotone
  <2>2. MaxOrderRetries * (entry.posted + 1) = entry.posted * MaxOrderRetries + MaxOrderRetries
    BY <1>1, TranchesAddUp
  <2> QED
    BY <1>1, <1>2, <2>1, <2>2, TranchesAddUp DEF Sent
<1> QED
  BY <1>1, <1>3, <1>4, TranchesAddUp

\* Less of what was sent is held, or as much.
NoMore == exchange = "polymarket" => held' \in Nat /\ held' + resting' <= held + resting

LEMMA LessLanded ==
  ASSUME PositionAssumption, HoldingInv, TrancheInv, HoldingInv',
         exchange' = exchange, entry' = entry, amiss \subseteq amiss',
         NoMore
  PROVE  TrancheInv'
<1>1. Counted'
  BY DEF TrancheInv, Counted
<1>2. ASSUME exchange = "polymarket"
      PROVE  /\ held' + resting' <= PerTranche * Sent(entry.posted, entry.attempts)
             /\ "reply_lost" \notin amiss' => held' + resting' <= PerTranche * entry.posted
  <2>1. /\ PerTranche * Sent(entry.posted, entry.attempts) \in Nat
        /\ PerTranche * entry.posted \in Nat
    BY SentBounded, TranchesAddUp DEF TrancheInv, Counted
  <2>2. held \in Nat /\ resting \in Nat /\ held' \in Nat /\ resting' \in Nat
    BY <1>2 DEF TrancheInv, Landed, HoldingInv, Types, NoMore
  <2>3. /\ held + resting <= PerTranche * Sent(entry.posted, entry.attempts)
        /\ "reply_lost" \notin amiss => held + resting <= PerTranche * entry.posted
        /\ held' + resting' <= held + resting
        /\ "reply_lost" \in amiss => "reply_lost" \in amiss'
    BY <1>2 DEF TrancheInv, Landed, NoMore
  <2>4. held' + resting' \in Nat /\ held + resting \in Nat
    BY <2>2, NatSum
  <2> QED
    BY <2>1, <2>3, <2>4, Below
<1> QED
  BY <1>1, <1>2 DEF TrancheInv, Landed, NoMore

LEMMA PostStep ==
  ASSUME PositionAssumption, HoldingInv, TrancheInv, NEW heard \in BOOLEAN, PostTranche(heard)
  PROVE  TrancheInv'
<1> DEFINE posted   == IF heard THEN entry.posted + 1 ELSE entry.posted
           attempts == IF heard THEN 0 ELSE entry.attempts + 1
<1>1. /\ entry.phase = "tranche"
      /\ resting' = resting + PerTranche
      /\ UNCHANGED <<exchange, held>>
      /\ heard /\ "reply_lost" \notin amiss' => "reply_lost" \notin amiss
      /\ ~heard => "reply_lost" \in amiss'
  BY DEF PostTranche, Seen
<1>2. entry' = [entry EXCEPT !.posted = posted, !.attempts = attempts,
                             !.phase = IF posted = Tranches \/ attempts = MaxOrderRetries
                                       THEN "done" ELSE "tranche"]
  BY DEF PostTranche
<1>3. /\ {"phase", "posted", "attempts"} \subseteq DOMAIN entry'
      /\ entry'.posted = posted /\ entry'.attempts = attempts
      /\ entry'.phase = IF posted = Tranches \/ attempts = MaxOrderRetries
                        THEN "done" ELSE "tranche"
  BY <1>2 DEF TrancheInv, Counted
<1>4. /\ entry.posted \in 0..Tranches - 1 /\ entry.attempts \in 0..MaxOrderRetries - 1
      /\ entry.posted \in Nat /\ entry.attempts \in Nat
  BY <1>1, TranchesAddUp DEF TrancheInv, Counted
<1>5. /\ posted \in 0..Tranches /\ attempts \in 0..MaxOrderRetries
      /\ posted = Tranches => attempts = 0
  <2>1. CASE heard
    BY <1>4, <2>1, TranchesAddUp
  <2>2. CASE ~heard
    BY <1>4, <2>2, TranchesAddUp
  <2> QED
    BY <2>1, <2>2
<1> HIDE DEF posted, attempts
<1>6. Counted'
  BY <1>3, <1>5, TranchesAddUp DEF Counted
<1>7. ASSUME exchange = "polymarket"
      PROVE  /\ held' \in Nat
             /\ held' + resting' <= PerTranche * Sent(entry'.posted, entry'.attempts)
             /\ "reply_lost" \notin amiss' => held' + resting' <= PerTranche * entry'.posted
  <2> DEFINE before == Sent(entry.posted, entry.attempts)
             after  == Sent(posted, attempts)
  <2>1. /\ held + resting <= PerTranche * before /\ held \in Nat /\ resting \in Nat
        /\ "reply_lost" \notin amiss => held + resting <= PerTranche * entry.posted
    BY <1>7 DEF TrancheInv, Landed, HoldingInv, Types
  <2>2. before \in Nat /\ after \in Nat /\ before + 1 <= after
    <3>1. CASE heard
      <4>1. after = Sent(entry.posted + 1, 0)
        BY <3>1 DEF posted, attempts
      <4> HIDE DEF after
      <4> QED
        BY <1>4, <4>1, SentGrows
    <3>2. CASE ~heard
      <4>1. after = Sent(entry.posted, entry.attempts + 1)
        BY <3>2 DEF posted, attempts
      <4>2. before \in Nat /\ Sent(entry.posted, entry.attempts + 1) = before + 1
        BY <1>4, SentGrows
      <4> HIDE DEF before, after
      <4> QED
        BY <4>1, <4>2
    <3> QED
      BY <3>1, <3>2
  <2> HIDE DEF before, after
  <2>3. PerTranche * (before + 1) = PerTranche * before + PerTranche
    BY <2>2, TranchesAddUp
  <2>4. PerTranche * (before + 1) <= PerTranche * after
    BY <2>2, TranchesAddUp, ProductMonotone
  <2>5. /\ PerTranche * before \in Nat /\ PerTranche * (before + 1) \in Nat
        /\ PerTranche * after \in Nat /\ PerTranche \in Nat
    BY <2>2, TranchesAddUp
  <2>6. held' + resting' <= PerTranche * after
    BY <1>1, <2>1, <2>3, <2>4, <2>5
  <2>7. PerTranche * (entry.posted + 1) = PerTranche * entry.posted + PerTranche
    BY <1>4, TranchesAddUp
  <2>8. PerTranche * entry.posted \in Nat
    BY <1>4, TranchesAddUp
  <2>9. "reply_lost" \notin amiss' => held' + resting' <= PerTranche * posted
    BY <1>1, <2>1, <2>5, <2>7, <2>8 DEF posted
  <2> QED
    BY <1>1, <1>3, <2>1, <2>6, <2>9 DEF after
<1> QED
  BY <1>1, <1>6, <1>7 DEF TrancheInv, Landed

\* An attempt that sent nothing leaves more room.
LEMMA FailStep ==
  ASSUME PositionAssumption, HoldingInv, TrancheInv, TrancheFails PROVE TrancheInv'
<1>1. /\ entry.phase = "tranche"
      /\ UNCHANGED <<exchange, held, resting, amiss>>
  BY DEF TrancheFails
<1>2. /\ {"phase", "posted", "attempts"} \subseteq DOMAIN entry'
      /\ entry'.posted = entry.posted /\ entry'.attempts = entry.attempts + 1
      /\ entry'.phase = IF entry.attempts + 1 = MaxOrderRetries THEN "done" ELSE "tranche"
  BY DEF TrancheFails, TrancheInv, Counted
<1>3. /\ entry.posted \in 0..Tranches - 1 /\ entry.attempts \in 0..MaxOrderRetries - 1
      /\ entry.posted \in Nat
  BY <1>1, TranchesAddUp DEF TrancheInv, Counted
<1>4. Counted'
  BY <1>2, <1>3, TranchesAddUp DEF Counted
<1> DEFINE before == Sent(entry.posted, entry.attempts)
           after  == Sent(entry.posted, entry.attempts + 1)
<1>5. before \in Nat /\ after \in Nat /\ before <= after
  <2>1. before \in Nat /\ after = before + 1
    BY <1>3, SentGrows
  <2> HIDE DEF before, after
  <2> QED
    BY <2>1
<1> HIDE DEF before, after
<1>6. /\ PerTranche * before <= PerTranche * after
      /\ PerTranche * before \in Nat /\ PerTranche * after \in Nat
  BY <1>5, TranchesAddUp, ProductMonotone
<1>7. ASSUME exchange = "polymarket"
      PROVE  held \in Nat /\ held + resting <= PerTranche * after
  <2>1. held \in Nat /\ resting \in Nat /\ held + resting <= PerTranche * before
    BY <1>7 DEF TrancheInv, Landed, HoldingInv, Types, before
  <2> QED
    BY <1>6, <2>1
<1> QED
  BY <1>1, <1>2, <1>4, <1>7 DEF TrancheInv, Landed, after

LEMMA OtherStep ==
  ASSUME PositionAssumption, HoldingInv, HoldingInv', TrancheInv, Next,
         ~\E heard \in BOOLEAN : PostTranche(heard), ~TrancheFails
  PROVE  TrancheInv'
<1>0. /\ exchange \in {"kalshi", "polymarket"} /\ held \in Int /\ resting \in Nat
      /\ exchange = "polymarket" =>
           held \in Nat /\ entry.phase \in {"tranche", "done"} /\ stop.phase # "answered"
  BY DEF HoldingInv, Types, ByExchange, TrancheInv, Landed
<1>1. ASSUME \/ \E lots \in Lots, price \in FillPrices : BuyFills(lots, price)
             \/ EntryAnswered
      PROVE  TrancheInv'
  <2>1. /\ exchange = "kalshi" /\ exchange' = exchange
        /\ DOMAIN entry' = DOMAIN entry /\ entry'.phase \in {"answered", "done"}
        /\ entry'.posted = entry.posted /\ entry'.attempts = entry.attempts
    BY <1>0, <1>1 DEF BuyFills, EntryAnswered, TrancheInv, Counted
  <2> QED
    BY <2>1 DEF TrancheInv, Counted, Landed
<1>2. ASSUME NEW lots \in 1..resting, RestingFills(lots) PROVE TrancheInv'
  BY <1>0, <1>2, LessLanded DEF RestingFills, NoMore
<1>3. ASSUME NEW lots \in Lots,
             \/ \E price \in FillPrices : SellFills(lots, price) \/ SellReplyLost(lots, price)
      PROVE  TrancheInv'
  <2>1. exchange = "kalshi" /\ exchange' = exchange /\ entry' = entry /\ amiss \subseteq amiss'
    BY <1>3 DEF SellFills, SellReplyLost, AskFills, Seen
  <2> QED
    BY <2>1, LessLanded DEF NoMore
<1>4. ASSUME NEW lots \in Lots, StopPolymarket(lots) PROVE TrancheInv'
  <2>1. /\ lots \in Nat /\ lots <= stop.shares /\ stop.shares <= held /\ stop.shares \in Int
        /\ exchange = "polymarket"
        /\ held' = held - lots /\ UNCHANGED <<exchange, entry, resting, amiss>>
    BY <1>4 DEF StopPolymarket, Lots, PositionAssumption, HoldingInv, Types
  <2>2. held' \in Nat /\ held' + resting' <= held + resting
    BY <1>0, <2>1
  <2> QED
    BY <2>1, <2>2, LessLanded DEF NoMore
<1>5. CASE CloseMarket \/ \E result \in {"yes", "no"} : Finalize(result)
  <2>1. /\ UNCHANGED <<exchange, entry>> /\ amiss \subseteq amiss'
        /\ \/ held' = held /\ resting' = 0
           \/ held' = 0 /\ resting' = resting
    BY <1>5 DEF CloseMarket, Finalize, Seen
  <2>2. exchange = "polymarket" => held' \in Nat /\ held' + resting' <= held + resting
    BY <1>0, <2>1
  <2> QED
    BY <2>1, <2>2, LessLanded DEF NoMore
<1>6. CASE \/ StopLook \/ (\E mark \in Bids : StopPasses(mark) \/ StopAsks(mark))
           \/ SellRaises \/ SellAnswered
           \/ ReviewLook \/ ReviewEnds \/ AnnotateLook \/ AnnotateEnds
  <2>1. UNCHANGED <<exchange, entry, held, resting>> /\ amiss \subseteq amiss'
    BY <1>6 DEF StopLook, StopPasses, StopAsks, SellRaises, SellAnswered, ReviewLook,
                ReviewEnds, AnnotateLook, AnnotateEnds, Seen
  <2> QED
    BY <1>0, <2>1, LessLanded DEF NoMore
<1> QED
  BY <1>1, <1>2, <1>3, <1>4, <1>5, <1>6 DEF Next, Buy, Pass

LEMMA TrancheAlways == ASSUME PositionAssumption PROVE Spec => []TrancheInv
<1>1. HoldingInv /\ HoldingInv' /\ TrancheInv /\ [Next]_vars => TrancheInv'
  <2> SUFFICES ASSUME HoldingInv, HoldingInv', TrancheInv, [Next]_vars PROVE TrancheInv'
    OBVIOUS
  <2>1. CASE UNCHANGED vars
    BY <2>1 DEF vars, TrancheInv, Counted, Landed
  <2>2. CASE Next
    BY <2>2, PostStep, FailStep, OtherStep
  <2> QED
    BY <2>1, <2>2
<1> QED
  BY <1>1, InitTranche, HoldingAlways, PTL DEF Spec

\* Whatever is approved, in however many tranches: what the account holds and
\* what waits in the book is never more than that, or max_order_retries times
\* that when answers are lost and tranches are sent again (executor.py:598).
THEOREM TranchesAlwaysBounded == ASSUME PositionAssumption PROVE Spec => []TranchesBounded
<1>1. ASSUME HoldingInv, TrancheInv PROVE TranchesBounded
  <2> SUFFICES ASSUME exchange = "polymarket"
               PROVE  held + resting <=
                        Asked * (IF "reply_lost" \in amiss THEN MaxOrderRetries ELSE 1)
    BY DEF TranchesBounded
  <2> DEFINE sent == Sent(entry.posted, entry.attempts)
             most == MaxOrderRetries * Tranches
  <2>1. /\ held \in Nat /\ resting \in Nat /\ held + resting <= PerTranche * sent
        /\ "reply_lost" \notin amiss => held + resting <= PerTranche * entry.posted
    BY <1>1 DEF TrancheInv, Landed, HoldingInv, Types
  <2>2. sent \in Nat /\ most \in Nat /\ sent <= most
    BY <1>1, SentBounded, TranchesAddUp DEF TrancheInv
  <2>3. entry.posted \in Nat /\ entry.posted <= Tranches
    BY <1>1, TranchesAddUp DEF TrancheInv, Counted
  <2>4. PerTranche * most = Asked * MaxOrderRetries
    BY TranchesAddUp
  <2> HIDE DEF sent, most
  <2>5. PerTranche * sent <= PerTranche * most /\ PerTranche * sent \in Nat
    BY <2>2, TranchesAddUp, ProductMonotone
  <2>6. PerTranche * entry.posted <= Asked /\ PerTranche * entry.posted \in Nat
    BY <2>3, TranchesAddUp, ProductMonotone
  <2>7. Asked * MaxOrderRetries \in Nat /\ Asked \in Nat /\ Asked * 1 = Asked
    BY TranchesAddUp
  <2>8. CASE "reply_lost" \in amiss
    BY <2>1, <2>4, <2>5, <2>7, <2>8
  <2>9. CASE "reply_lost" \notin amiss
    BY <2>1, <2>6, <2>7, <2>9
  <2> QED
    BY <2>8, <2>9
<1> QED
  BY <1>1, HoldingAlways, TrancheAlways, PTL

-----------------------------------------------------------------------------
(* The profit and the cash *)

\* Kalshi's position, undisturbed: what PnlIsCash speaks of.
Plain == exchange = "kalshi" /\ amiss = {}

Fields ==
  /\ {"outcome", "price", "shares", "size", "partial", "pnl", "by", "saved"} \subseteq DOMAIN row
  /\ row.shares \in Nat /\ row.partial \in Int /\ row.pnl \in Int
  /\ {"phase", "filled", "price"} \subseteq DOMAIN entry
  /\ entry.phase \in {"asked", "answered", "done"}
  /\ entry.filled \in Nat /\ entry.price \in Int
  /\ {"phase", "shares", "price", "filled", "avg"} \subseteq DOMAIN stop
  /\ stop.filled \in Nat /\ stop.avg \in Int
  /\ cash \in Int

\* What holding to the end pays for a lot; nothing is paid before the end.
Payout == IF market = "yes" THEN 100 ELSE 0

\* Before the entry is booked nothing else is.
Unbooked ==
  entry.phase # "done" =>
    /\ Pending /\ row.partial = 0 /\ row.by = "none"
    /\ stop.phase = "idle" /\ ~Final
    /\ entry.phase = "answered" /\ entry.filled # 0 => entry.price \in 1..99
    /\ cash = IF entry.phase = "answered" THEN -(entry.filled * entry.price) ELSE 0

\* An open row costs what its lots did, and has banked what its exits in part
\* made: the cash is that, and what a sell brought that is not booked yet, or
\* what the market paid.
Booked ==
  entry.phase = "done" =>
    /\ row.outcome \in {"pending", "won", "lost", "voided"}
    /\ row.outcome # "voided" =>
         /\ row.price = entry.price /\ row.price \in 1..99
         /\ row.size = row.shares * row.price
    /\ Pending =>
         /\ row.by = "none"
         /\ cash = row.partial - row.size
                   + (IF stop.phase = "answered" THEN stop.filled * stop.avg ELSE 0)
                   + (IF Final THEN Payout * row.shares ELSE 0)
    /\ stop.phase # "idle" =>
         Pending /\ ~Final /\ stop.shares = row.shares /\ stop.price = row.price

\* A closed row: by a stop, what was banked before is on top of its profit.
Closed ==
  row.outcome \in {"won", "lost"} =>
    /\ entry.phase = "done"
    /\ row.by \in {"review", "stop", "annotated"}
    /\ cash = row.pnl + (IF row.by = "review" THEN 0 ELSE row.partial)
    /\ row.by = "annotated" =>
         Final /\ row.saved = row.pnl - (Payout * row.shares - row.size)

\* What the reviewer read of a market that is final is still so.
Viewed ==
  Final /\ review # NoView =>
    /\ review = row
    /\ row.outcome = "pending" \/ (row.outcome = "lost" /\ row.by = "stop")

Books == Fields /\ Unbooked /\ Booked /\ Closed /\ Viewed

BookInv == Plain => Books

\* A disturbance stays on record.
LEMMA PlainBefore ==
  ASSUME [Next]_vars, Plain'
  PROVE  Plain
<1>1. exchange' = exchange /\ amiss \subseteq amiss'
  BY DEF vars, Next, Buy, Pass, BuyFills, EntryAnswered, PostTranche, TrancheFails,
         RestingFills, StopLook, StopPasses, StopAsks, SellFills, SellReplyLost, AskFills,
         SellRaises, SellAnswered, StopPolymarket, CloseMarket, Finalize, ReviewLook,
         ReviewEnds, AnnotateLook, AnnotateEnds, Seen
<1> QED
  BY <1>1 DEF Plain

LEMMA InitBooks ==
  ASSUME PositionAssumption, Init
  PROVE  BookInv
<1> SUFFICES ASSUME Plain PROVE Books
  BY DEF BookInv
<1>1. Asked \in Nat
  BY DEF PositionAssumption
<1>2. /\ row = [outcome |-> "pending", price |-> SignalPrice, shares |-> Asked,
                size |-> Asked * SignalPrice, partial |-> 0, pnl |-> 0, by |-> "none",
                saved |-> 0]
      /\ entry = [phase |-> "asked", price |-> 0, filled |-> 0, posted |-> 0, attempts |-> 0]
      /\ stop = NoStop /\ review = NoView /\ market = "open" /\ cash = 0
  BY DEF Init, Plain
<1>3. Fields
  BY <1>1, <1>2 DEF Fields, NoStop
<1> QED
  BY <1>2, <1>3 DEF Books, Unbooked, Booked, Closed, Viewed, Pending, Final, NoStop

\* The entry: what filled is paid for, then booked.
LEMMA EntryBooks ==
  ASSUME PositionAssumption, Plain, Books,
         (\E lots \in Lots, price \in FillPrices : BuyFills(lots, price)) \/ EntryAnswered
  PROVE  Books'
<1>1. ASSUME NEW lots \in Lots, NEW price \in FillPrices, BuyFills(lots, price)
      PROVE  Books'
  <2>1. lots \in Nat /\ price \in 1..99 /\ price \in Int
    BY DEF Lots, PositionAssumption
  <2>2. /\ entry.phase = "asked" /\ cash' = cash - lots * price
        /\ UNCHANGED <<row, stop, review, market>>
    BY <1>1 DEF BuyFills
  <2>3. entry' = [entry EXCEPT !.phase = "answered", !.filled = lots, !.price = price]
    BY <1>1 DEF BuyFills
  <2>4. {"phase", "filled", "price"} \subseteq DOMAIN entry
    BY DEF Books, Fields
  <2>5. {"phase", "filled", "price"} \subseteq DOMAIN entry'
    BY <2>3, <2>4
  <2>6. entry'.phase = "answered"
    BY <2>3, <2>4
  <2>7. entry'.filled = lots
    BY <2>3, <2>4
  <2>8. entry'.price = price
    BY <2>3, <2>4
  <2>9. cash = 0
    BY <2>2 DEF Books, Unbooked
  <2>10. lots * price \in Int /\ cash' = -(lots * price)
    BY <2>1, <2>2, <2>9
  <2>11. Fields'
    BY <2>1, <2>2, <2>5, <2>6, <2>7, <2>8, <2>10 DEF Books, Fields
  <2>12. Unbooked'
    BY <2>1, <2>2, <2>6, <2>7, <2>8, <2>10 DEF Books, Unbooked, Pending, Final
  <2> QED
    BY <2>2, <2>6, <2>11, <2>12 DEF Books, Unbooked, Booked, Closed, Viewed, Pending, Final
<1>2. CASE EntryAnswered
  <2>1. /\ entry.phase = "answered" /\ UNCHANGED <<stop, review, market, cash>>
        /\ entry' = [entry EXCEPT !.phase = "done"]
    BY <1>2 DEF EntryAnswered
  <2>2. /\ entry'.phase = "done" /\ entry'.filled = entry.filled /\ entry'.price = entry.price
        /\ DOMAIN entry' = DOMAIN entry
    BY <2>1 DEF Books, Fields
  <2>3. /\ Pending /\ row.partial = 0 /\ row.by = "none" /\ stop.phase = "idle" /\ ~Final
        /\ entry.filled # 0 => entry.price \in 1..99
        /\ cash = -(entry.filled * entry.price)
    BY <2>1 DEF Books, Unbooked
  <2>4. CASE entry.filled = 0
    <3>1. row' = [row EXCEPT !.outcome = "voided", !.pnl = 0]
      BY <1>2, <2>4 DEF EntryAnswered
    <3>2. Fields'
      BY <2>1, <2>2, <3>1 DEF Books, Fields
    <3>3. row'.outcome = "voided"
      BY <3>1 DEF Books, Fields
    <3> QED
      BY <2>1, <2>2, <2>3, <3>2, <3>3 DEF Books, Unbooked, Booked, Closed, Viewed, Pending, Final
  <2>5. CASE entry.filled # 0
    <3> DEFINE cost == entry.filled * entry.price
    <3>1. row' = [row EXCEPT !.price = entry.price, !.shares = entry.filled, !.size = cost]
      BY <1>2, <2>5 DEF EntryAnswered
    <3>2. cost \in Int
      BY DEF Books, Fields
    <3>2a. cash = -cost
      BY <2>3
    <3> HIDE DEF cost
    <3>3. {"outcome", "price", "shares", "size", "partial", "pnl", "by", "saved"} \subseteq DOMAIN row
      BY DEF Books, Fields
    <3>4. DOMAIN row' = DOMAIN row
      BY <3>1
    <3>5. row'.price = entry.price
      BY <3>1, <3>3
    <3>6. row'.shares = entry.filled
      BY <3>1, <3>3
    <3>7. row'.size = cost
      BY <3>1, <3>3
    <3>8. /\ row'.outcome = row.outcome /\ row'.partial = row.partial /\ row'.pnl = row.pnl
          /\ row'.by = row.by
      BY <3>1, <3>3
    <3>9. Fields'
      BY <2>1, <2>2, <3>4, <3>6, <3>8 DEF Books, Fields
    <3>10. row'.size = row'.shares * row'.price
      BY <3>5, <3>6, <3>7 DEF cost
    <3>11. cash' = row'.partial - row'.size
      BY <2>1, <2>3, <3>2, <3>2a, <3>7, <3>8
    <3>12. Booked'
      BY <2>1, <2>2, <2>3, <2>5, <3>2, <3>5, <3>7, <3>8, <3>10, <3>11 DEF Booked, Pending, Final
    <3> QED
      BY <2>1, <2>2, <2>3, <3>8, <3>9, <3>12 DEF Books, Unbooked, Closed, Viewed, Pending, Final
  <2> QED
    BY <2>4, <2>5
<1> QED
  BY <1>1, <1>2

\* The pass up to the ask changes no cash and no row.
LEMMA AskBooks ==
  ASSUME PositionAssumption, Plain, Plain', Books,
         \/ StopLook \/ SellRaises
         \/ \E mark \in Bids : StopPasses(mark) \/ StopAsks(mark)
  PROVE  Books'
<1>0. UNCHANGED <<row, entry, review, market, cash>>
  BY DEF StopLook, SellRaises, StopPasses, StopAsks
<1>1. ASSUME /\ {"phase", "shares", "price", "filled", "avg"} \subseteq DOMAIN stop'
             /\ stop'.filled \in Nat /\ stop'.avg \in Int
             /\ stop.phase # "answered" /\ stop'.phase # "answered"
             /\ entry.phase # "done" => stop'.phase = "idle"
             /\ stop'.phase # "idle" =>
                  Pending /\ ~Final /\ stop'.shares = row.shares /\ stop'.price = row.price
      PROVE  Books'
  BY <1>0, <1>1 DEF Books, Fields, Unbooked, Booked, Closed, Viewed, Pending, Final, Payout
<1>2. CASE StopLook
  <2>1. entry.phase = "done"
    BY <1>2 DEF StopLook, Seen, Plain
  <2>2. /\ stop.phase = "idle" /\ Pending /\ market = "open"
        /\ stop' = [NoStop EXCEPT !.phase = "marking", !.shares = row.shares,
                                  !.price = row.price]
    BY <1>2 DEF StopLook, NoStop
  <2>3. stop' = [phase |-> "marking", shares |-> row.shares, price |-> row.price, mark |-> 0,
                 filled |-> 0, avg |-> 0]
    BY <2>2 DEF NoStop
  <2>4. /\ {"phase", "shares", "price", "filled", "avg"} \subseteq DOMAIN stop'
        /\ stop'.phase = "marking" /\ stop'.filled = 0 /\ stop'.avg = 0
        /\ stop'.shares = row.shares /\ stop'.price = row.price
    BY <2>3
  <2>5. ~Final
    BY <2>2 DEF Final
  <2> QED
    BY <1>1, <2>1, <2>2, <2>4, <2>5
<1>3. ASSUME NEW mark \in Bids, StopPasses(mark) PROVE Books'
  BY <1>1, <1>3 DEF StopPasses, NoStop
<1>4. ASSUME NEW mark \in Bids, StopAsks(mark) PROVE Books'
  <2>1. /\ stop.phase = "marking" /\ stop' = [stop EXCEPT !.phase = "asked", !.mark = mark]
    BY <1>4 DEF StopAsks
  <2> QED
    BY <1>1, <2>1 DEF Books, Fields, Unbooked, Booked
<1>5. CASE SellRaises
  BY <1>1, <1>5 DEF SellRaises, NoStop
<1> QED
  BY <1>2, <1>3, <1>4, <1>5

\* What a sell brings is cash before it is booked.
LEMMA SellBooks ==
  ASSUME PositionAssumption, Plain, Plain', Books, NEW lots \in Lots, NEW price \in FillPrices,
         SellFills(lots, price) \/ SellReplyLost(lots, price)
  PROVE  Books'
<1>0. lots \in Nat /\ price \in Int
  BY DEF Lots, PositionAssumption
<1>1. /\ stop.phase = "asked" /\ market = "open" /\ cash' = cash + lots * price
      /\ UNCHANGED <<row, entry, review, market>>
  BY DEF SellFills, SellReplyLost, AskFills
<1>2. lots * price \in Int
  BY <1>0
<1>3. entry.phase = "done" /\ Pending
  BY <1>1 DEF Books, Unbooked, Booked
<1>4. row.size \in Int /\ row.partial \in Int /\ cash \in Int
  BY <1>3 DEF Books, Fields, Booked, Pending
<1>5. CASE SellFills(lots, price)
  <2>1. stop' = [stop EXCEPT !.phase = "answered", !.filled = lots, !.avg = price]
    BY <1>5 DEF SellFills
  <2>2. {"phase", "shares", "price", "filled", "avg"} \subseteq DOMAIN stop
    BY DEF Books, Fields
  <2>3. stop'.phase = "answered"
    BY <2>1, <2>2
  <2>4. stop'.filled = lots
    BY <2>1, <2>2
  <2>5. stop'.avg = price
    BY <2>1, <2>2
  <2>6. stop'.shares = stop.shares /\ stop'.price = stop.price /\ DOMAIN stop' = DOMAIN stop
    BY <2>1, <2>2
  <2>7. Fields'
    BY <1>0, <1>1, <1>2, <1>4, <2>2, <2>4, <2>5, <2>6 DEF Books, Fields
  <2>8. cash = row.partial - row.size
    BY <1>1, <1>3, <1>4 DEF Books, Booked, Final
  <2>9. cash' = row'.partial - row'.size + stop'.filled * stop'.avg
    BY <1>1, <1>2, <1>4, <2>4, <2>5, <2>8
  <2>10. stop'.filled * stop'.avg \in Int
    BY <1>2, <2>4, <2>5
  <2>11. Booked'
    BY <1>1, <1>3, <1>4, <2>3, <2>6, <2>9, <2>10 DEF Books, Booked, Pending, Final
  <2> QED
    BY <1>1, <1>3, <2>7, <2>11 DEF Books, Unbooked, Closed, Viewed, Pending, Final
<1>6. CASE SellReplyLost(lots, price)
  <2>1. lots = 0 /\ stop' = NoStop
    BY <1>0, <1>6 DEF SellReplyLost, Seen, Plain
  <2>2. cash' = cash
    BY <1>0, <1>1, <1>4, <2>1
  <2> QED
    BY <1>1, <1>3, <2>1, <2>2 DEF NoStop, Books, Fields, Unbooked, Booked, Closed, Viewed,
                                  Pending, Final
<1> QED
  BY <1>5, <1>6

\* An exit in part banks its gain in the row, one in full closes it.
LEMMA AnsweredBooks ==
  ASSUME PositionAssumption, HoldingInv, Plain, Plain', Books, SellAnswered
  PROVE  Books'
<1> DEFINE gain == (stop.avg - stop.price) * stop.filled
           left == stop.shares - stop.filled
<1>1. /\ stop.phase = "answered" /\ stop' = NoStop
      /\ UNCHANGED <<exchange, entry, review, market, held, cash>>
      /\ row' = IF stop.filled = 0 THEN row
                ELSE IF left > 0
                THEN [row EXCEPT !.shares = left, !.size = left * stop.price,
                                 !.partial = @ + gain]
                ELSE Exited(gain)
  BY DEF SellAnswered
<1>2. /\ entry.phase = "done" /\ Pending /\ ~Final
      /\ stop.shares = row.shares /\ stop.price = row.price
      /\ row.price \in 1..99 /\ row.price = entry.price
      /\ row.size = row.shares * row.price /\ row.by = "none"
      /\ cash = row.partial - row.size + stop.filled * stop.avg
  <2>1. entry.phase = "done"
    BY <1>1 DEF Books, Unbooked
  <2>2. /\ Pending /\ ~Final
        /\ stop.shares = row.shares /\ stop.price = row.price
    BY <1>1, <2>1 DEF Books, Booked
  <2>3. row.price \in 1..99 /\ row.price = entry.price
        /\ row.size = row.shares * row.price /\ row.by = "none"
    BY <2>1, <2>2 DEF Books, Booked, Pending
  <2>4. /\ row.partial \in Int /\ row.size \in Int
        /\ stop.filled * stop.avg \in Int
    BY <2>3 DEF Books, Fields
  <2>5. cash = row.partial - row.size + stop.filled * stop.avg
    BY <1>1, <2>1, <2>2, <2>4 DEF Books, Booked
  <2> QED
    BY <2>1, <2>2, <2>3, <2>5
<1>3. stop.filled <= stop.shares
  BY <1>1, <1>2 DEF HoldingInv, Selling, Plain, Clean
<1>4. /\ row.shares \in Nat /\ row.partial \in Int /\ row.pnl \in Int /\ row.price \in Nat
      /\ stop.filled \in Nat /\ stop.avg \in Int /\ cash \in Int
      /\ {"outcome", "price", "shares", "size", "partial", "pnl", "by", "saved"} \subseteq DOMAIN row
  BY <1>2 DEF Books, Fields
<1>5. gain \in Int /\ left \in Nat
  BY <1>2, <1>3, <1>4
<1>6. cash - gain = row.partial - left * row.price
  <2> DEFINE n == row.shares  f == stop.filled  p == row.price  a == stop.avg
  <2>1. n \in Int /\ f \in Int /\ p \in Int /\ a \in Int
    BY <1>4
  <2>2. cash = row.partial - n * p + f * a
    BY <1>2
  <2>3. gain = (a - p) * f /\ left = n - f
    BY <1>2
  <2> HIDE DEF n, f, p, a, gain, left
  <2>4. (a - p) * f = f * a - f * p /\ (n - f) * p = n * p - f * p
    BY <2>1
  <2>5. n * p \in Int /\ f * a \in Int /\ f * p \in Int
    BY <2>1
  <2>6. cash - gain = row.partial - left * p
    BY <1>4, <2>2, <2>3, <2>4, <2>5
  <2> QED
    BY <2>6 DEF p
<1>7. CASE stop.filled = 0
  <2>1. row' = row
    BY <1>1, <1>7
  <2>2. row.size \in Int /\ stop.filled * stop.avg = 0
    BY <1>2, <1>4, <1>7
  <2>3. cash = row.partial - row.size
    BY <1>2, <1>4, <2>2
  <2> QED
    BY <1>1, <1>2, <2>1, <2>2, <2>3 DEF NoStop, Books, Fields, Unbooked, Booked, Closed,
                                        Viewed, Pending, Final
<1>8. CASE stop.filled # 0 /\ left > 0
  <2> DEFINE rest == left * row.price
             banked == row.partial + gain
  <2>1. row' = [row EXCEPT !.shares = left, !.size = rest, !.partial = banked]
    BY <1>1, <1>2, <1>8
  <2>2. rest \in Int /\ banked \in Int /\ cash = banked - rest
    BY <1>4, <1>5, <1>6
  <2> HIDE DEF rest, banked, left, gain
  <2>3. row'.shares = left
    BY <1>4, <2>1
  <2>4. row'.size = rest
    BY <1>4, <2>1
  <2>5. row'.partial = banked
    BY <1>4, <2>1
  <2>6. /\ row'.outcome = row.outcome /\ row'.price = row.price /\ row'.pnl = row.pnl
        /\ row'.by = row.by /\ DOMAIN row' = DOMAIN row
    BY <1>4, <2>1
  <2>7. Fields'
    BY <1>1, <1>4, <1>5, <2>2, <2>3, <2>5, <2>6 DEF NoStop, Books, Fields
  <2>8. row'.size = row'.shares * row'.price
    BY <2>3, <2>4, <2>6 DEF rest
  <2>9. cash' = row'.partial - row'.size
    BY <1>1, <2>2, <2>4, <2>5
  <2>10. Booked'
    BY <1>1, <1>2, <2>2, <2>4, <2>5, <2>6, <2>8, <2>9 DEF NoStop, Booked, Pending, Final
  <2> QED
    BY <1>1, <1>2, <2>6, <2>7, <2>10 DEF Books, Unbooked, Closed, Viewed, Pending, Final
<1>9. CASE stop.filled # 0 /\ ~(left > 0)
  <2>1. row' = Exited(gain)
    BY <1>1, <1>9
  <2>2. left = 0 /\ 0 * row.price = 0
    BY <1>4, <1>5, <1>9
  <2>3. cash = gain + row.partial
    BY <1>4, <1>5, <1>6, <2>2
  <2> HIDE DEF gain, left
  <2>4. /\ row'.outcome = "lost" /\ row'.pnl = gain /\ row'.by = "stop"
        /\ row'.shares = row.shares /\ row'.size = row.size /\ row'.partial = row.partial
        /\ row'.price = row.price /\ DOMAIN row' = DOMAIN row
    BY <1>4, <2>1 DEF Exited
  <2>5. Fields'
    BY <1>1, <1>4, <1>5, <2>4 DEF NoStop, Books, Fields
  <2>6. Booked'
    BY <1>1, <1>2, <2>4 DEF NoStop, Booked, Pending, Final
  <2>7. Closed'
    BY <1>1, <1>2, <2>3, <2>4 DEF Closed
  <2> QED
    BY <1>1, <1>2, <2>5, <2>6, <2>7 DEF Books, Unbooked, Viewed, Final
<1> QED
  BY <1>7, <1>8, <1>9

\* Kalshi's account has neither tranches nor resting orders.
LEMMA NoTranches ==
  ASSUME PositionAssumption, HoldingInv, Plain, Books
  PROVE  /\ ~\E heard \in BOOLEAN : PostTranche(heard)
         /\ ~TrancheFails
         /\ ~\E lots \in 1..resting : RestingFills(lots)
         /\ ~\E lots \in Lots : StopPolymarket(lots)
<1>1. exchange = "kalshi" /\ resting = 0 /\ entry.phase # "tranche"
  BY DEF Plain, HoldingInv, ByExchange
<1>2. \A heard \in BOOLEAN : ~PostTranche(heard)
  BY <1>1 DEF PostTranche
<1>3. ~TrancheFails
  BY <1>1 DEF TrancheFails
<1>4. 1..resting = {}
  BY <1>1
<1>5. \A lots \in Lots : ~StopPolymarket(lots)
  BY <1>1 DEF StopPolymarket
<1> QED
  BY <1>2, <1>3, <1>4, <1>5

\* The market pays for the lots of the row.
LEMMA MarketBooks ==
  ASSUME PositionAssumption, HoldingInv, Plain, Plain', Books,
         CloseMarket \/ \E result \in {"yes", "no"} : Finalize(result)
  PROVE  Books'
<1>1. CASE CloseMarket
  <2>1. /\ market = "open" /\ market' = "closed"
        /\ UNCHANGED <<row, entry, stop, review, cash>>
    BY <1>1 DEF CloseMarket
  <2> QED
    BY <2>1 DEF Books, Fields, Unbooked, Booked, Closed, Viewed, Pending, Final, Payout
<1>2. ASSUME NEW result \in {"yes", "no"}, Finalize(result)
      PROVE  Books'
  <2>1. /\ entry.phase = "done" /\ stop.phase = "idle" /\ review = NoView
        /\ market = "closed" /\ market' = result
        /\ cash' = cash + (IF result = "yes" THEN 100 * held ELSE 0)
        /\ UNCHANGED <<row, entry, stop, review>>
    BY <1>2 DEF Finalize, Seen, Plain, NoStop
  <2>2. ~Final /\ Final'
    BY <2>1 DEF Final
  <2>3. held = IF Pending THEN row.shares ELSE 0
    BY <2>1, <2>2 DEF HoldingInv, Selling, Plain, Clean
  <2>4. cash \in Int /\ row.shares \in Nat /\ row.partial \in Int
    BY DEF Books, Fields
  <2>5. CASE Pending
    <3>1. row.size \in Int /\ cash = row.partial - row.size
      <4>1. row.size = row.shares * row.price /\ row.price \in 1..99
        BY <2>1, <2>5 DEF Books, Booked, Pending
      <4>2. row.size \in Int
        BY <2>4, <4>1
      <4> QED
        BY <2>1, <2>2, <2>4, <2>5, <4>2 DEF Books, Booked
    <3>2. /\ cash' = row.partial - row.size + Payout' * row.shares
          /\ cash' \in Int /\ Payout' * row.shares \in Int
      <4>1. CASE result = "yes"
        BY <2>1, <2>3, <2>4, <2>5, <3>1, <4>1 DEF Payout
      <4>2. CASE result = "no"
        BY <2>1, <2>3, <2>4, <2>5, <3>1, <4>2 DEF Payout
      <4> QED
        BY <4>1, <4>2
    <3>3. Fields'
      BY <2>1, <3>2 DEF Books, Fields
    <3>4. Booked'
      <4>1. cash' = row'.partial - row'.size + 0 + Payout' * row'.shares
        BY <2>1, <2>4, <3>1, <3>2
      <4>2. stop'.phase # "answered" /\ stop'.phase = "idle"
        BY <2>1
      <4> HIDE DEF Payout
      <4>3. (row'.partial - row'.size) + 0 + Payout' * row'.shares = cash'
        BY <4>1
      <4> QED
        BY <2>1, <2>2, <2>5, <4>1, <4>2 DEF Books, Booked, Pending
    <3> QED
      BY <2>1, <2>2, <2>5, <3>3, <3>4 DEF Books, Unbooked, Closed, Viewed, Pending
  <2>6. CASE ~Pending
    <3>1. cash' = cash
      BY <2>1, <2>3, <2>4, <2>6
    <3>2. row.by # "annotated" \/ row.outcome \notin {"won", "lost"}
      BY <2>2 DEF Books, Closed
    <3> QED
      BY <2>1, <2>2, <2>6, <3>1, <3>2 DEF Books, Fields, Unbooked, Booked, Closed, Viewed, Pending
  <2> QED
    BY <2>5, <2>6
<1> QED
  BY <1>1, <1>2

\* The lots of a row are what its size buys.
LEMMA LotsOfSize ==
  ASSUME NEW n \in Nat, NEW p \in 1..99
  PROVE  (n * p) \div p = n
OBVIOUS

\* The reviewer settles what it read, which a final market leaves as it is.
LEMMA ReviewBooks ==
  ASSUME PositionAssumption, HoldingInv, Plain, Books,
         ReviewLook \/ ReviewEnds \/ AnnotateLook \/ AnnotateEnds
  PROVE  Books'
<1>0. UNCHANGED <<entry, stop, market, cash>>
  BY DEF ReviewLook, ReviewEnds, AnnotateLook, AnnotateEnds
<1>1. CASE ReviewLook \/ AnnotateLook
  <2>1. /\ row' = row /\ review' = row
        /\ row.outcome = "pending" \/ (row.outcome = "lost" /\ row.by = "stop")
    BY <1>1 DEF ReviewLook, AnnotateLook, Pending
  <2> QED
    BY <1>0, <2>1 DEF Books, Fields, Unbooked, Booked, Closed, Viewed, Pending, Final, Payout
<1>2. CASE (ReviewEnds \/ AnnotateEnds) /\ ~Final
  <2>1. row' = row /\ review' = NoView
    BY <1>2 DEF ReviewEnds, AnnotateEnds
  <2> QED
    BY <1>0, <1>2, <2>1 DEF Books, Fields, Unbooked, Booked, Closed, Viewed, Pending, Final, Payout
<1>3. ASSUME Final
      PROVE  /\ entry.phase = "done" /\ stop.phase = "idle"
             /\ review # NoView => review = row
             /\ row.shares \in Nat /\ row.partial \in Int /\ cash \in Int /\ row.pnl \in Int
             /\ {"outcome", "price", "shares", "size", "partial", "pnl", "by", "saved"}
                  \subseteq DOMAIN row
             /\ Payout \in {0, 100}
  BY <1>3 DEF Books, Fields, Unbooked, Booked, Viewed, Payout
<1>4. CASE ReviewEnds /\ Final
  <2> DEFINE pnl     == SettledPnl(row)
             outcome == IF market = "yes" THEN "won" ELSE "lost"
  <2>1. /\ row' = [row EXCEPT !.outcome = outcome, !.pnl = pnl, !.by = "review",
                              !.partial = row.partial]
        /\ review' = NoView /\ Pending
    BY <1>3, <1>4 DEF ReviewEnds, Pending
  <2>2. /\ row.size = row.shares * row.price /\ row.price \in 1..99 /\ row.size \in Int
        /\ row.price = entry.price
    <3>1. row.size = row.shares * row.price /\ row.price \in 1..99 /\ row.price = entry.price
      BY <1>3, <1>4, <2>1 DEF Books, Booked, Pending
    <3> QED
      BY <1>3, <1>4, <3>1
  <2>3. cash = row.partial - row.size + Payout * row.shares
    <3>1. cash = row.partial - row.size + 0 + Payout * row.shares
      BY <1>3, <1>4, <2>1 DEF Books, Booked
    <3> QED
      BY <1>3, <1>4, <2>2, <3>1
  <2>4. pnl = cash
    <3>1. row.size \div row.price = row.shares
      BY <1>3, <1>4, <2>2, LotsOfSize
    <3>2. pnl = (IF market = "yes" THEN 100 * row.shares ELSE 0) - row.size + row.partial
      BY <3>1 DEF SettledPnl
    <3> HIDE DEF pnl
    <3>3. CASE market = "yes"
      BY <1>3, <1>4, <2>2, <2>3, <3>2, <3>3 DEF Payout
    <3>4. CASE market # "yes"
      BY <1>3, <1>4, <2>2, <2>3, <3>2, <3>4 DEF Payout
    <3> QED
      BY <3>3, <3>4
  <2>5. outcome \in {"won", "lost"}
    OBVIOUS
  <2> HIDE DEF pnl, outcome
  <2>6. /\ row'.outcome \in {"won", "lost"} /\ row'.by = "review"
        /\ row'.price = row.price /\ row'.size = row.size /\ row'.shares = row.shares
        /\ row'.partial = row.partial /\ DOMAIN row' = DOMAIN row
    BY <1>3, <1>4, <2>1, <2>5
  <2>7. row'.pnl = cash
    BY <1>3, <1>4, <2>1, <2>4
  <2>8. Fields'
    BY <1>0, <1>3, <1>4, <2>6, <2>7 DEF Books, Fields
  <2>9. Booked'
    BY <1>0, <1>3, <1>4, <2>2, <2>6 DEF Booked, Pending
  <2>10. Closed'
    BY <1>0, <1>3, <1>4, <2>6, <2>7 DEF Closed
  <2> QED
    BY <1>0, <1>3, <1>4, <2>1, <2>8, <2>9, <2>10 DEF Books, Unbooked, Viewed
<1>5. CASE AnnotateEnds /\ Final
  <2> DEFINE saved == row.pnl - HoldPnl(row)
  <2>1. /\ row' = [row EXCEPT !.by = "annotated", !.partial = row.partial, !.saved = saved]
        /\ review' = NoView /\ row.outcome = "lost" /\ row.by = "stop"
    BY <1>3, <1>5 DEF AnnotateEnds, Books, Viewed
  <2>2. row.price = entry.price /\ row.price \in 1..99 /\ row.size = row.shares * row.price
    BY <1>3, <1>5, <2>1 DEF Books, Booked
  <2>3. cash = row.pnl + row.partial
    BY <2>1 DEF Books, Closed
  <2>4. saved = row.pnl - (Payout * row.shares - row.size)
    <3>1. (IF market = "yes" THEN 100 * row.shares ELSE 0) = Payout * row.shares
      BY <1>3, <1>5 DEF Payout
    <3> QED
      BY <3>1 DEF HoldPnl
  <2> HIDE DEF saved
  <2>5. /\ row'.outcome = "lost" /\ row'.by = "annotated" /\ row'.pnl = row.pnl
        /\ row'.price = row.price /\ row'.size = row.size /\ row'.shares = row.shares
        /\ row'.partial = row.partial /\ row'.saved = saved /\ DOMAIN row' = DOMAIN row
    BY <1>3, <1>5, <2>1
  <2>6. Fields'
    BY <1>0, <2>5 DEF Books, Fields
  <2>7. Booked'
    BY <1>0, <1>3, <1>5, <2>2, <2>5 DEF Booked, Pending
  <2>8. Closed'
    BY <1>0, <1>3, <1>5, <2>3, <2>4, <2>5 DEF Closed, Payout, Final
  <2> QED
    BY <1>0, <1>3, <1>5, <2>1, <2>6, <2>7, <2>8 DEF Books, Unbooked, Viewed
<1> QED
  BY <1>1, <1>2, <1>4, <1>5

LEMMA BookStep ==
  ASSUME PositionAssumption, HoldingInv, BookInv, [Next]_vars
  PROVE  BookInv'
<1> SUFFICES ASSUME Plain' PROVE Books'
  BY DEF BookInv
<1>1. Plain /\ Books
  BY PlainBefore DEF BookInv
<1>2. CASE Buy
  BY <1>1, <1>2, EntryBooks, NoTranches DEF Buy
<1>3. CASE Pass
  BY <1>1, <1>3, AskBooks, SellBooks, AnsweredBooks, NoTranches DEF Pass
<1>4. CASE UNCHANGED vars
  BY <1>1, <1>4 DEF vars, Books, Fields, Unbooked, Booked, Closed, Viewed, Pending, Final, Payout
<1> QED
  BY <1>1, <1>2, <1>3, <1>4, MarketBooks, ReviewBooks DEF Next

\* Whatever is bought and sold, in however many pieces, and whoever closes the
\* row: once it is closed its profit is the cash that was made, and the
\* counterfactual of a stop the difference to holding on (stop_loss.py:205,
\* reviewer.py:193).
THEOREM ProfitIsCash == ASSUME PositionAssumption PROVE Spec => []PnlIsCash
<1>1. HoldingInv /\ BookInv /\ [Next]_vars => BookInv'
  BY BookStep
<1>2. BookInv => PnlIsCash
  <2> SUFFICES ASSUME BookInv, exchange = "kalshi", amiss = {},
                      row.outcome \in {"won", "lost"},
                      ~(row.by \in {"stop", "annotated"} /\ row.partial # 0)
               PROVE  /\ row.pnl = cash
                      /\ row.by = "annotated" => row.saved = cash -
                           ((IF market = "yes" THEN 100 ELSE 0) - entry.price) * row.shares
    BY DEF PnlIsCash
  <2>1. Books
    BY DEF BookInv, Plain
  <2>2. /\ row.shares \in Nat /\ row.pnl \in Int /\ entry.phase = "done"
        /\ row.price = entry.price /\ row.price \in 1..99 /\ row.size = row.shares * row.price
    BY <2>1 DEF Books, Fields, Booked, Closed
  <2>3. row.pnl = cash
    BY <2>1, <2>2 DEF Books, Closed
  <2>4. ASSUME row.by = "annotated"
        PROVE  row.saved = cash - (Payout - entry.price) * row.shares
    <3>1. row.saved = row.pnl - (Payout * row.shares - row.shares * row.price)
      BY <2>1, <2>2, <2>4 DEF Books, Closed
    <3>2. Payout \in Int
      BY DEF Payout
    <3> HIDE DEF Payout
    <3>3. (Payout - row.price) * row.shares = Payout * row.shares - row.shares * row.price
      BY <2>2, <3>2
    <3> QED
      BY <2>2, <2>3, <3>1, <3>3
  <2> QED
    BY <2>3, <2>4 DEF Payout
<1>3. PositionAssumption => (Init => BookInv)
  BY InitBooks
<1> QED
  BY <1>1, <1>2, <1>3, HoldingAlways, PTL DEF Spec
=============================================================================
