------------------------- MODULE KalshiOrderProofs -------------------------
(***************************************************************************)
(* Proofs about KalshiOrder, for every size, price, retry limit and every  *)
(* kind of disturbance.                                                    *)
(*                                                                         *)
(* TypeOK is not inductive for what the properties need.  OrderInv adds    *)
(* what ties the parts together: every request carries the one id, the     *)
(* order's terms fit in the approval, a `filled' or `duplicate' answer on  *)
(* its way speaks of the order Kalshi has, and the row is untouched until  *)
(* submit() returns.                                                       *)
(***************************************************************************)
EXTENDS KalshiOrder, FiniteSetTheorems, TLAPS

TermsFit == limit * count <= approved

OneId ==
  /\ \A request \in network : request.id = 1
  /\ DOMAIN placed \subseteq {1}
  /\ phase = "approved" => network = {} /\ DOMAIN placed = {}

CostFits == \A id \in DOMAIN placed : placed[id].cost <= approved

ReplyTrue ==
  /\ reply.kind = "filled" =>
       /\ 1 \in DOMAIN placed
       /\ reply.cost = placed[1].cost
       /\ reply.cost > 0
  /\ reply.kind = "duplicate" => 1 \in DOMAIN placed

RowTrue ==
  /\ result = "none" <=> phase # "returned"
  /\ result = "none" => row = [outcome |-> "pending", size |-> approved]
  /\ result = "live" => 1 \in DOMAIN placed /\ placed[1].cost > 0
                        /\ row = [outcome |-> "pending", size |-> placed[1].cost]
  /\ result = "duplicate" => 1 \in DOMAIN placed
                             /\ row = [outcome |-> "pending", size |-> approved]
  /\ result \notin {"none", "live", "duplicate"} => row.outcome = "voided"

OrderInv == TypeOK /\ TermsFit /\ OneId /\ CostFits /\ ReplyTrue /\ RowTrue

-----------------------------------------------------------------------------
(* Arithmetic *)

LEMMA ProductMonotone ==
  ASSUME NEW a \in Nat, NEW b \in Nat, NEW c \in Nat, NEW d \in Nat,
         a <= c, b <= d
  PROVE  a * b \in Nat /\ a * b <= d * c
<1>1. a * b <= a * d
  <2>1. d - b \in Nat /\ a * d = a * b + a * (d - b)
    BY SMT
  <2>2. a * (d - b) >= 0
    BY <2>1, SMT
  <2> QED
    BY <2>1, <2>2, SMT
<1>2. a * d <= c * d
  <2>1. c - a \in Nat /\ c * d = a * d + (c - a) * d
    BY SMT
  <2>2. (c - a) * d >= 0
    BY <2>1, SMT
  <2> QED
    BY <2>1, <2>2, SMT
<1> QED
  BY <1>1, <1>2, SMT

LEMMA LimitInRange ==
  ASSUME OrderAssumption, signal \in Signals
  PROVE  LimitPrice \in 1..99
<1> DEFINE raw == signal.price * (1000 + LimitOffset)
<1>1. signal.price \in 1..99 /\ LimitOffset \in Nat
  BY DEF OrderAssumption
<1>2. raw \in Nat /\ raw >= 1000
  <2>1. raw = 1000 * signal.price + signal.price * LimitOffset
    BY <1>1, SMT
  <2>2. signal.price * LimitOffset \in Nat
    BY <1>1, SMT
  <2> QED
    BY <1>1, <2>1, <2>2, SMT
<1> HIDE DEF raw
<1>3. (raw + 999) \div 1000 \in Int /\ (raw + 999) \div 1000 >= 1
  BY <1>2, SMT
<1> QED
  BY <1>3, SMT DEF LimitPrice, raw

\* int(size / limit) contracts cost no more than the size: an approved size is
\* at least 99 cents, so the max(1, ...) never rounds it up.
LEMMA AffordableFits ==
  ASSUME approved \in Nat, approved >= 99, NEW price \in 1..99
  PROVE  Affordable(price) \in Nat /\ price * Affordable(price) <= approved
<1>1. approved \div price \in Nat /\ price * (approved \div price) <= approved
  BY SMT
<1> QED
  BY <1>1, SMT DEF Affordable
-----------------------------------------------------------------------------
(* The invariant *)

LEMMA OrderInvInit ==
  ASSUME OrderAssumption, Init
  PROVE  OrderInv
<1>1. approved \in Nat
  BY DEF OrderAssumption, Init
<1>2. TypeOK
  BY <1>1 DEF OrderAssumption, Init, TypeOK, Phases, Reply, Answers, NoReply, Bare
<1>3. TermsFit
  BY <1>1 DEF Init, TermsFit
<1>4. OneId /\ CostFits /\ ReplyTrue /\ RowTrue
  BY DEF Init, OneId, CostFits, ReplyTrue, RowTrue, NoReply, Bare
<1> QED
  BY <1>2, <1>3, <1>4 DEF OrderInv

\* submit() returns with the row voided.
LEMMA RaiseKeeps ==
  ASSUME OrderAssumption, OrderInv, NEW reason, Raise(reason), UNCHANGED reply,
         reason \in {"unfilled", "stale_quote", "insufficient_funds", "order_error"},
         phase # "returned"
  PROVE  OrderInv'
<1> USE DEF Raise, Return, terms
<1>1. row \in [outcome : {"pending", "voided"}, size : Nat]
  BY DEF OrderInv, TypeOK
<1>2. row' \in [outcome : {"pending", "voided"}, size : Nat] /\ row'.outcome = "voided"
  BY <1>1 DEF VoidedRow
<1>3. TypeOK'
  BY <1>2 DEF OrderInv, TypeOK, Phases, Reasons
<1>4. TermsFit' /\ OneId' /\ CostFits' /\ ReplyTrue'
  BY DEF OrderInv, TermsFit, OneId, CostFits, ReplyTrue
<1>5. RowTrue'
  BY <1>2 DEF RowTrue
<1> QED
  BY <1>3, <1>4, <1>5 DEF OrderInv

LEMMA SubmitKeeps ==
  ASSUME OrderAssumption, OrderInv, Submit
  PROVE  OrderInv'
<1>1. CASE RefuseToPlace
  BY <1>1, RaiseKeeps DEF RefuseToPlace
<1>2. ASSUME NEW mid \in Mids, Quote(mid)
      PROVE  OrderInv'
  <2>1. CASE Stale(mid)
    BY <1>2, <2>1, RaiseKeeps DEF Quote
  <2>2. CASE ~Stale(mid)
    <3>1. LimitPrice \in 1..99
      BY LimitInRange DEF OrderInv, TypeOK
    <3>2. /\ Affordable(LimitPrice) \in Nat
          /\ LimitPrice * Affordable(LimitPrice) <= approved
      BY <3>1, AffordableFits DEF OrderInv, TypeOK, OrderAssumption
    <3>3. TypeOK' /\ TermsFit'
      BY <1>2, <2>2, <3>1, <3>2 DEF Quote, OrderInv, TypeOK, TermsFit, Phases
    <3>4. OneId' /\ CostFits' /\ ReplyTrue' /\ RowTrue'
      BY <1>2, <2>2 DEF Quote, OrderInv, OneId, CostFits, ReplyTrue, RowTrue
    <3> QED
      BY <3>3, <3>4 DEF OrderInv
  <2> QED
    BY <2>1, <2>2
<1>3. CASE Send
  <2>1. TypeOK'
    BY <1>3 DEF Send, OrderInv, TypeOK, terms, Phases, Reply, Answers, NoReply, Bare,
                ClientOrderId
  <2>2. TermsFit' /\ OneId' /\ CostFits' /\ ReplyTrue' /\ RowTrue'
    BY <1>3 DEF Send, OrderInv, TermsFit, OneId, CostFits, ReplyTrue, RowTrue, terms,
                NoReply, Bare, ClientOrderId
  <2> QED
    BY <2>1, <2>2 DEF OrderInv
<1>4. CASE Retry
  <2>1. CASE inner + 1 < RetryMaxAttempts
    <3>1. TypeOK'
      BY <1>4, <2>1 DEF Retry, OrderInv, TypeOK, terms, Phases, OrderAssumption
    <3>2. TermsFit' /\ OneId' /\ CostFits' /\ ReplyTrue' /\ RowTrue'
      BY <1>4, <2>1 DEF Retry, OrderInv, TermsFit, OneId, CostFits, ReplyTrue, RowTrue, terms
    <3> QED
      BY <3>1, <3>2 DEF OrderInv
  <2>2. CASE ~(inner + 1 < RetryMaxAttempts) /\ LastTurn(outer + 1)
    BY <1>4, <2>2, RaiseKeeps DEF Retry
  <2>3. CASE ~(inner + 1 < RetryMaxAttempts) /\ ~LastTurn(outer + 1)
    <3>1. TypeOK'
      BY <1>4, <2>3 DEF Retry, OrderInv, TypeOK, terms, Phases, OrderAssumption
    <3>2. TermsFit' /\ OneId' /\ CostFits' /\ ReplyTrue' /\ RowTrue'
      BY <1>4, <2>3 DEF Retry, OrderInv, TermsFit, OneId, CostFits, ReplyTrue, RowTrue, terms
    <3> QED
      BY <3>1, <3>2 DEF OrderInv
  <2> QED
    BY <2>1, <2>2, <2>3
<1>5. CASE Receive
  <2>1. CASE reply.kind = "filled"
    <3>1. Return("live", FilledRow(reply))
      BY <1>5, <2>1 DEF Receive
    <3>2. /\ row = [outcome |-> "pending", size |-> approved]
          /\ 1 \in DOMAIN placed /\ reply.cost = placed[1].cost /\ reply.cost > 0
          /\ reply.cost \in Nat
      BY <1>5, <2>1 DEF Receive, OrderInv, TypeOK, ReplyTrue, RowTrue, Reply
    <3>3. row' = [outcome |-> "pending", size |-> reply.cost]
      BY <3>1, <3>2 DEF Return, FilledRow
    <3>4. TypeOK'
      BY <1>5, <3>1, <3>2, <3>3 DEF Receive, Return, OrderInv, TypeOK, terms, Phases, Reasons
    <3>5. TermsFit' /\ OneId' /\ CostFits' /\ ReplyTrue' /\ RowTrue'
      BY <1>5, <3>1, <3>2, <3>3
         DEF Receive, Return, OrderInv, TermsFit, OneId, CostFits, ReplyTrue, RowTrue, terms
    <3> QED
      BY <3>4, <3>5 DEF OrderInv
  <2>2. CASE reply.kind = "duplicate"
    <3>1. Return("duplicate", row) /\ UNCHANGED reply /\ phase = "waiting"
      BY <1>5, <2>2 DEF Receive
    <3>2. TypeOK'
      BY <3>1 DEF Return, OrderInv, TypeOK, terms, Phases, Reasons
    <3>3. TermsFit' /\ OneId' /\ CostFits' /\ ReplyTrue' /\ RowTrue'
      BY <2>2, <3>1 DEF Return, OrderInv, TermsFit, OneId, CostFits, ReplyTrue, RowTrue, terms
    <3> QED
      BY <3>2, <3>3 DEF OrderInv
  <2>3. CASE reply.kind \notin {"filled", "duplicate"}
    BY <1>5, <2>3, RaiseKeeps DEF Receive
  <2> QED
    BY <2>1, <2>2, <2>3
<1> QED
  BY <1>1, <1>2, <1>3, <1>4, <1>5 DEF Submit

\* An answer changes only what is on its way.
LEMMA AnswerKeeps ==
  ASSUME OrderAssumption, OrderInv, NEW request \in network, NEW answer \in Reply,
         Answer(request, answer), UNCHANGED placed,
         answer.kind \notin {"filled", "duplicate"} \/ 
           (answer.kind = "duplicate" /\ 1 \in DOMAIN placed)
  PROVE  OrderInv'
<1>1. reply' \in {answer, reply}
  BY DEF Answer
<1>2. TypeOK'
  BY <1>1 DEF Answer, OrderInv, TypeOK, terms
<1>3. TermsFit' /\ OneId' /\ CostFits' /\ RowTrue'
  BY DEF Answer, OrderInv, TermsFit, OneId, CostFits, RowTrue, terms
<1>4. ReplyTrue'
  BY <1>1 DEF Answer, OrderInv, ReplyTrue
<1> QED
  BY <1>2, <1>3, <1>4 DEF OrderInv

LEMMA BareIsReply ==
  ASSUME NEW kind \in Answers
  PROVE  Bare(kind) \in Reply /\ Bare(kind).kind = kind
BY DEF Bare, Reply

\* The order Kalshi takes is the submission's only one, and its cost fits.
LEMMA TakeOrderKeeps ==
  ASSUME OrderAssumption, OrderInv, NEW request \in network,
         NEW filled \in 0..count, NEW price \in FillPrices,
         TakeOrder(request, filled, price)
  PROVE  OrderInv'
<1> DEFINE cost == filled * price
           answer == IF filled = 0
                     THEN Bare("unfilled")
                     ELSE [kind |-> "filled", filled |-> filled, cost |-> cost]
<1>1. /\ count \in Nat /\ limit \in 0..99 /\ approved \in Nat
      /\ price \in 1..99 /\ price <= limit /\ filled \in Nat /\ filled <= count
  <2>1. count \in Nat /\ limit \in 0..99 /\ approved \in Approvals
    BY DEF OrderInv, TypeOK
  <2>2. Approvals \subseteq Nat /\ FillPrices \subseteq 1..99
    BY DEF OrderAssumption
  <2>3. filled <= count /\ price <= limit
    BY DEF TakeOrder
  <2> HIDE DEF cost, answer
  <2>4. filled \in Nat
    BY <2>1
  <2> QED
    BY <2>1, <2>2, <2>3, <2>4
<1>2. cost \in Nat /\ cost <= limit * count
  BY <1>1, ProductMonotone
<1>3. limit * count \in Nat /\ limit * count <= approved
  <2>1. limit * count \in Nat
    BY <1>1, ProductMonotone
  <2> QED
    BY <2>1 DEF OrderInv, TermsFit
<1>4. cost <= approved
  BY <1>1, <1>2, <1>3, SMT
<1>5. filled # 0 => cost > 0
  BY <1>1, SMT
<1> HIDE DEF cost
<1>6. request.id = 1 /\ 1 \notin DOMAIN placed /\ DOMAIN placed = {}
  BY DEF TakeOrder, OrderInv, OneId
<1>7. placed' = [id \in {1} |-> [filled |-> filled, cost |-> cost]]
  BY <1>6 DEF TakeOrder, cost
<1>8. Answer(request, answer)
  BY DEF TakeOrder, cost
<1>9. /\ answer \in Reply
      /\ answer.kind # "duplicate"
      /\ answer.kind = "filled" => answer.cost = cost /\ cost > 0
  BY <1>1, <1>2, <1>5 DEF Bare, Reply, Answers
<1>10. reply' \in {answer, reply}
  BY <1>8 DEF Answer
<1>11. TypeOK'
  BY <1>1, <1>2, <1>7, <1>8, <1>9, <1>10 DEF Answer, OrderInv, TypeOK, terms
<1>12. TermsFit' /\ OneId' /\ CostFits'
  BY <1>4, <1>6, <1>7, <1>8 DEF Answer, OrderInv, TermsFit, OneId, CostFits, terms
<1>13. ReplyTrue'
  <2>1. reply.kind \notin {"filled", "duplicate"}
    BY <1>6 DEF OrderInv, ReplyTrue
  <2> QED
    BY <1>7, <1>9, <1>10, <2>1 DEF ReplyTrue
<1>14. RowTrue'
  BY <1>6, <1>7, <1>8 DEF Answer, OrderInv, RowTrue, terms
<1> QED
  BY <1>11, <1>12, <1>13, <1>14 DEF OrderInv

LEMMA EnvironmentKeeps ==
  ASSUME OrderAssumption, OrderInv, Environment
  PROVE  OrderInv'
<1>1. ASSUME NEW request \in network, Land(request)
      PROVE  OrderInv'
  <2>1. ASSUME NEW filled \in 0..count, NEW price \in FillPrices,
               TakeOrder(request, filled, price)
        PROVE  OrderInv'
    BY <2>1, TakeOrderKeeps
  <2>2. ASSUME NEW kind \in Answers, RefuseOrder(request, kind)
        PROVE  OrderInv'
    <3>1. request.id = 1
      BY DEF OrderInv, OneId
    <3>2. kind \notin {"filled", "duplicate"} \/ (kind = "duplicate" /\ 1 \in DOMAIN placed)
      BY <2>2, <3>1 DEF RefuseOrder
    <3> QED
      BY <2>2, <3>2, AnswerKeeps, BareIsReply DEF RefuseOrder
  <2> QED
    BY <1>1, <2>1, <2>2 DEF Land
<1>2. ASSUME NEW request \in network, LoseRequest(request)
      PROVE  OrderInv'
  <2>1. "connection_error" \in Answers
    BY DEF Answers
  <2>2. NoReply \in Reply /\ NoReply.kind = "none"
    BY DEF NoReply, Bare, Reply
  <2> QED
    BY <1>2, <2>1, <2>2, AnswerKeeps, BareIsReply DEF LoseRequest
<1>3. CASE LoseReply \/ TimeOut
  <2>1. TypeOK'
    BY <1>3 DEF LoseReply, TimeOut, OrderInv, TypeOK, terms, Bare, Reply, Answers
  <2>2. TermsFit' /\ OneId' /\ CostFits' /\ ReplyTrue' /\ RowTrue'
    BY <1>3 DEF LoseReply, TimeOut, OrderInv, TermsFit, OneId, CostFits, ReplyTrue,
                RowTrue, terms, Bare
  <2> QED
    BY <2>1, <2>2 DEF OrderInv
<1>4. CASE Shutdown
  <2>1. TypeOK'
    BY <1>4 DEF Shutdown, OrderInv, TypeOK, terms, Phases
  <2>2. TermsFit' /\ OneId' /\ CostFits' /\ ReplyTrue' /\ RowTrue'
    BY <1>4 DEF Shutdown, OrderInv, TermsFit, OneId, CostFits, ReplyTrue, RowTrue, terms
  <2> QED
    BY <2>1, <2>2 DEF OrderInv
<1> QED
  BY <1>1, <1>2, <1>3, <1>4 DEF Environment

\* Every reachable state satisfies OrderInv.
LEMMA OrderInvAlways ==
  ASSUME OrderAssumption
  PROVE  Spec => []OrderInv
<1>1. Init => OrderInv
  BY OrderInvInit
<1>2. OrderInv /\ [Next]_vars => OrderInv'
  <2>1. SUFFICES ASSUME OrderInv, [Next]_vars PROVE OrderInv'
    OBVIOUS
  <2>2. CASE UNCHANGED vars
    BY <2>1, <2>2 DEF vars, OrderInv, TypeOK, TermsFit, OneId, CostFits, ReplyTrue, RowTrue
  <2> QED
    BY <2>1, <2>2, SubmitKeeps, EnvironmentKeeps DEF Next
<1> QED
  BY <1>1, <1>2, PTL DEF Spec

-----------------------------------------------------------------------------
(* Theorems *)

\* Every variable of a submission keeps its type, and the client's loop never
\* counts past retry_max_attempts.
THEOREM OrderTypeCorrect ==
  ASSUME OrderAssumption
  PROVE  Spec => []TypeOK
BY OrderInvAlways, PTL DEF OrderInv

\* However often the two loops send it, and whatever is lost or late, the
\* submission puts at most one order on the exchange.
THEOREM OneOrderOnly ==
  ASSUME OrderAssumption
  PROVE  Spec => []PlacedOnce
<1>1. OrderInv => PlacedOnce
  <2>1. SUFFICES ASSUME OrderInv PROVE PlacedOnce
    OBVIOUS
  <2>2. DOMAIN placed = {} \/ DOMAIN placed = {1}
    BY <2>1 DEF OrderInv, OneId
  <2>3. Cardinality({}) = 0 /\ Cardinality({1}) = 1
    BY FS_EmptySet, FS_Singleton
  <2> QED
    BY <2>2, <2>3, SMT DEF PlacedOnce
<1> QED
  BY <1>1, OrderInvAlways, PTL

\* What Kalshi charges for the submission is within what check_trade approved.
THEOREM CostWithinApproval ==
  ASSUME OrderAssumption
  PROVE  Spec => []WithinApproval
<1>1. OrderInv => WithinApproval
  BY DEF OrderInv, CostFits, WithinApproval
<1> QED
  BY <1>1, OrderInvAlways, PTL

\* submit() and _place_kalshi_order, with their retries and the network, do
\* what Submission promises.
THEOREM ImplementsSubmission ==
  ASSUME OrderAssumption
  PROVE  Spec => KeepsPromise
<1> USE DEF Promise!SubLand, Promise!SubDecide, Promise!Entered, Promise!Voided,
            Promise!FilledAt, Promise!KeptAt
<1>1. Init => Promise!SubInit
  BY DEF Init, Promise!SubInit, Held, Decision
<1>2. OrderInv /\ OrderInv' /\ [Next]_vars => [Promise!SubNext]_(Promise!subVars)
  <2>1. SUFFICES ASSUME OrderInv, OrderInv', [Next]_vars
                 PROVE  Promise!SubNext \/ UNCHANGED Promise!subVars
    OBVIOUS
  <2>2. ASSUME NEW reason, Raise(reason), phase # "returned",
               reason \in {"unfilled", "stale_quote", "insufficient_funds", "order_error"}
        PROVE  Promise!SubDecide
    <3>1. row = [outcome |-> "pending", size |-> approved] /\ result = "none"
      BY <2>1, <2>2 DEF OrderInv, RowTrue
    <3>2. Decision = Promise!Entered /\ Decision' = Promise!Voided
      BY <2>2, <3>1 DEF Raise, Return, VoidedRow, Decision
    <3> QED
      BY <2>2, <3>2 DEF Raise, Return, terms, Held
  <2>3. CASE Submit
    <3>1. CASE RefuseToPlace
      BY <2>2, <3>1 DEF RefuseToPlace, Promise!SubNext
    <3>2. ASSUME NEW mid \in Mids, Quote(mid)
          PROVE  Promise!SubNext \/ UNCHANGED Promise!subVars
      <4>1. CASE Stale(mid)
        BY <2>2, <3>2, <4>1 DEF Quote, Promise!SubNext
      <4>2. CASE ~Stale(mid)
        BY <3>2, <4>2 DEF Quote, Promise!subVars, Held, Decision
      <4> QED
        BY <4>1, <4>2
    <3>3. CASE Send
      BY <3>3 DEF Send, terms, Promise!subVars, Held, Decision
    <3>4. CASE Retry
      <4>1. CASE Raise("order_error")
        BY <2>2, <3>4, <4>1 DEF Retry, Promise!SubNext
      <4>2. CASE ~Raise("order_error")
        BY <3>4, <4>2 DEF Retry, terms, Promise!subVars, Held, Decision
      <4> QED
        BY <4>1, <4>2
    <3>5. CASE Receive
      <4>1. row = [outcome |-> "pending", size |-> approved] /\ result = "none"
        BY <2>1, <3>5 DEF Receive, OrderInv, RowTrue
      <4>2. CASE reply.kind = "filled"
        <5>1. Return("live", FilledRow(reply)) /\ 1 \in DOMAIN placed /\ reply.cost = placed[1].cost
          BY <2>1, <3>5, <4>2 DEF Receive, OrderInv, ReplyTrue
        <5>2. Decision = Promise!Entered /\ Decision' = Promise!FilledAt(Held) /\ Held > 0
          BY <2>1, <4>1, <4>2, <5>1 DEF OrderInv, ReplyTrue, Return, FilledRow, Decision, Held
        <5> QED
          BY <5>1, <5>2 DEF Return, terms, Held, Promise!SubNext
      <4>3. CASE reply.kind = "duplicate"
        <5>1. Return("duplicate", row) /\ 1 \in DOMAIN placed
          BY <2>1, <3>5, <4>3 DEF Receive, OrderInv, ReplyTrue
        <5>2. Decision = Promise!Entered /\ Decision' = Promise!KeptAt(approved)
          BY <4>1, <5>1 DEF Return, Decision
        <5> QED
          BY <5>1, <5>2 DEF Return, terms, Held, Promise!SubNext
      <4>4. CASE reply.kind \notin {"filled", "duplicate"}
        BY <2>2, <3>5, <4>4 DEF Receive, Promise!SubNext
      <4> QED
        BY <4>2, <4>3, <4>4
    <3> QED
      BY <2>3, <3>1, <3>2, <3>3, <3>4, <3>5 DEF Submit
  <2>4. CASE Environment
    <3>1. ASSUME NEW request \in network, NEW answer, Answer(request, answer), UNCHANGED placed
          PROVE  UNCHANGED Promise!subVars
      BY <3>1 DEF Answer, terms, Promise!subVars, Held, Decision
    <3>2. ASSUME NEW request \in network, NEW filled \in 0..count, NEW price \in FillPrices,
                 TakeOrder(request, filled, price)
          PROVE  Promise!SubLand
      <4>1. DOMAIN placed = {} /\ request.id = 1
        BY <2>1, <3>2 DEF TakeOrder, OrderInv, OneId
      <4>2. 1 \in DOMAIN placed' /\ placed'[1].cost \in 0..approved
        BY <2>1, <3>2, <4>1 DEF TakeOrder, OrderInv, TypeOK, CostFits, Answer, terms
      <4> QED
        BY <3>2, <4>1, <4>2 DEF TakeOrder, Answer, terms, Held, Decision
    <3>3. CASE LoseReply \/ TimeOut \/ Shutdown
      BY <3>3 DEF LoseReply, TimeOut, Shutdown, terms, Promise!subVars, Held, Decision
    <3> QED
      BY <2>4, <3>1, <3>2, <3>3 DEF Environment, Land, RefuseOrder, LoseRequest, Promise!SubNext
  <2>5. CASE UNCHANGED vars
    BY <2>5 DEF vars, Promise!subVars, Held, Decision
  <2> QED
    BY <2>1, <2>3, <2>4, <2>5 DEF Next
<1> QED
  BY <1>1, <1>2, OrderInvAlways, PTL DEF Spec, KeepsPromise, Promise!SubSpec
=============================================================================
