---------------------------- MODULE KalshiOrder ----------------------------
(***************************************************************************)
(* One live submission to Kalshi, from the approved row to its last write: *)
(* Executor._place_kalshi_order, the two retry loops around a POST (the    *)
(* client's and the executor's) and the handlers of Executor.submit.       *)
(*                                                                         *)
(* The client awaits one request at a time.  A request it has given up on  *)
(* may still be travelling and may still land.  Kalshi takes one order per *)
(* client_order_id, fills it immediately or not at all, and answers.       *)
(*                                                                         *)
(* Money is in whole cents; a fill is a whole number of contracts at one   *)
(* average price not above the limit.                                      *)
(***************************************************************************)
EXTENDS Integers, FiniteSets

CONSTANTS
  Approvals,        \* sizes check_trade approves (cents)
  Signals,          \* records [price, floor]: the scanned price, the rung
  Mids,             \* what get_midpoint may answer; 50 when nothing is known
  MaxPriceDrift,    \* cents
  LimitOffset,      \* limit_offset_pct, in thousandths
  RetryMaxAttempts, \* the client's, kalshi.retry_max_attempts
  MaxOrderRetries,  \* the executor's, execution.max_order_retries
  FillPrices,       \* average fill prices to consider
  Disturbances

\* "busy"          Kalshi answers 429, 502, 503 or 504 and takes nothing
\* "request_lost"  a request never gets there
\* "reply_lost"    Kalshi's answer never gets back
\* "late"          the client times out on a request that is still travelling
\* "shutdown"      the task is cancelled, or the process dies
DisturbanceKinds ==
  {"busy", "request_lost", "reply_lost", "late", "shutdown"}

\* 99 cents is the highest limit there is: min_position_usd (config.yaml:17)
\* keeps every approved size above it.
ASSUME OrderAssumption ==
  /\ Approvals \subseteq Nat
  /\ \A size \in Approvals : size >= 99
  /\ \A signal \in Signals : signal.price \in 1..99 /\ signal.floor \in 0..99
  /\ Mids \subseteq 1..99
  /\ MaxPriceDrift \in Nat
  /\ LimitOffset \in Nat
  /\ RetryMaxAttempts \in Nat \ {0}
  /\ MaxOrderRetries \in Nat
  /\ FillPrices \subseteq 1..99
  /\ Disturbances \subseteq DisturbanceKinds

VARIABLES
  signal,    \* [price, floor] of the signal; floor 0 = no rung
  approved,  \* decision.size_usd
  phase,     \* where submit() is
  limit, count,     \* the order's terms, 0 before they are set
  inner, outer,     \* attempts used up in the client's and executor's loops
  sent,      \* POSTs sent so far
  reply,     \* what the awaited POST has brought back
  network,   \* requests on their way to Kalshi
  placed,    \* Kalshi's orders: client_order_id -> [filled, cost]
  row,       \* the journal's row: [outcome, size]
  result     \* ExecutionResult.reason, "none" until submit() returns

terms == <<signal, approved, limit, count>>
vars == <<signal, approved, phase, limit, count, inner, outer, sent, reply,
          network, placed, row, result>>

Phases == {"approved", "ready", "waiting", "returned", "cancelled"}
Reasons == {"live", "unfilled", "stale_quote", "insufficient_funds",
            "duplicate", "order_error"}
Answers == {"filled", "unfilled", "insufficient_funds", "rejected",
            "duplicate", "busy", "connection_error"}
Reply   == [kind : Answers \cup {"none"}, filled : Nat, cost : Nat]
Bare(kind) == [kind |-> kind, filled |-> 0, cost |-> 0]
NoReply == Bare("none")

Init ==
  /\ signal \in Signals
  /\ approved \in Approvals
  /\ phase = "approved"
  /\ limit = 0 /\ count = 0
  /\ inner = 0 /\ outer = 0 /\ sent = 0
  /\ reply = NoReply
  /\ network = {}
  /\ placed = [id \in {} |-> 0]
  /\ row = [outcome |-> "pending", size |-> approved]
  /\ result = "none"

-----------------------------------------------------------------------------
(* submit() returns *)

Return(reason, newRow) ==
  /\ phase' = "returned"
  /\ result' = reason
  /\ row' = newRow
  /\ UNCHANGED <<terms, inner, outer, sent, network, placed>>

VoidedRow == [row EXCEPT !.outcome = "voided"]

Raise(reason) == Return(reason, VoidedRow)

\* A filled order is booked at what Kalshi says it cost.
FilledRow(answer) == [row EXCEPT !.size = answer.cost]

-----------------------------------------------------------------------------
(* _place_kalshi_order *)

Away(a, b) == IF a >= b THEN a - b ELSE b - a

Stale(mid) ==
  \/ Away(mid, signal.price) > MaxPriceDrift
  \/ signal.floor > 0 /\ mid < signal.floor

\* Mutation: not clamped into Kalshi's range.
UnclampedPrice == (signal.price * (1000 + LimitOffset) + 999) \div 1000

\* ceil(price * (1 + offset)) to whole cents, inside 1..99
LimitPrice ==
  LET cents == (signal.price * (1000 + LimitOffset) + 999) \div 1000
  IN  IF cents > 99 THEN 99 ELSE cents

\* Mutation: rounded up.
AffordableUp(price) == (approved + price - 1) \div price

Affordable(price) ==
  IF approved \div price = 0 THEN 1 ELSE approved \div price

\* No ticker, a NO signal, a client without credentials.
RefuseToPlace ==
  /\ phase = "approved"
  /\ Raise("order_error")
  /\ UNCHANGED reply

Quote(mid) ==
  /\ phase = "approved"
  /\ UNCHANGED reply
  /\ IF Stale(mid)
     THEN Raise("stale_quote")
     ELSE /\ phase' = "ready"
          /\ limit' = LimitPrice
          /\ count' = Affordable(LimitPrice)
          /\ UNCHANGED <<signal, approved, inner, outer, sent, network,
                         placed, row, result>>

\* Mutation: every turn of the executor's loop makes a new id.
FreshOrderId(attempt) == attempt + 1

\* One uuid for the whole submission, whatever the attempt.
ClientOrderId(attempt) == 1

Send ==
  /\ phase = "ready"
  /\ phase' = "waiting"
  /\ sent' = sent + 1
  /\ network' = network \cup {[id |-> ClientOrderId(outer), n |-> sent + 1]}
  /\ reply' = NoReply
  /\ UNCHANGED <<terms, inner, outer, placed, row, result>>

LastTurn(attempts) == attempts >= MaxOrderRetries

\* A transient error: the client's loop goes on, or the executor's does, or
\* the error reaches submit().
Retry ==
  /\ phase = "waiting"
  /\ reply.kind \in {"busy", "connection_error"}
  /\ UNCHANGED reply
  /\ IF inner + 1 < RetryMaxAttempts
     THEN /\ phase' = "ready"
          /\ inner' = inner + 1
          /\ UNCHANGED <<terms, outer, sent, network, placed, row, result>>
     ELSE IF LastTurn(outer + 1)
     THEN Raise("order_error")
     ELSE /\ phase' = "ready"
          /\ inner' = 0
          /\ outer' = outer + 1
          /\ UNCHANGED <<terms, sent, network, placed, row, result>>

\* Mutation: fill_count is not looked at.
ReceiveUnfilled ==
  /\ phase = "waiting"
  /\ UNCHANGED reply
  /\ \/ reply.kind = "filled"    /\ Return("live", FilledRow(reply))
     \/ reply.kind = "unfilled"  /\ Return("live", row)
     \/ reply.kind = "rejected"  /\ Raise("order_error")
     \/ reply.kind = "duplicate" /\ Return("duplicate", row)
     \/ reply.kind = "insufficient_funds" /\ Raise(reply.kind)

\* The permanent answers.  A duplicate leaves the row as it was entered.
Receive ==
  /\ phase = "waiting"
  /\ UNCHANGED reply
  /\ \/ reply.kind = "filled"    /\ Return("live", FilledRow(reply))
     \/ reply.kind = "rejected"  /\ Raise("order_error")
     \/ reply.kind = "duplicate" /\ Return("duplicate", row)
     \/ reply.kind \in {"unfilled", "insufficient_funds"} /\ Raise(reply.kind)

-----------------------------------------------------------------------------
(* Kalshi and the network *)

Awaited(request) == phase = "waiting" /\ request.n = sent

\* The answer reaches the client only if it still awaits this request.
Answer(request, answer) ==
  /\ network' = network \ {request}
  /\ reply' = IF Awaited(request) /\ reply = NoReply THEN answer ELSE reply
  /\ UNCHANGED <<terms, phase, inner, outer, sent, row, result>>

TakeOrder(request, filled, price) ==
  LET cost == filled * price
  IN  /\ request \in network
      /\ request.id \notin DOMAIN placed
      /\ filled <= count
      /\ price <= limit
      /\ placed' = [id \in DOMAIN placed \cup {request.id} |->
                      IF id = request.id THEN [filled |-> filled, cost |-> cost]
                                         ELSE placed[id]]
      /\ Answer(request, IF filled = 0
                         THEN Bare("unfilled")
                         ELSE [kind |-> "filled", filled |-> filled, cost |-> cost])

RefuseOrder(request, kind) ==
  /\ request \in network
  /\ \/ kind = "duplicate" /\ request.id \in DOMAIN placed
     \/ kind \in {"insufficient_funds", "rejected"} /\ request.id \notin DOMAIN placed
     \/ kind = "busy" /\ "busy" \in Disturbances
  /\ Answer(request, Bare(kind))
  /\ UNCHANGED placed

\* The client is told, or hears nothing more.
LoseRequest(request) ==
  /\ "request_lost" \in Disturbances
  /\ request \in network
  /\ \/ Answer(request, Bare("connection_error"))
     \/ Answer(request, NoReply)
  /\ UNCHANGED placed

LoseReply ==
  /\ "reply_lost" \in Disturbances
  /\ phase = "waiting"
  /\ reply # NoReply
  /\ reply' = Bare("connection_error")
  /\ UNCHANGED <<terms, phase, inner, outer, sent, network, placed, row, result>>

\* Mutation: the session has no timeout.
NoTimeOut == FALSE /\ UNCHANGED vars

\* The session's total timeout, also while the request may still land.
TimeOut ==
  /\ phase = "waiting"
  /\ reply = NoReply
  /\ "late" \in Disturbances \/ ~\E request \in network : Awaited(request)
  /\ reply' = Bare("connection_error")
  /\ UNCHANGED <<terms, phase, inner, outer, sent, network, placed, row, result>>

\* CancelledError passes every handler: the row stays as it was entered.
Shutdown ==
  /\ "shutdown" \in Disturbances
  /\ phase \notin {"returned", "cancelled"}
  /\ phase' = "cancelled"
  /\ UNCHANGED <<terms, inner, outer, sent, reply, network, placed, row, result>>

-----------------------------------------------------------------------------
(* Specification *)

Submit == RefuseToPlace \/ (\E mid \in Mids : Quote(mid)) \/ Send \/ Retry \/ Receive

Land(request) ==
  \/ \E filled \in 0..count, price \in FillPrices : TakeOrder(request, filled, price)
  \/ \E kind \in Answers : RefuseOrder(request, kind)

Environment ==
  \/ \E request \in network : Land(request) \/ LoseRequest(request)
  \/ LoseReply
  \/ TimeOut
  \/ Shutdown

Next == Submit \/ Environment

Spec == Init /\ [][Next]_vars

AwaitEnds ==
  \/ \E request \in network : Awaited(request) /\ Land(request)
  \/ TimeOut

\* The coroutine runs on when it can, and an await ends: with Kalshi's answer,
\* or with the session's timeout.
FairSpec == Spec /\ WF_vars(Submit) /\ WF_vars(AwaitEnds)

-----------------------------------------------------------------------------
(* Properties *)

TypeOK ==
  /\ signal \in Signals
  /\ approved \in Approvals
  /\ phase \in Phases
  /\ limit \in 0..99
  /\ count \in Nat
  /\ inner \in 0..(RetryMaxAttempts - 1)
  /\ outer \in Nat
  /\ sent \in Nat
  /\ reply \in Reply
  /\ network \subseteq [id : Nat, n : 1..sent]
  /\ DOMAIN placed \subseteq Nat
  /\ \A id \in DOMAIN placed : placed[id] \in [filled : Nat, cost : Nat]
  /\ row \in [outcome : {"pending", "voided"}, size : Nat]
  /\ result \in Reasons \cup {"none"}

\* client_order_id makes the retries idempotent (executor.py:549): whatever is
\* lost or late, one submission never puts two orders on the exchange.
PlacedOnce == Cardinality(DOMAIN placed) <= 1

\* What Kalshi charged for the submission, 0 while it holds nothing.
Held == IF 1 \in DOMAIN placed THEN placed[1].cost ELSE 0

\* The entry never costs more than check_trade approved (executor.py:546).
WithinApproval == \A id \in DOMAIN placed : placed[id].cost <= approved

\* A submission ends: the loops are bounded and every await is answered.
SubmissionEnds == <>(phase \in {"returned", "cancelled"})

\* The submission does what Submission promises.
Decision ==
  IF row.outcome = "voided" THEN [kind |-> "voided", size |-> 0]
  ELSE IF result = "live"      THEN [kind |-> "filled", size |-> row.size]
  ELSE IF result = "duplicate" THEN [kind |-> "kept", size |-> row.size]
  ELSE [kind |-> "entered", size |-> 0]

Promise == INSTANCE Submission WITH
  landed <- DOMAIN placed # {}, held <- Held, decision <- Decision

KeepsPromise == Promise!SubSpec
=============================================================================
