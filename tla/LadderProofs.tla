---------------------------- MODULE LadderProofs ----------------------------
(***************************************************************************)
(* Proofs about Ladder, for every set of markets, rungs and prices.        *)
(*                                                                         *)
(* Both properties speak of rows, but what a scan looks at is `fired'.     *)
(* Each invariant ties the two: what the rows of a listed market rule out  *)
(* is in `fired', and a queued signal already agrees with the rows.        *)
(***************************************************************************)
EXTENDS Ladder, SequenceTheorems, TLAPS

\* With complete listings: rungs with an open position are remembered, and
\* the queue holds one signal per market, for a rung without one.
OpenRemembered ==
  \A id \in DOMAIN rows :
    rows[id].state = "open" /\ rows[id].market \in listed =>
      rows[id].rung \in fired[rows[id].market]

QueueFresh ==
  \A signal \in queue :
    /\ signal.market \in listed => signal.rung \in fired[signal.market]
    /\ \A other \in queue : other.market = signal.market => other = signal
    /\ \A id \in DOMAIN rows :
         rows[id].state = "open" /\ rows[id].market = signal.market =>
           rows[id].rung # signal.rung

OpenInv == TypeOK /\ OpenRemembered /\ QueueFresh /\ OpenRungNotDoubled

\* And, for the rows of the running process: every rung at or below the price of a bought row
\* is remembered, and a queued signal is above the price of every such row.
Retired(m, p) == \A rung \in Thresholds : rung <= p => rung \in fired[m]

ClimbRemembered ==
  \A id \in Bought : rows[id].market \in listed => Retired(rows[id].market, rows[id].price)

QueueClimbs ==
  \A signal \in queue :
    /\ signal.rung <= signal.price
    /\ signal.market \in listed => Retired(signal.market, signal.price)
    /\ \A other \in queue : other.market = signal.market => other = signal
    /\ \A id \in Bought :
         rows[id].market = signal.market => rows[id].price < signal.rung

ClimbInv == TypeOK /\ ClimbRemembered /\ QueueClimbs /\ AddsFollowClimb

-----------------------------------------------------------------------------
(* What a signal is, and types *)

LEMMA SignalTop ==
  ASSUME LadderAssumption, TypeOK, NEW m \in Markets, Crossed(m) # {}
  PROVE  /\ SignalOf(m) \in Signal
         /\ SignalOf(m).market = m
         /\ SignalOf(m).price = price[m]
         /\ SignalOf(m).rung \in Crossed(m)
<1>1. Crossed(m) \in SUBSET Thresholds
  BY DEF Crossed
<1>2. \E top \in Crossed(m) : \A other \in Crossed(m) : other <= top
  BY <1>1 DEF LadderAssumption
<1>3. SignalOf(m).rung \in Crossed(m)
  BY <1>2 DEF SignalOf
<1> QED
  BY <1>1, <1>3 DEF SignalOf, Signal, TypeOK

LEMMA TypeKept ==
  ASSUME LadderAssumption, TypeOK, [Next]_vars
  PROVE  TypeOK'
<1>1. ASSUME NEW found \in SUBSET listed, NEW tradeable \in SUBSET found,
             Scan(found, tradeable)
      PROVE  TypeOK'
  <2>1. \A m \in Markets : fired'[m] \in SUBSET Thresholds
    BY <1>1 DEF Scan, TypeOK, Fire, Crossed
  <2>2. fired' \in [Markets -> SUBSET Thresholds]
    BY <1>1, <2>1 DEF Scan
  <2>3. queue' \subseteq Signal
    BY <1>1, SignalTop DEF Scan, TypeOK
  <2> QED
    BY <1>1, <2>2, <2>3 DEF Scan, TypeOK
<1>2. ASSUME NEW signal \in queue, Reject(signal)
      PROVE  TypeOK'
  BY <1>2 DEF Reject, TypeOK
<1>3. ASSUME NEW signal \in queue, NEW state \in {"open", "voided"}, Submit(signal, state)
      PROVE  TypeOK'
  <2>1. [market |-> signal.market, rung |-> signal.rung,
         price |-> signal.price, state |-> state] \in Row
    BY <1>3 DEF TypeOK, Signal, Row
  <2>2. rows' \in Seq(Row) /\ Len(rows') = Len(rows) + 1
    BY <1>3, <2>1 DEF Submit, TypeOK
  <2>3. earlier' \in 0..Len(rows')
    BY <1>3, <2>2 DEF Submit, TypeOK
  <2> QED
    BY <1>3, <2>2, <2>3 DEF Submit, TypeOK
<1>4. ASSUME NEW id \in DOMAIN rows, Close(id)
      PROVE  TypeOK'
  <2>1. rows[id] \in Row
    BY DEF TypeOK
  <2>2. [rows[id] EXCEPT !.state = "closed"] \in Row
    BY <2>1 DEF Row
  <2>3. rows' \in Seq(Row) /\ Len(rows') = Len(rows)
    BY <1>4, <2>2 DEF Close, TypeOK
  <2> QED
    BY <1>4, <2>3 DEF Close, TypeOK
<1>5. ASSUME NEW m \in Markets, Delist(m) \/ \E p \in Prices : Move(m, p)
      PROVE  TypeOK'
  BY <1>5 DEF Delist, Move, TypeOK
<1>6. CASE Restart
  <2>1. ASSUME NEW m \in Markets
        PROVE  Hydrated(m) \in SUBSET Thresholds
    <3>1. \A id \in DOMAIN rows : rows[id] \in Row
      BY DEF TypeOK
    <3>2. \A id \in DOMAIN rows : rows[id].rung \in Thresholds
      BY <3>1 DEF Row
    <3> QED
      BY <3>2 DEF Hydrated
  <2> QED
    BY <1>6, <2>1 DEF Restart, TypeOK
<1>7. CASE UNCHANGED vars
  BY <1>7 DEF vars, TypeOK
<1> QED
  BY <1>1, <1>2, <1>3, <1>4, <1>5, <1>6, <1>7 DEF Next

\* Types hold also when listings are partial; the queue holds signals and the
\* rows of earlier processes stay apart from those of the running one.
THEOREM LadderTypeCorrect ==
  ASSUME LadderAssumption
  PROVE  Spec => []TypeOK
<1>1. Init => TypeOK
  BY DEF Init, LadderAssumption, TypeOK
<1>2. TypeOK /\ [Next]_vars => TypeOK'
  BY TypeKept
<1> QED
  BY <1>1, <1>2, PTL DEF Spec

LEMMA RowFields ==
  ASSUME TypeOK, NEW id \in DOMAIN rows
  PROVE  /\ rows[id].market \in Markets
         /\ rows[id].rung \in Thresholds
         /\ rows[id].price \in Prices
<1>1. rows[id] \in Row
  BY DEF TypeOK
<1> QED
  BY <1>1 DEF Row

\* The journal after one more row, and after one row was closed.
LEMMA RowAppended ==
  ASSUME TypeOK, NEW signal \in queue, NEW state, Submit(signal, state)
  PROVE  /\ DOMAIN rows' = DOMAIN rows \cup {Len(rows) + 1}
         /\ Len(rows) + 1 \notin DOMAIN rows
         /\ \A id \in DOMAIN rows : id \in Nat /\ id < Len(rows) + 1
         /\ \A id \in DOMAIN rows : rows'[id] = rows[id]
         /\ rows'[Len(rows) + 1].market = signal.market
         /\ rows'[Len(rows) + 1].rung = signal.rung
         /\ rows'[Len(rows) + 1].price = signal.price
BY DEF TypeOK, Submit

LEMMA RowClosed ==
  ASSUME TypeOK, NEW id \in DOMAIN rows, Close(id)
  PROVE  /\ DOMAIN rows' = DOMAIN rows
         /\ \A other \in DOMAIN rows :
              /\ rows'[other].market = rows[other].market
              /\ rows'[other].rung = rows[other].rung
              /\ rows'[other].price = rows[other].price
              /\ rows'[other].state = "open" => rows[other].state = "open"
              /\ rows'[other].state # "voided" => rows[other].state # "voided"
<1>1. rows[id] \in Row
  BY DEF TypeOK
<1>2. /\ DOMAIN rows' = DOMAIN rows
      /\ \A other \in DOMAIN rows \ {id} : rows'[other] = rows[other]
      /\ rows'[id] = [rows[id] EXCEPT !.state = "closed"]
  BY DEF TypeOK, Close
<1>3. /\ rows'[id].market = rows[id].market
      /\ rows'[id].rung = rows[id].rung
      /\ rows'[id].price = rows[id].price
      /\ rows'[id].state = "closed"
  BY <1>1, <1>2 DEF Row
<1>4. rows[id].state # "voided"
  BY DEF Close
<1> QED
  BY <1>2, <1>3, <1>4

-----------------------------------------------------------------------------
(* Open rungs *)

LEMMA OpenStep ==
  ASSUME LadderAssumption, "partial_fetch" \notin Disturbances, OpenInv, [Next]_vars
  PROVE  OpenInv'
<1>0. TypeOK /\ TypeOK' /\ OpenRemembered /\ QueueFresh /\ OpenRungNotDoubled
  BY TypeKept DEF OpenInv
<1>1. ASSUME NEW found \in SUBSET listed, NEW tradeable \in SUBSET found,
             Scan(found, tradeable)
      PROVE  OpenInv'
  <2>1. found = listed /\ listed \subseteq Markets
    BY <1>0, <1>1 DEF Scan, TypeOK
  <2>2. \A m \in listed : fired[m] \subseteq fired'[m]
    BY <1>1, <2>1 DEF Scan, Fire
  <2>3. OpenRemembered' /\ OpenRungNotDoubled'
    BY <1>0, <1>1, <2>2 DEF Scan, OpenRemembered, OpenRungNotDoubled
  <2>4. ASSUME NEW signal \in queue'
        PROVE  /\ signal.market \in listed
               /\ signal = SignalOf(signal.market)
               /\ signal.rung \in Crossed(signal.market)
               /\ fired'[signal.market] = Fire(signal.market)
    BY <1>0, <1>1, <2>1, SignalTop DEF Scan
  <2>5. QueueFresh'
    BY <1>0, <1>1, <2>4 DEF Scan, QueueFresh, OpenRemembered, Fire, Crossed
  <2> QED
    BY <1>0, <2>3, <2>5 DEF OpenInv
<1>2. ASSUME NEW signal \in queue, Reject(signal)
      PROVE  OpenInv'
  BY <1>0, <1>2 DEF Reject, OpenInv, OpenRemembered, QueueFresh, OpenRungNotDoubled
<1>3. ASSUME NEW signal \in queue, NEW state \in {"open", "voided"}, Submit(signal, state)
      PROVE  OpenInv'
  <2> DEFINE new == Len(rows) + 1
  <2>1. /\ DOMAIN rows' = DOMAIN rows \cup {new} /\ new \notin DOMAIN rows
        /\ \A id \in DOMAIN rows : rows'[id] = rows[id]
        /\ rows'[new].market = signal.market /\ rows'[new].rung = signal.rung
    BY <1>0, <1>3, RowAppended
  <2>2. UNCHANGED <<fired, listed>> /\ queue' = queue \ {signal}
    BY <1>3 DEF Submit
  <2> HIDE DEF new
  <2>3. OpenRemembered'
    BY <1>0, <2>1, <2>2 DEF OpenRemembered, QueueFresh
  <2>4. QueueFresh'
    BY <1>0, <2>1, <2>2 DEF QueueFresh
  <2>5. OpenRungNotDoubled'
    BY <1>0, <2>1, <2>2 DEF OpenRungNotDoubled, QueueFresh
  <2> QED
    BY <1>0, <2>3, <2>4, <2>5 DEF OpenInv
<1>4. ASSUME NEW id \in DOMAIN rows, Close(id)
      PROVE  OpenInv'
  <2>1. UNCHANGED <<fired, listed, queue>>
    BY <1>4 DEF Close
  <2>2. OpenRemembered' /\ QueueFresh' /\ OpenRungNotDoubled'
    BY <1>0, <1>4, <2>1, RowClosed DEF OpenRemembered, QueueFresh, OpenRungNotDoubled
  <2> QED
    BY <1>0, <2>2 DEF OpenInv
<1>5. ASSUME NEW m \in Markets, Delist(m) \/ \E p \in Prices : Move(m, p)
      PROVE  OpenInv'
  BY <1>0, <1>5 DEF Delist, Move, OpenInv, OpenRemembered, QueueFresh, OpenRungNotDoubled
<1>6. CASE Restart
  <2>1. OpenRemembered'
    <3>1. \A id \in DOMAIN rows : rows[id].market \in Markets
      BY <1>0, RowFields
    <3> QED
      BY <1>0, <1>6, <3>1 DEF Restart, OpenRemembered, Hydrated, TypeOK
  <2>2. QueueFresh' /\ OpenRungNotDoubled'
    BY <1>0, <1>6 DEF Restart, QueueFresh, OpenRungNotDoubled
  <2> QED
    BY <1>0, <2>1, <2>2 DEF OpenInv
<1>7. CASE UNCHANGED vars
  BY <1>0, <1>7 DEF vars, OpenInv, OpenRemembered, QueueFresh, OpenRungNotDoubled
<1> QED
  BY <1>1, <1>2, <1>3, <1>4, <1>5, <1>6, <1>7 DEF Next

\* With complete listings no rung ever has two open positions, although the
\* process may be killed between a scan and its submissions (strategy.py:108).
THEOREM OpenRungsHold ==
  ASSUME LadderAssumption, "partial_fetch" \notin Disturbances
  PROVE  Spec => []OpenRungNotDoubled
<1>1. Init => OpenInv
  BY DEF Init, LadderAssumption, OpenInv, TypeOK, OpenRemembered, QueueFresh, OpenRungNotDoubled
<1>2. OpenInv /\ [Next]_vars => OpenInv'
  BY OpenStep
<1>3. OpenInv => OpenRungNotDoubled
  BY DEF OpenInv
<1> QED
  BY <1>1, <1>2, <1>3, PTL DEF Spec

-----------------------------------------------------------------------------
(* Climbing *)

LEMMA ClimbStep ==
  ASSUME LadderAssumption, "partial_fetch" \notin Disturbances, ClimbInv, [Next]_vars
  PROVE  ClimbInv'
<1> USE DEF Retired
<1>0. TypeOK /\ TypeOK' /\ ClimbRemembered /\ QueueClimbs /\ AddsFollowClimb
  BY TypeKept DEF ClimbInv
<1>1. ASSUME NEW found \in SUBSET listed, NEW tradeable \in SUBSET found,
             Scan(found, tradeable)
      PROVE  ClimbInv'
  <2>1. found = listed /\ listed \subseteq Markets /\ UNCHANGED <<rows, listed, price, earlier>>
    BY <1>0, <1>1 DEF Scan, TypeOK
  <2>2. \A m \in listed : fired[m] \subseteq fired'[m]
    BY <1>1, <2>1 DEF Scan, Fire
  <2>3. ClimbRemembered' /\ AddsFollowClimb'
    BY <1>0, <2>1, <2>2 DEF ClimbRemembered, AddsFollowClimb, Bought
  <2>4. ASSUME NEW signal \in queue'
        PROVE  /\ signal.market \in listed
               /\ signal = SignalOf(signal.market)
               /\ signal.price = price[signal.market]
               /\ signal.rung \in Crossed(signal.market)
               /\ fired'[signal.market] = Fire(signal.market)
    BY <1>0, <1>1, <2>1, SignalTop DEF Scan
  <2>5. \A id \in Bought : rows[id].price \in Nat
    BY <1>0, RowFields DEF Bought, LadderAssumption
  <2>6. ASSUME NEW signal \in queue', NEW id \in Bought,
               rows[id].market = signal.market
        PROVE  rows[id].price < signal.rung
    <3>1. signal.rung \in Thresholds /\ signal.rung \notin fired[signal.market]
      BY <2>4, <2>6 DEF Crossed
    <3>2. ~(signal.rung <= rows[id].price)
      BY <1>0, <2>4, <2>6, <3>1 DEF ClimbRemembered
    <3>3. signal.rung \in Nat /\ rows[id].price \in Nat
      BY <2>5, <3>1 DEF LadderAssumption
    <3> QED
      BY <3>2, <3>3
  <2>7. \A signal \in queue' : /\ signal.rung <= signal.price
                               /\ \A rung \in Thresholds :
                                    rung <= signal.price => rung \in fired'[signal.market]
    BY <2>4 DEF Crossed, Fire
  <2>8. QueueClimbs'
    BY <2>1, <2>4, <2>6, <2>7 DEF QueueClimbs, Bought
  <2> QED
    BY <1>0, <2>3, <2>8 DEF ClimbInv
<1>2. ASSUME NEW signal \in queue, Reject(signal)
      PROVE  ClimbInv'
  BY <1>0, <1>2 DEF Reject, ClimbInv, ClimbRemembered, QueueClimbs, AddsFollowClimb, Bought
<1>3. ASSUME NEW signal \in queue, NEW state \in {"open", "voided"}, Submit(signal, state)
      PROVE  ClimbInv'
  <2> DEFINE new == Len(rows) + 1
  <2>1. /\ DOMAIN rows' = DOMAIN rows \cup {new} /\ new \notin DOMAIN rows
        /\ \A id \in DOMAIN rows : id \in Nat /\ id < new
        /\ \A id \in DOMAIN rows : rows'[id] = rows[id]
        /\ rows'[new].market = signal.market /\ rows'[new].rung = signal.rung
        /\ rows'[new].price = signal.price
    BY <1>0, <1>3, RowAppended
  <2>2. UNCHANGED <<fired, listed, earlier>> /\ queue' = queue \ {signal}
    BY <1>3 DEF Submit
  <2>3. new \in Nat
    BY <1>0 DEF TypeOK
  <2> HIDE DEF new
  <2>4. Bought' \subseteq Bought \cup {new} /\ Bought \subseteq DOMAIN rows
    BY <2>1, <2>2 DEF Bought
  <2>5. ClimbRemembered'
    BY <1>0, <2>1, <2>2, <2>4 DEF ClimbRemembered, QueueClimbs
  <2>6. QueueClimbs'
    BY <1>0, <2>1, <2>2, <2>4 DEF QueueClimbs
  <2>7. AddsFollowClimb'
    <3>1. SUFFICES ASSUME NEW i \in Bought', NEW j \in Bought', i < j,
                          rows'[i].market = rows'[j].market
                   PROVE  rows'[i].price < rows'[j].rung
      BY DEF AddsFollowClimb
    <3>2. CASE j = new
      <4>1. i \in Bought
        BY <2>3, <2>4, <3>1, <3>2
      <4> QED
        BY <1>0, <2>1, <2>4, <3>1, <3>2, <4>1 DEF QueueClimbs
    <3>3. CASE j # new
      <4>1. j \in Bought /\ i \in Bought
        BY <2>1, <2>3, <2>4, <3>1, <3>3
      <4> QED
        BY <1>0, <2>1, <2>4, <3>1, <4>1 DEF AddsFollowClimb
    <3> QED
      BY <3>2, <3>3
  <2> QED
    BY <1>0, <2>5, <2>6, <2>7 DEF ClimbInv
<1>4. ASSUME NEW id \in DOMAIN rows, Close(id)
      PROVE  ClimbInv'
  <2>1. UNCHANGED <<fired, listed, queue, earlier>>
    BY <1>4 DEF Close
  <2>2. Bought' \subseteq Bought /\ Bought \subseteq DOMAIN rows
    BY <1>0, <1>4, <2>1, RowClosed DEF Bought
  <2>3. ClimbRemembered' /\ QueueClimbs' /\ AddsFollowClimb'
    BY <1>0, <1>4, <2>1, <2>2, RowClosed DEF ClimbRemembered, QueueClimbs, AddsFollowClimb
  <2> QED
    BY <1>0, <2>3 DEF ClimbInv
<1>5. ASSUME NEW m \in Markets, Delist(m) \/ \E p \in Prices : Move(m, p)
      PROVE  ClimbInv'
  BY <1>0, <1>5 DEF Delist, Move, ClimbInv, ClimbRemembered, QueueClimbs, AddsFollowClimb, Bought
<1>6. CASE Restart
  <2>1. Bought' = {}
    BY <1>0, <1>6 DEF Restart, Bought, TypeOK
  <2>2. queue' = {}
    BY <1>6 DEF Restart
  <2> QED
    BY <1>0, <2>1, <2>2 DEF ClimbInv, ClimbRemembered, QueueClimbs, AddsFollowClimb
<1>7. CASE UNCHANGED vars
  BY <1>0, <1>7 DEF vars, ClimbInv, ClimbRemembered, QueueClimbs, AddsFollowClimb, Bought
<1> QED
  BY <1>1, <1>2, <1>3, <1>4, <1>5, <1>6, <1>7 DEF Next

\* With complete listings, every add a process makes to a market follows a
\* climb past a new rung since its last buy there (strategy.py:205).
THEOREM ClimbHolds ==
  ASSUME LadderAssumption, "partial_fetch" \notin Disturbances
  PROVE  Spec => []AddsFollowClimb
<1>1. Init => ClimbInv
  BY DEF Init, LadderAssumption, ClimbInv, TypeOK, ClimbRemembered, QueueClimbs,
         AddsFollowClimb, Bought
<1>2. ClimbInv /\ [Next]_vars => ClimbInv'
  BY ClimbStep
<1>3. ClimbInv => AddsFollowClimb
  BY DEF ClimbInv
<1> QED
  BY <1>1, <1>2, <1>3, PTL DEF Spec
=============================================================================
