------------------------------- MODULE Ladder -------------------------------
(***************************************************************************)
(* The ladder of the lazy strategy (strategies/lazy_weather/strategy.py):  *)
(* a market is bought once at each price threshold (rung) it climbs past.  *)
(* The risk manager's dedup is off for this strategy, so the strategy's    *)
(* own memory `fired' is all that keeps a rung from being bought twice.    *)
(*                                                                         *)
(* One instance of the strategy, and its strategy_loop: a scan queues its  *)
(* signals, they are submitted one by one, and only then is there another  *)
(* scan.  What the executor, the stop-loss and the settlement do to a row  *)
(* is reduced to its state.  Prices are in cents.                          *)
(***************************************************************************)
EXTENDS Integers, Sequences

CONSTANTS
  Markets,       \* Kalshi tickers, or (market_id, bucket) pairs
  Thresholds,    \* the rungs
  MaxPrice,      \* max_price
  Prices,        \* prices to consider
  Disturbances,
  MaxRows        \* bound: rows in the journal

\* "restart"        the process is killed and started again
\* "partial_fetch"  a listing misses markets that are still open: a series
\*                  that could not be fetched, a market without a price
DisturbanceKinds == {"restart", "partial_fetch"}

\* The ladder is a finite list: any part of it has a highest rung.
ASSUME LadderAssumption ==
  /\ Thresholds \subseteq Nat
  /\ \A some \in SUBSET Thresholds :
        some # {} => \E top \in some : \A rung \in some : rung <= top
  /\ MaxPrice \in Nat
  /\ Prices \subseteq Nat
  /\ Disturbances \subseteq DisturbanceKinds
  /\ MaxRows \in Nat

VARIABLES
  fired,   \* [Markets -> SUBSET Thresholds]; {} also when there is no entry
  listed,  \* markets the exchange still lists as open
  price,   \* [Markets -> Prices]
  queue,   \* signals of the last scan still to be submitted
  rows,    \* the journal's rows of this strategy
  earlier  \* history: rows that are older than the running process

vars == <<fired, listed, price, queue, rows, earlier>>

Signal == [market : Markets, rung : Thresholds, price : Prices]
Row == [market : Markets, rung : Thresholds, price : Prices,
        state : {"open", "closed", "voided"}]

Init ==
  /\ fired = [m \in Markets |-> {}]
  /\ listed = Markets
  /\ price \in [Markets -> Prices]
  /\ queue = {}
  /\ rows = << >>
  /\ earlier = 0

-----------------------------------------------------------------------------
(* scan() *)

Crossed(m) == {rung \in Thresholds \ fired[m] : rung <= price[m]}

\* Mutation: the price is remembered instead of the rungs.
FirePrice(m) == fired[m] \cup {price[m]}

\* Mutation: only the highest crossed rung is retired.
FireHighest(m) ==
  fired[m] \cup {rung \in Crossed(m) : \A other \in Crossed(m) : other <= rung}

\* The highest crossed rung is bought, the ones below it are retired with it.
Fire(m) == fired[m] \cup Crossed(m)

SignalOf(m) ==
  [market |-> m, price |-> price[m],
   rung   |-> CHOOSE rung \in Crossed(m) : \A other \in Crossed(m) : other <= rung]

\* `tradeable' are the markets inside the time window, liquid enough and with
\* a tight two-sided book.  An empty listing returns before anything changes;
\* otherwise the entries of markets that are not listed are dropped.
Scan(found, tradeable) ==
  LET signalled == {m \in tradeable : price[m] <= MaxPrice /\ Crossed(m) # {}}
  IN  /\ queue = {}
      /\ found # {}
      /\ found # listed => "partial_fetch" \in Disturbances
      /\ fired' = [m \in Markets |->
                     IF m \notin found THEN {}
                     ELSE IF m \in signalled THEN Fire(m)
                     ELSE fired[m]]
      /\ queue' = {SignalOf(m) : m \in signalled}
      /\ UNCHANGED <<listed, price, rows, earlier>>

-----------------------------------------------------------------------------
(* The rest of strategy_loop, and the life of a row *)

\* evaluate() or check_trade says no: the rung stays retired.
Reject(signal) ==
  /\ signal \in queue
  /\ queue' = queue \ {signal}
  /\ UNCHANGED <<fired, listed, price, rows, earlier>>

\* The row is entered, and voided when the order was not filled.
Submit(signal, state) ==
  /\ signal \in queue
  /\ Len(rows) < MaxRows
  /\ queue' = queue \ {signal}
  /\ rows' = Append(rows, [market |-> signal.market, rung |-> signal.rung,
                           price |-> signal.price, state |-> state])
  /\ UNCHANGED <<fired, listed, price, earlier>>

\* Stopped out, or settled once the market is gone.
Close(id) ==
  /\ rows[id].state = "open"
  /\ rows' = [rows EXCEPT ![id] = [rows[id] EXCEPT !.state = "closed"]]
  /\ UNCHANGED <<fired, listed, price, queue, earlier>>

-----------------------------------------------------------------------------
(* The world *)

Move(m, p) ==
  /\ m \in listed
  /\ price' = [price EXCEPT ![m] = p]
  /\ UNCHANGED <<fired, listed, queue, rows, earlier>>

Delist(m) ==
  /\ m \in listed
  /\ listed' = listed \ {m}
  /\ UNCHANGED <<fired, price, queue, rows, earlier>>

\* Mutation: nothing is hydrated.
NothingHydrated(m) == {}

\* _hydrate_fired_from_journal: the rungs of the open rows.
Hydrated(m) ==
  {rows[id].rung : id \in {i \in DOMAIN rows : rows[i].market = m /\ rows[i].state = "open"}}

Restart ==
  /\ "restart" \in Disturbances
  /\ fired' = [m \in Markets |-> Hydrated(m)]
  /\ queue' = {}
  /\ earlier' = Len(rows)
  /\ UNCHANGED <<listed, price, rows>>

-----------------------------------------------------------------------------
(* Specification *)

Next ==
  \/ \E found \in SUBSET listed : \E tradeable \in SUBSET found : Scan(found, tradeable)
  \/ \E signal \in queue :
        Reject(signal) \/ \E state \in {"open", "voided"} : Submit(signal, state)
  \/ \E id \in DOMAIN rows : Close(id)
  \/ \E m \in Markets : Delist(m) \/ \E p \in Prices : Move(m, p)
  \/ Restart

Spec == Init /\ [][Next]_vars

-----------------------------------------------------------------------------
(* Properties *)

TypeOK ==
  /\ fired \in [Markets -> SUBSET Thresholds]
  /\ listed \subseteq Markets
  /\ price \in [Markets -> Prices]
  /\ queue \subseteq Signal
  /\ rows \in Seq(Row)
  /\ earlier \in 0..Len(rows)

\* Bought by the running process, and not voided.
Bought == {id \in DOMAIN rows : earlier < id /\ rows[id].state # "voided"}

\* A pyramid (strategy.py:205): each add follows an observed climb, from a
\* price below the new rung to one at or above it.  A restart starts the
\* pyramid over: only the rungs of open rows are remembered.
AddsFollowClimb ==
  \A i, j \in Bought :
    i < j /\ rows[i].market = rows[j].market => rows[i].price < rows[j].rung

\* A rung with an open position is not bought again (strategy.py:108), a
\* restart included.
OpenRungNotDoubled ==
  \A i, j \in DOMAIN rows :
    /\ rows[i].state = "open" /\ rows[j].state = "open"
    /\ rows[i].market = rows[j].market
    /\ rows[i].rung = rows[j].rung
    => i = j
=============================================================================
