------------------------------ MODULE Journal ------------------------------
(***************************************************************************)
(* The trade journal (core/logger.py): one SQLite row per trade, id        *)
(* assigned in insertion order.  A journal is the sequence of its rows, so *)
(* the id of a row is its index.  Every operation of TradeJournal is one   *)
(* transaction under the journal's lock and is one operator here.          *)
(*                                                                         *)
(* Time is the UTC day.  `resolved' is metadata.resolved_at: NotResolved   *)
(* until the reviewer settles the row.  `partial' is                       *)
(* metadata.partial_exit_pnl.  Money is an integer amount; entry_price and *)
(* shares, which move with size_usd, are left to module Position.          *)
(*                                                                         *)
(* None of the UPDATE statements looks at the outcome the row already has: *)
(* the operators below do not either.                                      *)
(***************************************************************************)
EXTENDS Integers, Sequences, FiniteSets, Functions

CONSTANTS
  Strategies,   \* instance names, e.g. lazy_kalshi, weather_kalshi
  Markets       \* market ids (Kalshi tickers, Polymarket ids)

Modes    == {"paper", "live"}
Outcomes == {"pending", "won", "lost", "voided"}

\* Days are counted from 1; 0 stands for the absent metadata.resolved_at.
NotResolved == 0

Row == [strategy : Strategies,
        market   : Markets,
        mode     : Modes,        \* metadata.mode
        day      : Nat,          \* timestamp
        size     : Nat,          \* size_usd
        outcome  : Outcomes,
        pnl      : Int,
        partial  : Int,
        resolved : Nat]

-----------------------------------------------------------------------------
(* Writes *)

RecordEntry(rows, strategy, market, mode, day, size) ==
  Append(rows, [strategy |-> strategy, market |-> market, mode |-> mode,
                day |-> day, size |-> size, outcome |-> "pending",
                pnl |-> 0, partial |-> 0, resolved |-> NotResolved])

\* The stop-loss exit: the metadata it merges carries no resolved_at.
RecordExit(rows, id, outcome, pnl) ==
  [rows EXCEPT ![id] = [rows[id] EXCEPT !.outcome = outcome, !.pnl = pnl]]

\* Mutation: the row keeps the intended size.
KeepIntendedSize(rows, id, size) == rows

UpdateEntryFill(rows, id, size) ==
  [rows EXCEPT ![id] = [rows[id] EXCEPT !.size = size]]

\* The row stays pending with the remainder; the realized chunk accumulates.
ApplyPartialExit(rows, id, size, realized) ==
  [rows EXCEPT ![id] = [rows[id] EXCEPT !.size = size, !.partial = rows[id].partial + realized]]

\* Mutation: an outcome the schema does not know.
VoidAsCancelled(rows, id) ==
  [rows EXCEPT ![id] = [rows[id] EXCEPT !.outcome = "cancelled", !.pnl = 0]]

VoidEntry(rows, id) ==
  [rows EXCEPT ![id] = [rows[id] EXCEPT !.outcome = "voided", !.pnl = 0]]

\* Reviewer._record_resolution writes the table directly.  It puts back the
\* metadata it read with its snapshot, `partial' among it, and stamps
\* resolved_at.
RecordResolution(rows, id, outcome, pnl, partial, day) ==
  [rows EXCEPT ![id] = [rows[id] EXCEPT !.outcome = outcome, !.pnl = pnl,
                                 !.partial = partial, !.resolved = day]]

-----------------------------------------------------------------------------
(* Queries *)

OpenIds(rows) == {id \in DOMAIN rows : rows[id].outcome = "pending"}

StrategyOpenIds(rows, strategy) ==
  {id \in OpenIds(rows) : rows[id].strategy = strategy}

\* COALESCE(metadata.resolved_at, timestamp)
ResolvedDay(row) == IF row.resolved # NotResolved THEN row.resolved ELSE row.day

ClosedSince(rows, day) ==
  {id \in DOMAIN rows : /\ rows[id].outcome \in {"won", "lost"}
                        /\ ResolvedDay(rows[id]) >= day}

RealizedPnlSince(rows, day) ==
  SumFunctionOnSet([id \in DOMAIN rows |-> rows[id].pnl], ClosedSince(rows, day))

EntriesSince(rows, day) ==
  {id \in DOMAIN rows : /\ rows[id].day >= day
                        /\ rows[id].outcome # "voided"}

\* Total size_usd of the open positions among `ids'.
ExposureOf(rows, ids) ==
  SumFunctionOnSet([id \in DOMAIN rows |-> rows[id].size], ids \cap OpenIds(rows))

MarketExposure(rows, market) ==
  ExposureOf(rows, {id \in DOMAIN rows : rows[id].market = market})

=============================================================================
