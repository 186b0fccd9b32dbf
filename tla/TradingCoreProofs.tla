------------------------- MODULE TradingCoreProofs -------------------------
(***************************************************************************)
(* What TradingCore promises for every set of strategies, markets and      *)
(* review tasks, every limit and every combination of disturbances.        *)
(*                                                                         *)
(* The argument rests on one fact about a step, JournalStep: the journal   *)
(* either gets one row that check_trade has just approved, or keeps its    *)
(* rows with no closed row made open again.                                *)
(*                                                                         *)
(* It begins with the journal: a write that is not record_entry keeps      *)
(* every row's identity and never makes a closed row open again (the       *)
(* relation KeepsClosed), and record_entry appends one open row (the       *)
(* relation Appended).                                                     *)
(***************************************************************************)
EXTENDS TradingCore, SumTheorems, SequenceTheorems

-----------------------------------------------------------------------------
(* The writes *)

\* What an entry is, whatever becomes of it.
SameEntry(old, new) ==
  /\ new.strategy = old.strategy
  /\ new.market = old.market
  /\ new.mode = old.mode
  /\ new.day = old.day

KeepsClosed(old, new) ==
  /\ new \in Seq(Row)
  /\ DOMAIN new = DOMAIN old
  /\ \A id \in DOMAIN old :
       /\ SameEntry(old[id], new[id])
       /\ new[id].outcome = "pending" => old[id].outcome = "pending"

Appended(old, new, strategy, traded) ==
  /\ new \in Seq(Row)
  /\ DOMAIN new = DOMAIN old \cup {Len(old) + 1}
  /\ Len(old) + 1 \notin DOMAIN old
  /\ \A id \in DOMAIN old : new[id] = old[id]
  /\ new[Len(old) + 1].strategy = strategy
  /\ new[Len(old) + 1].market = traded
  /\ new[Len(old) + 1].outcome = "pending"

\* Replacing one row by another of the schema gives a journal again.
LEMMA ReplaceRow ==
  ASSUME NEW trades \in Seq(Row), NEW id \in DOMAIN trades, NEW row \in Row
  PROVE  /\ [trades EXCEPT ![id] = row] \in Seq(Row)
         /\ DOMAIN [trades EXCEPT ![id] = row] = DOMAIN trades
<1>1. id \in 1..Len(trades) /\ Len(trades) \in Nat
  OBVIOUS
<1>2. [trades EXCEPT ![id] = row] \in Seq(Row)
  BY <1>1, ExceptSeq
<1> QED
  BY <1>2

\* A row that differs only in size, outcome, pnl, partial or resolved.
LEMMA ReplaceKeepsClosed ==
  ASSUME NEW trades \in Seq(Row), NEW id \in DOMAIN trades, NEW row \in Row,
         SameEntry(trades[id], row),
         row.outcome = "pending" => trades[id].outcome = "pending"
  PROVE  KeepsClosed(trades, [trades EXCEPT ![id] = row])
<1> DEFINE new == [trades EXCEPT ![id] = row]
<1>1. new \in Seq(Row) /\ DOMAIN new = DOMAIN trades
  BY ReplaceRow
<1>2. \A other \in DOMAIN trades : new[other] = IF other = id THEN row ELSE trades[other]
  OBVIOUS
<1> QED
  BY <1>1, <1>2 DEF KeepsClosed, SameEntry

LEMMA RowAt ==
  ASSUME NEW trades \in Seq(Row), NEW id \in DOMAIN trades
  PROVE  trades[id] \in Row
  OBVIOUS

\* Closing a row: the stop-loss exit and the void.
LEMMA ClosingKeepsClosed ==
  ASSUME NEW trades \in Seq(Row), NEW id \in DOMAIN trades,
         NEW outcome \in Outcomes \ {"pending"}, NEW pnl \in Int
  PROVE  KeepsClosed(trades, [trades EXCEPT ![id] =
                              [trades[id] EXCEPT !.outcome = outcome, !.pnl = pnl]])
<1> DEFINE row == [trades[id] EXCEPT !.outcome = outcome, !.pnl = pnl]
<1>1. trades[id] \in Row
  BY RowAt
<1>2. row \in Row /\ SameEntry(trades[id], row) /\ row.outcome = outcome
  BY <1>1 DEF Row, SameEntry
<1> QED
  BY <1>2, ReplaceKeepsClosed

LEMMA ExitKeepsClosed ==
  ASSUME NEW trades \in Seq(Row), NEW id \in DOMAIN trades,
         NEW outcome \in {"won", "lost"}, NEW pnl \in Int
  PROVE  KeepsClosed(trades, RecordExit(trades, id, outcome, pnl))
<1>1. outcome \in Outcomes \ {"pending"}
  BY DEF Outcomes
<1> QED
  BY <1>1, ClosingKeepsClosed DEF RecordExit

LEMMA VoidKeepsClosed ==
  ASSUME NEW trades \in Seq(Row), NEW id \in DOMAIN trades
  PROVE  KeepsClosed(trades, VoidEntry(trades, id))
<1>1. "voided" \in Outcomes \ {"pending"} /\ 0 \in Int
  BY DEF Outcomes
<1> QED
  BY <1>1, ClosingKeepsClosed DEF VoidEntry

\* Resizing a row: the reported fill and the partial stop-loss exit.
LEMMA ResizingKeepsClosed ==
  ASSUME NEW trades \in Seq(Row), NEW id \in DOMAIN trades, NEW size \in Nat,
         NEW partial \in Int
  PROVE  /\ KeepsClosed(trades, [trades EXCEPT ![id] = [trades[id] EXCEPT !.size = size]])
         /\ KeepsClosed(trades, [trades EXCEPT ![id] =
                                 [trades[id] EXCEPT !.size = size, !.partial = partial]])
<1> DEFINE filled == [trades[id] EXCEPT !.size = size]
           reduced == [trades[id] EXCEPT !.size = size, !.partial = partial]
<1>1. trades[id] \in Row
  BY RowAt
<1>2. filled \in Row /\ SameEntry(trades[id], filled) /\ filled.outcome = trades[id].outcome
  BY <1>1 DEF Row, SameEntry
<1>3. reduced \in Row /\ SameEntry(trades[id], reduced) /\ reduced.outcome = trades[id].outcome
  BY <1>1 DEF Row, SameEntry
<1>4. KeepsClosed(trades, [trades EXCEPT ![id] = filled])
  BY <1>2, ReplaceKeepsClosed
<1>5. KeepsClosed(trades, [trades EXCEPT ![id] = reduced])
  BY <1>3, ReplaceKeepsClosed
<1> QED
  BY <1>4, <1>5

LEMMA FillKeepsClosed ==
  ASSUME NEW trades \in Seq(Row), NEW id \in DOMAIN trades, NEW size \in Nat
  PROVE  KeepsClosed(trades, UpdateEntryFill(trades, id, size))
<1>1. 0 \in Int
  OBVIOUS
<1> QED
  BY <1>1, ResizingKeepsClosed DEF UpdateEntryFill

LEMMA PartialKeepsClosed ==
  ASSUME NEW trades \in Seq(Row), NEW id \in DOMAIN trades, NEW size \in Nat,
         NEW realized \in Int
  PROVE  KeepsClosed(trades, ApplyPartialExit(trades, id, size, realized))
<1>1. trades[id] \in Row
  BY RowAt
<1>2. trades[id].partial + realized \in Int
  BY <1>1 DEF Row
<1> QED
  BY <1>2, ResizingKeepsClosed DEF ApplyPartialExit

\* The row a settlement writes.
LEMMA ResolvedRow ==
  ASSUME NEW trades \in Seq(Row), NEW id \in DOMAIN trades,
         NEW outcome \in {"won", "lost"}, NEW pnl \in Int, NEW partial \in Int,
         NEW day \in Nat
  PROVE  LET row == RecordResolution(trades, id, outcome, pnl, partial, day)[id]
         IN  /\ row \in Row
             /\ SameEntry(trades[id], row)
             /\ row.size = trades[id].size
             /\ row.outcome = outcome /\ row.pnl = pnl
             /\ row.partial = partial /\ row.resolved = day
<1> DEFINE row == [trades[id] EXCEPT !.outcome = outcome, !.pnl = pnl,
                                   !.partial = partial, !.resolved = day]
<1>1. trades[id] \in Row
  BY RowAt
<1>2. /\ row \in Row /\ SameEntry(trades[id], row) /\ row.size = trades[id].size
      /\ row.outcome = outcome /\ row.pnl = pnl
      /\ row.partial = partial /\ row.resolved = day
  BY <1>1 DEF Row, Outcomes, SameEntry
<1>3. RecordResolution(trades, id, outcome, pnl, partial, day)[id] = row
  BY DEF RecordResolution
<1> QED
  BY <1>2, <1>3

\* A new entry is the last row and is open; the others are as they were.
LEMMA EntryAppends ==
  ASSUME NEW trades \in Seq(Row), NEW strategy \in Strategies, NEW traded \in Markets,
         NEW mode \in Modes, NEW day \in Nat, NEW size \in Nat
  PROVE  Appended(trades, RecordEntry(trades, strategy, traded, mode, day, size),
                  strategy, traded)
<1> DEFINE row == [strategy |-> strategy, market |-> traded, mode |-> mode,
                   day |-> day, size |-> size, outcome |-> "pending",
                   pnl |-> 0, partial |-> 0, resolved |-> NotResolved]
           new == Append(trades, row)
<1>1. row \in Row
  BY DEF Row, Outcomes, Modes, NotResolved
<1>2. /\ new \in Seq(Row)
      /\ Len(new) = Len(trades) + 1
      /\ \A id \in 1..Len(trades) : new[id] = trades[id]
      /\ new[Len(trades) + 1] = row
  BY <1>1, AppendProperties
<1>3. DOMAIN new = DOMAIN trades \cup {Len(trades) + 1} /\ Len(trades) + 1 \notin DOMAIN trades
  BY <1>2
<1>4. Appended(trades, new, strategy, traded)
  BY <1>2, <1>3 DEF Appended
<1> QED
  BY <1>4 DEF RecordEntry

-----------------------------------------------------------------------------

\* The open rows of a journal are finitely many.
LEMMA OpenFinite ==
  ASSUME NEW trades \in Seq(Row)
  PROVE  /\ IsFiniteSet(OpenIds(trades))
         /\ \A s : IsFiniteSet(StrategyOpenIds(trades, s))
<1>1. IsFiniteSet(1..Len(trades))
  BY FS_Interval
<1>2. OpenIds(trades) \subseteq 1..Len(trades)
  BY DEF OpenIds
<1>3. \A s : StrategyOpenIds(trades, s) \subseteq 1..Len(trades)
  BY DEF OpenIds, StrategyOpenIds
<1> QED
  BY <1>1, <1>2, <1>3, FS_Subset

\* A write that keeps closed rows closed never raises an open count.
LEMMA OpenCountsFall ==
  ASSUME NEW old \in Seq(Row), NEW new, KeepsClosed(old, new)
  PROVE  /\ OpenIds(new) \subseteq OpenIds(old)
         /\ Cardinality(OpenIds(new)) <= Cardinality(OpenIds(old))
         /\ \A s : Cardinality(StrategyOpenIds(new, s)) <= Cardinality(StrategyOpenIds(old, s))
<1>1. OpenIds(new) \subseteq OpenIds(old)
  BY DEF KeepsClosed, OpenIds
<1>2. \A s : StrategyOpenIds(new, s) \subseteq StrategyOpenIds(old, s)
  BY DEF KeepsClosed, SameEntry, OpenIds, StrategyOpenIds
<1> QED
  BY <1>1, <1>2, OpenFinite, FS_Subset

\* An entry raises the open counts by one, its own strategy's only.
LEMMA OpenCountsRise ==
  ASSUME NEW old \in Seq(Row), NEW new, NEW strategy, NEW traded,
         Appended(old, new, strategy, traded)
  PROVE  /\ OpenIds(new) = OpenIds(old) \cup {Len(old) + 1}
         /\ Cardinality(OpenIds(new)) = Cardinality(OpenIds(old)) + 1
         /\ Cardinality(StrategyOpenIds(new, strategy))
              = Cardinality(StrategyOpenIds(old, strategy)) + 1
         /\ \A s : s # strategy => StrategyOpenIds(new, s) = StrategyOpenIds(old, s)
<1>1. OpenIds(new) = OpenIds(old) \cup {Len(old) + 1} /\ Len(old) + 1 \notin OpenIds(old)
  BY DEF Appended, OpenIds
<1>2. /\ StrategyOpenIds(new, strategy) = StrategyOpenIds(old, strategy) \cup {Len(old) + 1}
      /\ Len(old) + 1 \notin StrategyOpenIds(old, strategy)
  BY <1>1 DEF Appended, OpenIds, StrategyOpenIds
<1>3. \A s : s # strategy => StrategyOpenIds(new, s) = StrategyOpenIds(old, s)
  BY <1>1 DEF Appended, OpenIds, StrategyOpenIds
<1>4. /\ Cardinality(OpenIds(new)) = Cardinality(OpenIds(old)) + 1
      /\ Cardinality(StrategyOpenIds(new, strategy))
           = Cardinality(StrategyOpenIds(old, strategy)) + 1
  BY <1>1, <1>2, OpenFinite, FS_AddElement
<1> QED
  BY <1>1, <1>3, <1>4

-----------------------------------------------------------------------------
(* What a write changes *)

OthersKept(old, new, id) == \A other \in DOMAIN old \ {id} : new[other] = old[other]

\* The reported fill: the size, and nothing else of one row.
Resized(old, new, id, size) ==
  /\ OthersKept(old, new, id)
  /\ SameEntry(old[id], new[id])
  /\ new[id].size = size
  /\ new[id].outcome = old[id].outcome
  /\ new[id].pnl = old[id].pnl
  /\ new[id].partial = old[id].partial
  /\ new[id].resolved = old[id].resolved

\* The void and the stop-loss exit: outcome and P&L of one row.
Closed(old, new, id, outcome, pnl) ==
  /\ OthersKept(old, new, id)
  /\ SameEntry(old[id], new[id])
  /\ new[id].size = old[id].size
  /\ new[id].outcome = outcome
  /\ new[id].pnl = pnl
  /\ new[id].partial = old[id].partial
  /\ new[id].resolved = old[id].resolved

LEMMA FillResizes ==
  ASSUME NEW trades \in Seq(Row), NEW id \in DOMAIN trades, NEW size \in Nat
  PROVE  Resized(trades, UpdateEntryFill(trades, id, size), id, size)
<1> DEFINE row == [trades[id] EXCEPT !.size = size]
           new == [trades EXCEPT ![id] = row]
<1>1. trades[id] \in Row
  BY RowAt
<1>2. /\ SameEntry(trades[id], row) /\ row.size = size /\ row.outcome = trades[id].outcome
      /\ row.pnl = trades[id].pnl /\ row.partial = trades[id].partial
      /\ row.resolved = trades[id].resolved
  BY <1>1 DEF Row, SameEntry
<1>3. new[id] = row /\ OthersKept(trades, new, id)
  BY DEF OthersKept
<1> HIDE DEF row
<1>4. Resized(trades, new, id, size)
  BY <1>2, <1>3 DEF Resized
<1> QED
  BY <1>4 DEF UpdateEntryFill, row

LEMMA ClosingCloses ==
  ASSUME NEW trades \in Seq(Row), NEW id \in DOMAIN trades, NEW outcome, NEW pnl
  PROVE  Closed(trades, [trades EXCEPT ![id] =
                         [trades[id] EXCEPT !.outcome = outcome, !.pnl = pnl]],
                id, outcome, pnl)
<1> DEFINE row == [trades[id] EXCEPT !.outcome = outcome, !.pnl = pnl]
           new == [trades EXCEPT ![id] = row]
<1>1. trades[id] \in Row
  BY RowAt
<1>2. /\ SameEntry(trades[id], row) /\ row.size = trades[id].size
      /\ row.outcome = outcome /\ row.pnl = pnl
      /\ row.partial = trades[id].partial /\ row.resolved = trades[id].resolved
  BY <1>1 DEF Row, SameEntry
<1>3. new[id] = row /\ OthersKept(trades, new, id)
  BY DEF OthersKept
<1> HIDE DEF row
<1>4. Closed(trades, new, id, outcome, pnl)
  BY <1>2, <1>3 DEF Closed
<1> QED
  BY <1>4 DEF row

LEMMA VoidCloses ==
  ASSUME NEW trades \in Seq(Row), NEW id \in DOMAIN trades
  PROVE  Closed(trades, VoidEntry(trades, id), id, "voided", 0)
  BY ClosingCloses DEF VoidEntry

LEMMA ExitCloses ==
  ASSUME NEW trades \in Seq(Row), NEW id \in DOMAIN trades, NEW outcome, NEW pnl
  PROVE  Closed(trades, RecordExit(trades, id, outcome, pnl), id, outcome, pnl)
  BY ClosingCloses DEF RecordExit

\* The row of a new entry.
LEMMA EntryRow ==
  ASSUME NEW trades \in Seq(Row), NEW strategy, NEW traded, NEW mode, NEW day, NEW size
  PROVE  LET row == RecordEntry(trades, strategy, traded, mode, day, size)[Len(trades) + 1]
         IN  /\ row.mode = mode /\ row.day = day /\ row.size = size
             /\ row.outcome = "pending" /\ row.partial = 0
             /\ row.resolved = NotResolved
<1>1. Len(trades) + 1 \in 1..(Len(trades) + 1) /\ Len(trades) \in Nat
  OBVIOUS
<1> QED
  BY <1>1 DEF RecordEntry

-----------------------------------------------------------------------------
(* Exposure *)

Sizes(trades) == [id \in DOMAIN trades |-> trades[id].size]

LEMMA SizesAreNat ==
  ASSUME NEW trades \in Seq(Row)
  PROVE  \A id \in DOMAIN trades : Sizes(trades)[id] = trades[id].size /\ trades[id].size \in Nat
<1> SUFFICES ASSUME NEW id \in DOMAIN trades
             PROVE  Sizes(trades)[id] = trades[id].size /\ trades[id].size \in Nat
  OBVIOUS
<1>1. trades[id] \in Row
  BY RowAt
<1> QED
  BY <1>1 DEF Row, Sizes

LEMMA ExposureIsSum ==
  ASSUME NEW trades, NEW ids
  PROVE  ExposureOf(trades, ids) = SumFunctionOnSet(Sizes(trades), ids \cap OpenIds(trades))
  BY DEF ExposureOf, Sizes

LEMMA ExposureType ==
  ASSUME NEW trades \in Seq(Row), NEW ids
  PROVE  ExposureOf(trades, ids) \in Nat
<1>1. IsFiniteSet(ids \cap OpenIds(trades))
  BY OpenFinite, FS_Subset
<1>2. \A id \in ids \cap OpenIds(trades) : Sizes(trades)[id] \in Nat
  BY SizesAreNat DEF OpenIds
<1> QED
  BY <1>1, <1>2, SumNat, ExposureIsSum

\* Open rows that do not grow, and no row reopened: no more exposure.
LEMMA ExposureFalls ==
  ASSUME NEW old \in Seq(Row), NEW new \in Seq(Row), KeepsClosed(old, new),
         \A id \in DOMAIN old : new[id].size <= old[id].size, NEW ids
  PROVE  ExposureOf(new, ids) <= ExposureOf(old, ids)
<1> DEFINE now == ids \cap OpenIds(new)
           before == ids \cap OpenIds(old)
<1>1. now \subseteq before
  BY OpenCountsFall
<1>2. IsFiniteSet(now) /\ IsFiniteSet(before)
  BY OpenFinite, FS_Subset
<1>3. now \subseteq DOMAIN old /\ before \subseteq DOMAIN old /\ DOMAIN new = DOMAIN old
  BY DEF OpenIds, KeepsClosed
<1>4. /\ \A id \in now : /\ Sizes(new)[id] \in Int /\ Sizes(old)[id] \in Int
                         /\ Sizes(new)[id] <= Sizes(old)[id]
      /\ \A id \in before : Sizes(old)[id] \in Nat
  BY <1>3, SizesAreNat
<1> HIDE DEF now, before
<1>5. SumFunctionOnSet(Sizes(new), now) <= SumFunctionOnSet(Sizes(old), now)
  BY <1>2, <1>4, SumAtMost
<1>6. SumFunctionOnSet(Sizes(old), now) <= SumFunctionOnSet(Sizes(old), before)
  BY <1>1, <1>2, <1>4, SumOfSubset
<1>7. /\ SumFunctionOnSet(Sizes(new), now) \in Int
      /\ SumFunctionOnSet(Sizes(old), now) \in Int
      /\ SumFunctionOnSet(Sizes(old), before) \in Int
  BY <1>1, <1>2, <1>4, SumInt
<1> QED
  BY <1>5, <1>6, <1>7, ExposureIsSum DEF now, before

\* An entry adds its size to the exposure of the ids that hold it.
LEMMA ExposureRises ==
  ASSUME NEW old \in Seq(Row), NEW new \in Seq(Row), NEW strategy, NEW traded,
         Appended(old, new, strategy, traded), NEW ids
  PROVE  ExposureOf(new, ids) = ExposureOf(old, ids)
           + (IF Len(old) + 1 \in ids THEN new[Len(old) + 1].size ELSE 0)
<1> DEFINE last == Len(old) + 1
           now == ids \cap OpenIds(new)
           before == ids \cap OpenIds(old)
<1>1. /\ last \notin before /\ last \in DOMAIN new
      /\ now = IF last \in ids THEN before \cup {last} ELSE before
  BY OpenCountsRise DEF Appended, OpenIds
<1>2. IsFiniteSet(before) /\ before \subseteq DOMAIN old
  BY OpenFinite, FS_Subset DEF OpenIds
<1>3. \A id \in before : Sizes(old)[id] \in Int /\ Sizes(new)[id] = Sizes(old)[id]
  BY <1>2, SizesAreNat DEF Appended
<1>4. Sizes(new)[last] = new[last].size /\ new[last].size \in Int
  BY <1>1, SizesAreNat
<1> HIDE DEF last, now, before
<1>5. SumFunctionOnSet(Sizes(old), before) = SumFunctionOnSet(Sizes(new), before)
  BY <1>2, <1>3, SumSame
<1>6. SumFunctionOnSet(Sizes(old), before) \in Int
  BY <1>2, <1>3, SumInt
<1>7. SumFunctionOnSet(Sizes(new), before \cup {last})
        = new[last].size + SumFunctionOnSet(Sizes(new), before)
  BY <1>1, <1>2, <1>3, <1>4, SumAdd
<1>8. CASE last \in ids
  <2>1. SumFunctionOnSet(Sizes(new), now)
          = SumFunctionOnSet(Sizes(old), before) + new[last].size
    BY <1>1, <1>4, <1>5, <1>6, <1>7, <1>8
  <2> QED
    BY <1>8, <2>1, ExposureIsSum DEF now, before, last
<1>9. CASE last \notin ids
  <2>1. SumFunctionOnSet(Sizes(new), now) = SumFunctionOnSet(Sizes(old), before) + 0
    BY <1>1, <1>5, <1>6, <1>9
  <2> QED
    BY <1>9, <2>1, ExposureIsSum DEF now, before, last
<1> QED
  BY <1>8, <1>9

\* At most so much per open row.
LEMMA ExposureBound ==
  ASSUME NEW trades \in Seq(Row), NEW each \in Nat, NEW most \in Nat,
         \A id \in DOMAIN trades : trades[id].size <= each,
         Cardinality(OpenIds(trades)) <= most
  PROVE  ExposureOf(trades, DOMAIN trades) <= most * each
<1> DEFINE count == Cardinality(OpenIds(trades))
<1>1. DOMAIN trades \cap OpenIds(trades) = OpenIds(trades) /\ IsFiniteSet(OpenIds(trades))
  BY OpenFinite DEF OpenIds
<1>2. \A id \in OpenIds(trades) : Sizes(trades)[id] \in Int /\ Sizes(trades)[id] <= each
  BY SizesAreNat DEF OpenIds
<1>3. ExposureOf(trades, DOMAIN trades) <= count * each
  BY <1>1, <1>2, SumOfEqualBound, ExposureIsSum
<1>4. count \in Nat /\ ExposureOf(trades, DOMAIN trades) \in Nat
  BY <1>1, FS_CardinalityType, ExposureType
<1> HIDE DEF count
<1>5. count * each \in Nat /\ most * each \in Nat /\ count * each <= most * each
  <2>1. PICK gap \in Nat : most = count + gap
    <3>1. most - count \in Nat /\ most = count + (most - count)
      BY <1>4 DEF count
    <3> QED
      BY <3>1
  <2>2. (count + gap) * each = count * each + gap * each /\ gap * each \in Nat
    BY <1>4
  <2>3. count * each \in Nat /\ most * each \in Nat
    BY <1>4
  <2> QED
    BY <2>1, <2>2, <2>3
<1> QED
  BY <1>3, <1>4, <1>5

-----------------------------------------------------------------------------
(* A day's result and the open book together *)

\* What a row counts for: its P&L if it closed since, its size as a loss if it
\* is open.
Values(trades, day) ==
  [id \in DOMAIN trades |->
     IF id \in ClosedSince(trades, day) THEN trades[id].pnl
     ELSE IF id \in OpenIds(trades) THEN -trades[id].size ELSE 0]

LEMMA ValuesAreInt ==
  ASSUME NEW trades \in Seq(Row), NEW day
  PROVE  /\ IsFiniteSet(DOMAIN trades)
         /\ \A id \in DOMAIN trades : /\ Values(trades, day)[id] \in Int
                                    /\ trades[id].pnl \in Int /\ trades[id].size \in Nat
<1>1. DOMAIN trades = 1..Len(trades) /\ IsFiniteSet(1..Len(trades))
  BY FS_Interval
<1>2. ASSUME NEW id \in DOMAIN trades
      PROVE  /\ Values(trades, day)[id] \in Int
             /\ trades[id].pnl \in Int /\ trades[id].size \in Nat
  <2>1. trades[id] \in Row
    BY RowAt
  <2>2. trades[id].pnl \in Int /\ trades[id].size \in Nat
    BY <2>1 DEF Row
  <2> QED
    BY <2>2 DEF Values
<1> QED
  BY <1>1, <1>2

LEMMA ValuesSum ==
  ASSUME NEW trades \in Seq(Row), NEW day
  PROVE  /\ RealizedPnlSince(trades, day) \in Int
         /\ SumFunctionOnSet(Values(trades, day), DOMAIN trades)
              = RealizedPnlSince(trades, day) - ExposureOf(trades, DOMAIN trades)
<1> DEFINE all == DOMAIN trades
           closed == ClosedSince(trades, day)
           open == OpenIds(trades)
           pnls == [id \in all |-> trades[id].pnl]
           paid == [id \in all |-> IF id \in closed THEN pnls[id] ELSE 0]
           staked == [id \in all |-> IF id \in open THEN Sizes(trades)[id] ELSE 0]
           values == Values(trades, day)
<1>1. /\ IsFiniteSet(all)
      /\ \A id \in all : values[id] \in Int /\ trades[id].pnl \in Int /\ trades[id].size \in Nat
  BY ValuesAreInt
<1>2. closed \in SUBSET all /\ open \in SUBSET all /\ closed \cap open = {}
  BY DEF ClosedSince, OpenIds
<1>3. /\ \A id \in all : /\ pnls[id] \in Int
                          /\ paid[id] = (IF id \in closed THEN pnls[id] ELSE 0)
      /\ \A id \in all : /\ Sizes(trades)[id] \in Int
                          /\ staked[id] = (IF id \in open THEN Sizes(trades)[id] ELSE 0)
  BY <1>1, SizesAreNat
<1>4. \A id \in all : /\ values[id] \in Int /\ staked[id] \in Int
                     /\ paid[id] = values[id] + staked[id]
  BY <1>1, <1>2, <1>3 DEF Values, Sizes
<1>5. RealizedPnlSince(trades, day) = SumFunctionOnSet(pnls, closed)
  BY DEF RealizedPnlSince
<1>6. ExposureOf(trades, all) = SumFunctionOnSet(Sizes(trades), open)
  <2>1. all \cap open = open
    BY <1>2
  <2> QED
    BY <2>1, ExposureIsSum
<1> HIDE DEF all, closed, open, pnls, paid, staked, values
<1>7. SumFunctionOnSet(paid, all) = SumFunctionOnSet(pnls, closed)
  BY <1>1, <1>2, <1>3, SumMasked
<1>8. SumFunctionOnSet(staked, all) = SumFunctionOnSet(Sizes(trades), open)
  BY <1>1, <1>2, <1>3, SumMasked
<1>9. SumFunctionOnSet(paid, all) = SumFunctionOnSet(values, all) + SumFunctionOnSet(staked, all)
  BY <1>1, <1>4, SumDifference
<1>10. /\ SumFunctionOnSet(values, all) \in Int
       /\ SumFunctionOnSet(staked, all) \in Int
  BY <1>1, <1>4, SumInt
<1> QED
  BY <1>5, <1>6, <1>7, <1>8, <1>9, <1>10 DEF values, all

\* As long as no row comes to count for less.
LEMMA ValuesRise ==
  ASSUME NEW old \in Seq(Row), NEW new \in Seq(Row), DOMAIN new = DOMAIN old, NEW day,
         \A id \in DOMAIN old : Values(old, day)[id] <= Values(new, day)[id]
  PROVE  RealizedPnlSince(old, day) - ExposureOf(old, DOMAIN old)
           <= RealizedPnlSince(new, day) - ExposureOf(new, DOMAIN new)
<1>1. SumFunctionOnSet(Values(old, day), DOMAIN old) <= SumFunctionOnSet(Values(new, day), DOMAIN old)
  BY ValuesAreInt, SumAtMost
<1> QED
  BY <1>1, ValuesSum

-----------------------------------------------------------------------------
(* The steps of the core *)

\* The breaker and the caps as check_trade has just found them.
RoomFor(strategy, m) ==
  /\ ~BreakerStops(Rolled(breaker, today), rows, today)
  /\ ~ConcurrentFull(rows)
  /\ ~StrategyFull(rows, strategy)
  /\ ~Duplicates(rows, strategy, m)

JournalStep ==
  \/ KeepsClosed(rows, rows')
  \/ \E s \in Strategies, m \in Markets :
        RoomFor(s, m) /\ Appended(rows, rows', s, m)

LEMMA SameRowsKeepClosed ==
  ASSUME NEW old \in Seq(Row)
  PROVE  KeepsClosed(old, old)
  BY DEF KeepsClosed, SameEntry

LEMMA AmountsAreNat == Amounts \subseteq Nat
  BY LimitAssumption DEF Amounts

-----------------------------------------------------------------------------
(* The risk manager's steps *)

LEMMA RolledType ==
  ASSUME TypeOK
  PROVE  Rolled(breaker, today) \in Breaker
  BY DEF TypeOK, Rolled, NewBreaker, Breaker

LEMMA PollHaltedStep ==
  ASSUME TypeOK, PollHalted
  PROVE  TypeOK' /\ JournalStep
<1>1. KeepsClosed(rows, rows')
  BY SameRowsKeepClosed DEF TypeOK, PollHalted
<1>2. TypeOK'
  BY RolledType DEF TypeOK, PollHalted, Busy
<1> QED
  BY <1>1, <1>2 DEF JournalStep

LEMMA EvaluateStep ==
  ASSUME TypeOK, EvaluateBreaker
  PROVE  TypeOK' /\ JournalStep
<1>1. KeepsClosed(rows, rows')
  BY SameRowsKeepClosed DEF TypeOK, EvaluateBreaker
<1>2. breaker' \in Breaker
  BY RolledType DEF EvaluateBreaker, Evaluated, Breaker
<1>3. haltDay' \in Nat
  BY DEF TypeOK, EvaluateBreaker
<1>4. TypeOK'
  BY <1>2, <1>3 DEF TypeOK, EvaluateBreaker, Busy
<1> QED
  BY <1>1, <1>4 DEF JournalStep

LEMMA TripStep ==
  ASSUME TypeOK, Trip
  PROVE  TypeOK' /\ JournalStep
<1>1. KeepsClosed(rows, rows')
  BY SameRowsKeepClosed DEF TypeOK, Trip
<1>2. breaker' \in Breaker
  BY DEF TypeOK, Trip, Breaker
<1>3. TypeOK'
  BY <1>2 DEF TypeOK, Trip, Busy
<1> QED
  BY <1>1, <1>3 DEF JournalStep

-----------------------------------------------------------------------------
(* The executor's steps *)

LEMMA RefuseStep ==
  ASSUME TypeOK, NEW s \in Strategies, NEW m \in Markets, NEW stake \in Stakes,
         NEW edgeOk \in BOOLEAN, Refuse(s, m, stake, edgeOk)
  PROVE  TypeOK' /\ JournalStep
<1>1. KeepsClosed(rows, rows')
  BY SameRowsKeepClosed DEF TypeOK, Refuse
<1>2. breaker' \in Breaker
  BY RolledType DEF Refuse, Checked, Breaker
<1>3. haltDay' \in Nat
  BY DEF TypeOK, Refuse
<1>4. TypeOK'
  BY <1>2, <1>3 DEF TypeOK, Refuse, Busy
<1> QED
  BY <1>1, <1>4 DEF JournalStep

LEMMA EnterStep ==
  ASSUME TypeOK, NEW s \in Strategies, NEW m \in Markets, NEW stake \in Stakes,
         NEW size \in Amounts, Enter(s, m, stake, size)
  PROVE  TypeOK' /\ JournalStep
<1>1. rows \in Seq(Row) /\ today \in Nat /\ size \in Nat /\ Mode(s) \in Modes
  BY AmountsAreNat DEF TypeOK, Mode, Modes
<1>2. rows' = RecordEntry(rows, s, m, Mode(s), today, size)
  BY DEF Enter
<1>3. Appended(rows, rows', s, m)
  BY <1>1, <1>2, EntryAppends
<1>4. RoomFor(s, m)
  BY DEF Enter, Approves, RoomFor
<1>5. /\ rows' \in Seq(Row)
      /\ DOMAIN rows \subseteq DOMAIN rows'
      /\ Len(rows) + 1 \in DOMAIN rows'
  BY <1>3 DEF Appended
<1>6. breaker' \in Breaker
  BY RolledType DEF Enter
<1>7. submitting' \in [Strategies -> Order]
  BY <1>1 DEF TypeOK, Enter, Order
<1>8. ASSUME NEW t \in Strategies, submitting'[t] # NoOrder
      PROVE  submitting'[t].id \in DOMAIN rows'
  <2>1. CASE t = s /\ Mode(s) = "live"
    <3>1. submitting'[t].id = Len(rows) + 1
      BY <2>1 DEF TypeOK, Enter
    <3> QED
      BY <3>1, <1>5
  <2>2. CASE ~(t = s /\ Mode(s) = "live")
    <3>1. submitting'[t] = submitting[t]
      BY <2>2 DEF TypeOK, Enter
    <3> QED
      BY <3>1, <1>5, <1>8 DEF TypeOK, Busy
  <2> QED
    BY <2>1, <2>2
<1>9. TypeOK'
  BY <1>5, <1>6, <1>7, <1>8 DEF TypeOK, Enter, Busy
<1> QED
  BY <1>3, <1>4, <1>9 DEF JournalStep

LEMMA OrderFillsStep ==
  ASSUME TypeOK, NEW s \in Strategies, NEW filled \in Amounts, OrderFills(s, filled)
  PROVE  TypeOK' /\ JournalStep
<1>1. KeepsClosed(rows, rows')
  BY SameRowsKeepClosed DEF TypeOK, OrderFills
<1>2. filled \in Nat
  BY AmountsAreNat
<1>3. /\ submitting' \in [Strategies -> Order]
      /\ \A t \in Strategies : submitting'[t].id = submitting[t].id
  BY <1>2 DEF TypeOK, OrderFills, Order
<1>4. submitting[s].id \in DOMAIN rows
  BY DEF TypeOK, OrderFills
<1>5. \A t \in Strategies : submitting'[t] # NoOrder => submitting'[t].id \in DOMAIN rows
  <2> SUFFICES ASSUME NEW t \in Strategies, submitting'[t] # NoOrder
               PROVE  submitting'[t].id \in DOMAIN rows
    OBVIOUS
  <2>1. CASE t = s
    BY <2>1, <1>3, <1>4
  <2>2. CASE t # s
    <3>1. submitting'[t] = submitting[t]
      BY <2>2 DEF TypeOK, OrderFills
    <3> QED
      BY <3>1 DEF TypeOK, Busy
  <2> QED
    BY <2>1, <2>2
<1>6. account' \in [Markets -> Int]
  <2>1. rows[submitting[s].id] \in Row
    BY <1>4, RowAt DEF TypeOK
  <2>2. rows[submitting[s].id].market \in Markets
    BY <2>1 DEF Row
  <2> QED
    BY <1>2, <2>2 DEF TypeOK, OrderFills
<1>7. TypeOK'
  BY <1>3, <1>5, <1>6 DEF TypeOK, OrderFills, Busy
<1> QED
  BY <1>1, <1>7 DEF JournalStep

\* The three kinds of reply: a row rewritten without reopening anything.
LEMMA AnsweredStep ==
  ASSUME TypeOK, NEW s \in Strategies, NEW new, Answered(s, new),
         KeepsClosed(rows, new)
  PROVE  TypeOK' /\ JournalStep
<1>1. KeepsClosed(rows, rows')
  BY DEF Answered
<1>2. rows' \in Seq(Row) /\ DOMAIN rows' = DOMAIN rows
  BY <1>1 DEF KeepsClosed
<1>3. /\ submitting' \in [Strategies -> Order]
      /\ \A t \in Strategies : submitting'[t] # NoOrder => submitting'[t] = submitting[t]
  BY DEF TypeOK, Answered, NoOrder, Order
<1>4. TypeOK'
  BY <1>2, <1>3 DEF TypeOK, Answered, Busy
<1> QED
  BY <1>1, <1>4 DEF JournalStep

LEMMA ReplyStep ==
  ASSUME TypeOK, NEW s \in Strategies, Reconcile(s) \/ Void(s) \/ KeepDuplicate(s)
  PROVE  TypeOK' /\ JournalStep
<1> DEFINE id == submitting[s].id
<1>1. rows \in Seq(Row) /\ id \in DOMAIN rows /\ submitting[s].filled \in Nat
  BY DEF TypeOK, Reconcile, Void, KeepDuplicate, Order
<1>2. CASE Reconcile(s)
  <2>1. KeepsClosed(rows, UpdateEntryFill(rows, id, submitting[s].filled))
    BY <1>1, FillKeepsClosed
  <2> QED
    BY <1>2, <2>1, AnsweredStep DEF Reconcile
<1>3. CASE Void(s)
  <2>1. KeepsClosed(rows, VoidEntry(rows, id))
    BY <1>1, VoidKeepsClosed
  <2> QED
    BY <1>3, <2>1, AnsweredStep DEF Void
<1>4. CASE KeepDuplicate(s)
  <2>1. KeepsClosed(rows, rows)
    BY <1>1, SameRowsKeepClosed
  <2> QED
    BY <1>4, <2>1, AnsweredStep DEF KeepDuplicate
<1> QED
  BY <1>2, <1>3, <1>4

-----------------------------------------------------------------------------
(* The stop-loss loop's steps *)

LEMMA StopSnapshotStep ==
  ASSUME TypeOK, StopSnapshot
  PROVE  TypeOK' /\ JournalStep
<1>1. KeepsClosed(rows, rows')
  BY SameRowsKeepClosed DEF TypeOK, StopSnapshot
<1>2. \A id \in DOMAIN rows : rows[id].size \in Nat
  <2> SUFFICES ASSUME NEW id \in DOMAIN rows PROVE rows[id].size \in Nat
    OBVIOUS
  <2>1. rows[id] \in Row
    BY RowAt DEF TypeOK
  <2> QED
    BY <2>1 DEF Row
<1>3. DOMAIN stopView' \subseteq DOMAIN rows /\ stopView' \in [DOMAIN stopView' -> Nat]
  BY <1>2 DEF StopSnapshot, OpenIds
<1>4. TypeOK'
  BY <1>3 DEF TypeOK, StopSnapshot, Busy
<1> QED
  BY <1>1, <1>4 DEF JournalStep

\* One candidate of the pass: a row rewritten without reopening anything.
LEMMA StopDoneStep ==
  ASSUME TypeOK, NEW id, StopDone(id), KeepsClosed(rows, rows'),
         account' \in [Markets -> Int]
  PROVE  TypeOK' /\ JournalStep
<1>1. rows' \in Seq(Row) /\ DOMAIN rows' = DOMAIN rows
  BY DEF KeepsClosed
<1>2. DOMAIN stopView' \subseteq DOMAIN rows /\ stopView' \in [DOMAIN stopView' -> Nat]
  BY DEF TypeOK, StopDone
<1>3. TypeOK'
  BY <1>1, <1>2 DEF TypeOK, StopDone, Busy
<1> QED
  BY <1>3 DEF JournalStep

LEMMA AskType ==
  ASSUME TypeOK, NEW id \in DOMAIN stopView, NEW sold \in Amounts, AskFills(id, sold)
  PROVE  account' \in [Markets -> Int]
<1>1. rows[id] \in Row
  BY RowAt DEF TypeOK
<1>2. rows[id].market \in Markets /\ sold \in Nat
  BY <1>1, AmountsAreNat DEF Row
<1> QED
  BY <1>2 DEF TypeOK, AskFills

LEMMA StopStep ==
  ASSUME TypeOK, StopLossLoop
  PROVE  TypeOK' /\ JournalStep
<1>1. CASE StopSnapshot
  BY <1>1, StopSnapshotStep
<1>2. CASE \E id \in DOMAIN stopView : StopSkip(id)
  <2>1. PICK id \in DOMAIN stopView : StopSkip(id)
    BY <1>2
  <2>2. KeepsClosed(rows, rows') /\ account' \in [Markets -> Int]
    BY <2>1, SameRowsKeepClosed DEF TypeOK, StopSkip
  <2> QED
    BY <2>1, <2>2, StopDoneStep DEF StopSkip
<1>3. CASE \E id \in DOMAIN stopView, loss \in Amounts : StopPaper(id, loss)
  <2>1. PICK id \in DOMAIN stopView, loss \in Amounts : StopPaper(id, loss)
    BY <1>3
  <2>2. rows \in Seq(Row) /\ id \in DOMAIN rows /\ -loss \in Int
    BY AmountsAreNat DEF TypeOK
  <2>3. KeepsClosed(rows, rows')
    BY <2>1, <2>2, ExitKeepsClosed DEF StopPaper
  <2>4. account' \in [Markets -> Int]
    BY <2>1 DEF TypeOK, StopPaper
  <2> QED
    BY <2>1, <2>3, <2>4, StopDoneStep DEF StopPaper
<1>4. CASE \E id \in DOMAIN stopView, sold \in Amounts : StopReplyLost(id, sold)
  <2>1. PICK id \in DOMAIN stopView, sold \in Amounts : StopReplyLost(id, sold)
    BY <1>4
  <2>2. KeepsClosed(rows, rows') /\ account' \in [Markets -> Int]
    BY <2>1, SameRowsKeepClosed, AskType DEF TypeOK, StopReplyLost
  <2> QED
    BY <2>1, <2>2, StopDoneStep DEF StopReplyLost
<1>5. CASE \E id \in DOMAIN stopView, sold \in Amounts, loss \in Amounts :
             StopSold(id, sold, loss)
  <2>1. PICK id \in DOMAIN stopView, sold \in Amounts, loss \in Amounts :
               StopSold(id, sold, loss)
    BY <1>5
  <2>2. rows \in Seq(Row) /\ id \in DOMAIN rows /\ -loss \in Int
    BY AmountsAreNat DEF TypeOK
  <2>3. KeepsClosed(rows, rows')
    BY <2>1, <2>2, ExitKeepsClosed DEF StopSold
  <2>4. account' \in [Markets -> Int]
    BY <2>1, AskType DEF StopSold
  <2> QED
    BY <2>1, <2>3, <2>4, StopDoneStep DEF StopSold
<1>6. CASE \E id \in DOMAIN stopView, sold \in Amounts, loss \in Amounts :
             StopPartial(id, sold, loss)
  <2>1. PICK id \in DOMAIN stopView, sold \in Amounts, loss \in Amounts :
               StopPartial(id, sold, loss)
    BY <1>6
  <2>2. rows \in Seq(Row) /\ id \in DOMAIN rows /\ -loss \in Int
    BY AmountsAreNat DEF TypeOK
  <2>3. stopView[id] - sold \in Nat
    BY <2>1, AmountsAreNat DEF TypeOK, StopPartial
  <2>4. KeepsClosed(rows, rows')
    BY <2>1, <2>2, <2>3, PartialKeepsClosed DEF StopPartial
  <2>5. account' \in [Markets -> Int]
    BY <2>1, AskType DEF StopPartial
  <2> QED
    BY <2>1, <2>4, <2>5, StopDoneStep DEF StopPartial
<1> QED
  BY <1>1, <1>2, <1>3, <1>4, <1>5, <1>6 DEF StopLossLoop

-----------------------------------------------------------------------------
(* The reviewer's steps *)

LEMMA ReviewSnapshotStep ==
  ASSUME TypeOK, NEW r \in Reviewers, ReviewSnapshot(r)
  PROVE  TypeOK' /\ JournalStep
<1>1. KeepsClosed(rows, rows')
  BY SameRowsKeepClosed DEF TypeOK, ReviewSnapshot
<1> DEFINE view == [id \in OpenIds(rows) |-> [size    |-> rows[id].size,
                                              partial |-> rows[id].partial]]
<1>2. \A id \in DOMAIN rows : rows[id].size \in Nat /\ rows[id].partial \in Int
  <2> SUFFICES ASSUME NEW id \in DOMAIN rows
               PROVE  rows[id].size \in Nat /\ rows[id].partial \in Int
    OBVIOUS
  <2>1. rows[id] \in Row
    BY RowAt DEF TypeOK
  <2> QED
    BY <2>1 DEF Row
<1>3. DOMAIN view \subseteq DOMAIN rows /\ view \in [DOMAIN view -> Claims]
  BY <1>2 DEF OpenIds, Claims
<1> HIDE DEF view
<1>4. reviewView' = [reviewView EXCEPT ![r] = view]
  BY DEF ReviewSnapshot, view
<1>5. /\ reviewView' = [q \in Reviewers |-> reviewView'[q]]
      /\ \A q \in Reviewers : /\ DOMAIN reviewView'[q] \subseteq DOMAIN rows
                              /\ reviewView'[q] \in [DOMAIN reviewView'[q] -> Claims]
  BY <1>3, <1>4 DEF TypeOK
<1>6. TypeOK'
  BY <1>5 DEF TypeOK, ReviewSnapshot, Busy
<1> QED
  BY <1>1, <1>6 DEF JournalStep

\* How a settlement closes a row, given the result of its market.
Result(m) == IF market[m] = "yes" THEN "won" ELSE "lost"

Resolves(id, seen) ==
  /\ Final(rows[id].market)
  /\ rows'[id].outcome = Result(rows[id].market)
  /\ rows'[id].pnl = SettlementPnl(seen, market[rows[id].market])
  /\ rows'[id].partial = seen.partial
  /\ rows'[id].resolved = today

LEMMA SettleRows ==
  ASSUME TypeOK, NEW r \in Reviewers, NEW found \in SUBSET Markets, Settle(r, found)
  PROVE  /\ DOMAIN rows' = DOMAIN rows
         /\ \A id \in DOMAIN rows :
              /\ rows'[id] \in Row
              /\ SameEntry(rows[id], rows'[id])
              /\ rows'[id].size = rows[id].size
              /\ \/ rows'[id] = rows[id]
                 \/ id \in DOMAIN reviewView[r] /\ Resolves(id, reviewView[r][id])
<1> DEFINE view == reviewView[r]
           settled == {id \in DOMAIN view : rows[id].market \in found}
           result(id) == market[rows[id].market]
           row(id) == RecordResolution(rows, id, Result(rows[id].market),
                        SettlementPnl(view[id], result(id)), view[id].partial, today)[id]
<1>1. rows' = [id \in DOMAIN rows |-> IF id \in settled THEN row(id) ELSE rows[id]]
  BY DEF Settle, Result
<1>2. ASSUME NEW id \in settled
      PROVE  /\ row(id) \in Row
             /\ SameEntry(rows[id], row(id))
             /\ row(id).size = rows[id].size
             /\ row(id).outcome = Result(rows[id].market)
             /\ row(id).pnl = SettlementPnl(view[id], result(id))
             /\ row(id).partial = view[id].partial
             /\ row(id).resolved = today
             /\ Final(rows[id].market)
  <2>1. rows \in Seq(Row) /\ id \in DOMAIN rows /\ today \in Nat
    BY DEF TypeOK
  <2>2. view[id].size \in Nat /\ view[id].partial \in Int
    BY DEF TypeOK, Claims
  <2>3. WinGain * view[id].size \in Nat
    BY <2>2, CoreAssumption
  <2>4. SettlementPnl(view[id], result(id)) \in Int
    BY <2>2, <2>3 DEF SettlementPnl
  <2>5. Result(rows[id].market) \in {"won", "lost"}
    BY DEF Result
  <2>6. Final(rows[id].market)
    BY DEF Settle
  <2> HIDE DEF result, view
  <2> QED
    BY <2>1, <2>2, <2>4, <2>5, <2>6, ResolvedRow
<1> HIDE DEF row
<1>3. \A id \in DOMAIN rows : rows[id] \in Row
  BY RowAt DEF TypeOK
<1>4. \A id \in DOMAIN rows : rows'[id] = IF id \in settled THEN row(id) ELSE rows[id]
  BY <1>1
<1>5. ASSUME NEW id \in DOMAIN rows, id \notin settled
      PROVE  rows'[id] = rows[id] /\ rows'[id] \in Row /\ SameEntry(rows[id], rows'[id])
  BY <1>3, <1>4, <1>5 DEF SameEntry
<1>6. ASSUME NEW id \in settled
      PROVE  /\ rows'[id] \in Row /\ SameEntry(rows[id], rows'[id])
             /\ rows'[id].size = rows[id].size
             /\ Resolves(id, view[id])
  <2>1. rows'[id] = row(id)
    BY <1>4 DEF TypeOK
  <2> QED
    BY <1>2, <2>1 DEF Resolves
<1>7. DOMAIN rows' = DOMAIN rows
  BY <1>1
<1> QED
  BY <1>5, <1>6, <1>7

LEMMA SettleStep ==
  ASSUME TypeOK, NEW r \in Reviewers, NEW found \in SUBSET Markets, Settle(r, found)
  PROVE  TypeOK' /\ JournalStep
<1>1. /\ DOMAIN rows' = DOMAIN rows
      /\ \A id \in DOMAIN rows :
           /\ rows'[id] \in Row
           /\ SameEntry(rows[id], rows'[id])
           /\ rows'[id].outcome = "pending" => rows[id].outcome = "pending"
  <2>1. \A m : Result(m) # "pending"
    BY DEF Result
  <2> QED
    BY <2>1, SettleRows DEF Resolves
<1>2. rows' \in Seq(Row)
  <2>1. DOMAIN rows = 1..Len(rows) /\ Len(rows) \in Nat
    BY DEF TypeOK
  <2>2. rows' = [id \in DOMAIN rows |-> rows'[id]]
    BY DEF Settle
  <2>3. rows' \in [1..Len(rows) -> Row]
    BY <1>1, <2>1, <2>2
  <2> QED
    BY <2>1, <2>3, IsASeq
<1>3. KeepsClosed(rows, rows')
  BY <1>1, <1>2 DEF KeepsClosed
<1>4. /\ reviewView' = [reviewView EXCEPT ![r] = Empty]
      /\ DOMAIN Empty = {} /\ Empty \in [{} -> Claims]
  BY DEF Settle, Empty
<1>5. /\ reviewView' = [q \in Reviewers |-> reviewView'[q]]
       /\ \A q \in Reviewers : /\ DOMAIN reviewView'[q] \subseteq DOMAIN rows
                               /\ reviewView'[q] \in [DOMAIN reviewView'[q] -> Claims]
  BY <1>4 DEF TypeOK
<1>6. TypeOK'
  BY <1>1, <1>2, <1>5 DEF TypeOK, Settle, Busy
<1> QED
  BY <1>3, <1>6 DEF JournalStep

-----------------------------------------------------------------------------
(* The world's steps *)

LEMMA WorldStep ==
  ASSUME TypeOK, World
  PROVE  TypeOK' /\ JournalStep
<1>1. KeepsClosed(rows, rows')
  BY SameRowsKeepClosed DEF TypeOK, World, NewDay, CloseMarket, Finalize, Restart
<1>2. TypeOK'
  <2>1. CASE NewDay
    BY <2>1 DEF TypeOK, NewDay, Busy
  <2>2. CASE \E m \in Markets : CloseMarket(m)
    BY <2>2 DEF TypeOK, CloseMarket, MarketState, Busy
  <2>3. CASE \E m \in Markets, result \in {"yes", "no"} : Finalize(m, result)
    BY <2>3 DEF TypeOK, Finalize, MarketState, Busy
  <2>4. CASE Restart
    <3>1. breaker' \in Breaker
      BY <2>4 DEF TypeOK, Restart, NewBreaker, Breaker
    <3>2. submitting' \in [Strategies -> Order] /\ \A s \in Strategies : submitting'[s] = NoOrder
      BY <2>4 DEF Restart, NoOrder, Order
    <3>3. DOMAIN stopView' \subseteq DOMAIN rows /\ stopView' \in [DOMAIN stopView' -> Nat]
      BY <2>4 DEF Restart, Empty
    <3>4. /\ reviewView' = [r \in Reviewers |-> reviewView'[r]]
          /\ \A r \in Reviewers : /\ DOMAIN reviewView'[r] \subseteq DOMAIN rows
                                  /\ reviewView'[r] \in [DOMAIN reviewView'[r] -> Claims]
      BY <2>4 DEF Restart, Empty
    <3> QED
      BY <2>4, <3>1, <3>2, <3>3, <3>4 DEF TypeOK, Restart, Busy
  <2> QED
    BY <2>1, <2>2, <2>3, <2>4 DEF World
<1> QED
  BY <1>1, <1>2 DEF JournalStep

-----------------------------------------------------------------------------
(* Every step *)

LEMMA InitType == Init => TypeOK
<1> SUFFICES ASSUME Init PROVE TypeOK
  OBVIOUS
<1>1. rows \in Seq(Row) /\ today \in Nat /\ haltDay \in Nat
  BY DEF Init
<1>2. breaker \in Breaker
  BY DEF Init, NewBreaker, Breaker
<1>3. submitting \in [Strategies -> Order] /\ \A s \in Strategies : submitting[s] = NoOrder
  BY DEF Init, NoOrder, Order
<1>4. account \in [Markets -> Int] /\ market \in [Markets -> MarketState]
  BY DEF Init, MarketState
<1>5. DOMAIN stopView \subseteq DOMAIN rows /\ stopView \in [DOMAIN stopView -> Nat]
  BY DEF Init, Empty
<1>6. /\ reviewView = [r \in Reviewers |-> reviewView[r]]
      /\ \A r \in Reviewers : /\ DOMAIN reviewView[r] \subseteq DOMAIN rows
                              /\ reviewView[r] \in [DOMAIN reviewView[r] -> Claims]
  BY DEF Init, Empty
<1> QED
  BY <1>1, <1>2, <1>3, <1>4, <1>5, <1>6 DEF TypeOK, Busy

LEMMA NextStep ==
  ASSUME TypeOK, [Next]_vars
  PROVE  TypeOK' /\ JournalStep
<1>1. CASE PollHalted
  BY <1>1, PollHaltedStep
<1>2. CASE EvaluateBreaker
  BY <1>2, EvaluateStep
<1>3. CASE Trip
  BY <1>3, TripStep
<1>4. CASE \E s \in Strategies : StrategyLoop(s)
  <2>1. PICK s \in Strategies : StrategyLoop(s)
    BY <1>4
  <2>2. CASE \E m \in Markets, stake \in Stakes, edgeOk \in BOOLEAN :
               Refuse(s, m, stake, edgeOk)
    BY <2>2, RefuseStep
  <2>3. CASE \E m \in Markets, stake \in Stakes, size \in Amounts :
               Enter(s, m, stake, size)
    BY <2>3, EnterStep
  <2>4. CASE \E filled \in Amounts : OrderFills(s, filled)
    BY <2>4, OrderFillsStep
  <2>5. CASE Reconcile(s) \/ Void(s) \/ KeepDuplicate(s)
    BY <2>5, ReplyStep
  <2> QED
    BY <2>1, <2>2, <2>3, <2>4, <2>5 DEF StrategyLoop
<1>5. CASE StopLossLoop
  BY <1>5, StopStep
<1>6. CASE \E r \in Reviewers : ReviewTask(r)
  <2>1. PICK r \in Reviewers : ReviewTask(r)
    BY <1>6
  <2> QED
    BY <2>1, ReviewSnapshotStep, SettleStep DEF ReviewTask
<1>7. CASE World
  BY <1>7, WorldStep
<1>8. CASE UNCHANGED vars
  <2>1. KeepsClosed(rows, rows')
    BY <1>8, SameRowsKeepClosed DEF TypeOK, vars
  <2>2. TypeOK'
    BY <1>8 DEF TypeOK, vars, Busy
  <2> QED
    BY <2>1, <2>2 DEF JournalStep
<1> QED
  BY <1>1, <1>2, <1>3, <1>4, <1>5, <1>6, <1>7, <1>8 DEF Next

\* Type correctness: the journal holds rows of the schema, and every awaited
\* order and every snapshot refers to rows that exist.
THEOREM TypeCorrect == Spec => []TypeOK
<1>1. TypeOK /\ [Next]_vars => TypeOK'
  BY NextStep
<1> QED
  BY InitType, <1>1, PTL DEF Spec

-----------------------------------------------------------------------------
(* The caps *)

OpenCaps == ConcurrentCap /\ StrategyCap /\ NoDuplicateHolding

LEMMA InitCaps == Init => OpenCaps
<1> SUFFICES ASSUME Init PROVE OpenCaps
  OBVIOUS
<1>1. OpenIds(rows) = {} /\ \A s : StrategyOpenIds(rows, s) = {}
  BY DEF Init, OpenIds, StrategyOpenIds
<1>2. Cardinality({}) = 0
  BY FS_EmptySet
<1> QED
  BY <1>1, <1>2, LimitAssumption DEF OpenCaps, ConcurrentCap, StrategyCap, NoDuplicateHolding

LEMMA KeptClosedCaps ==
  ASSUME TypeOK, TypeOK', OpenCaps, KeepsClosed(rows, rows')
  PROVE  OpenCaps'
<1>1. rows \in Seq(Row) /\ rows' \in Seq(Row)
  BY DEF TypeOK
<1>2. /\ OpenIds(rows') \subseteq OpenIds(rows)
      /\ Cardinality(OpenIds(rows')) <= Cardinality(OpenIds(rows))
      /\ \A s : Cardinality(StrategyOpenIds(rows', s)) <= Cardinality(StrategyOpenIds(rows, s))
  BY <1>1, OpenCountsFall
<1>3. /\ Cardinality(OpenIds(rows)) \in Nat /\ Cardinality(OpenIds(rows')) \in Nat
      /\ \A s : /\ Cardinality(StrategyOpenIds(rows, s)) \in Nat
                /\ Cardinality(StrategyOpenIds(rows', s)) \in Nat
  BY <1>1, OpenFinite, FS_CardinalityType
<1>4. ConcurrentCap'
  BY <1>2, <1>3, LimitAssumption DEF OpenCaps, ConcurrentCap
<1>5. StrategyCap'
  BY <1>2, <1>3, LimitAssumption DEF OpenCaps, StrategyCap
<1>6. NoDuplicateHolding'
  <2>1. \A id \in OpenIds(rows') : /\ rows'[id].strategy = rows[id].strategy
                                   /\ rows'[id].market = rows[id].market
    BY DEF KeepsClosed, SameEntry, OpenIds
  <2> QED
    BY <1>2, <2>1 DEF OpenCaps, NoDuplicateHolding
<1> QED
  BY <1>4, <1>5, <1>6 DEF OpenCaps

LEMMA AppendedCaps ==
  ASSUME TypeOK, TypeOK', OpenCaps, NEW s \in Strategies, NEW m \in Markets,
         RoomFor(s, m), Appended(rows, rows', s, m)
  PROVE  OpenCaps'
<1> DEFINE last == Len(rows) + 1
<1>1. rows \in Seq(Row) /\ rows' \in Seq(Row)
  BY DEF TypeOK
<1>2. /\ OpenIds(rows') = OpenIds(rows) \cup {last}
      /\ Cardinality(OpenIds(rows')) = Cardinality(OpenIds(rows)) + 1
      /\ Cardinality(StrategyOpenIds(rows', s)) = Cardinality(StrategyOpenIds(rows, s)) + 1
      /\ \A t : t # s => StrategyOpenIds(rows', t) = StrategyOpenIds(rows, t)
  BY <1>1, OpenCountsRise
<1>3. /\ Cardinality(OpenIds(rows)) \in Nat
      /\ \A t : Cardinality(StrategyOpenIds(rows, t)) \in Nat
  BY <1>1, OpenFinite, FS_CardinalityType
<1>4. ConcurrentCap'
  BY <1>2, <1>3, LimitAssumption DEF RoomFor, ConcurrentFull, ConcurrentCap
<1>5. StrategyCap'
  <2> SUFFICES ASSUME MaxConcurrentPerStrategy > 0, NEW t \in Strategies
               PROVE  Cardinality(StrategyOpenIds(rows', t)) <= MaxConcurrentPerStrategy
    BY DEF StrategyCap
  <2>1. CASE t = s
    BY <2>1, <1>2, <1>3, LimitAssumption DEF RoomFor, StrategyFull
  <2>2. CASE t # s
    BY <2>2, <1>2 DEF OpenCaps, StrategyCap
  <2> QED
    BY <2>1, <2>2
<1>6. NoDuplicateHolding'
  <2>1. \A id \in OpenIds(rows) : rows'[id] = rows[id] /\ id # last
    BY DEF Appended, OpenIds
  <2>2. rows'[last].strategy = s /\ rows'[last].market = m
    BY DEF Appended
  <2>3. s \in DedupStrategies =>
          \A id \in OpenIds(rows) : ~(rows[id].strategy = s /\ rows[id].market = m)
    BY DEF RoomFor, Duplicates, StrategyOpenIds
  <2> HIDE DEF last
  <2> SUFFICES ASSUME NEW i \in OpenIds(rows'), NEW j \in OpenIds(rows'),
                      rows'[i].strategy \in DedupStrategies,
                      rows'[i].strategy = rows'[j].strategy,
                      rows'[i].market = rows'[j].market
               PROVE  i = j
    BY DEF NoDuplicateHolding
  <2>4. CASE i \in OpenIds(rows) /\ j \in OpenIds(rows)
    BY <2>4, <2>1 DEF OpenCaps, NoDuplicateHolding
  <2>5. CASE i = last /\ j \in OpenIds(rows)
    BY <2>5, <2>1, <2>2, <2>3
  <2>6. CASE i \in OpenIds(rows) /\ j = last
    BY <2>6, <2>1, <2>2, <2>3
  <2> QED
    BY <1>2, <2>4, <2>5, <2>6
<1> QED
  BY <1>4, <1>5, <1>6 DEF OpenCaps

LEMMA CapsStep ==
  ASSUME TypeOK, OpenCaps, [Next]_vars
  PROVE  OpenCaps'
<1>1. TypeOK' /\ JournalStep
  BY NextStep
<1>2. CASE KeepsClosed(rows, rows')
  BY <1>1, <1>2, KeptClosedCaps
<1>3. CASE \E s \in Strategies, m \in Markets : RoomFor(s, m) /\ Appended(rows, rows', s, m)
  BY <1>1, <1>3, AppendedCaps
<1> QED
  BY <1>1, <1>2, <1>3 DEF JournalStep

\* The caps on open positions hold whatever the disturbances: through
\* restarts, lost replies, stale snapshots and manual trips.
THEOREM CapsHold == Spec => [](ConcurrentCap /\ StrategyCap /\ NoDuplicateHolding)
<1>1. Init => TypeOK /\ OpenCaps
  BY InitType, InitCaps
<1>2. TypeOK /\ OpenCaps /\ [Next]_vars => TypeOK' /\ OpenCaps'
  BY NextStep, CapsStep
<1>3. OpenCaps => ConcurrentCap /\ StrategyCap /\ NoDuplicateHolding
  BY DEF OpenCaps
<1> QED
  BY <1>1, <1>2, <1>3, PTL DEF Spec

\* No strategy ever has more open rows than its own cap (risk.py:366).
THEOREM StrategyCapHolds == Spec => []StrategyCap
BY CapsHold, PTL

\* A strategy with dedup on never has two open rows on one market, also when
\* a row is voided or stopped out and bought again (risk.py:335).
THEOREM NoDuplicateHolds == Spec => []NoDuplicateHolding
BY CapsHold, PTL

-----------------------------------------------------------------------------
(* The breaker *)

\* After a trip the memory says so for the rest of the day.
TripRemembered ==
  /\ haltDay <= today
  /\ today > 0
  /\ haltDay = today => breaker.anchor = today /\ breaker.tripped
  /\ IsPaper => haltDay # today

NoManualTrip == "manual_trip" \notin Disturbances

LEMMA InitRemembered == Init => TripRemembered
  BY DEF Init, TripRemembered

\* A step that leaves the memory alone, and one that only rolls it.
LEMMA MemoryKept ==
  ASSUME TypeOK, TripRemembered, haltDay' = haltDay, today' = today,
         breaker' = breaker \/ breaker' = Rolled(breaker, today)
  PROVE  TripRemembered'
  BY DEF TypeOK, TripRemembered, Rolled

\* A step of the risk manager that may set the flag, and marks the day if so.
LEMMA MemorySet ==
  ASSUME TypeOK, TripRemembered, today' = today, ~IsPaper,
         breaker'.anchor = Rolled(breaker, today).anchor,
         Rolled(breaker, today).tripped => breaker'.tripped,
         haltDay' = IF breaker'.tripped /\ ~Rolled(breaker, today).tripped
                    THEN today ELSE haltDay
  PROVE  TripRemembered'
  BY DEF TypeOK, TripRemembered, Rolled, NewBreaker, Breaker

LEMMA RememberedStep ==
  ASSUME NoManualTrip, TypeOK, TripRemembered, [Next]_vars
  PROVE  TripRemembered'
<1>1. CASE PollHalted
  BY <1>1, MemoryKept DEF PollHalted
<1>2. CASE EvaluateBreaker
  <2>1. Rolled(breaker, today) \in Breaker
    BY RolledType
  <2>2. /\ breaker'.anchor = Rolled(breaker, today).anchor
        /\ Rolled(breaker, today).tripped => breaker'.tripped
    BY <1>2, <2>1 DEF EvaluateBreaker, Evaluated, Breaker
  <2>3. haltDay' = IF breaker'.tripped /\ ~Rolled(breaker, today).tripped
                   THEN today ELSE haltDay
    BY <1>2 DEF EvaluateBreaker
  <2> QED
    BY <1>2, <2>2, <2>3, MemorySet DEF EvaluateBreaker
<1>3. CASE Trip
  BY <1>3 DEF Trip, NoManualTrip
<1>4. CASE \E s \in Strategies : StrategyLoop(s)
  <2>1. PICK s \in Strategies : StrategyLoop(s)
    BY <1>4
  <2>2. CASE \E m \in Markets, stake \in Stakes, edgeOk \in BOOLEAN :
               Refuse(s, m, stake, edgeOk)
    <3>1. PICK m \in Markets, stake \in Stakes, edgeOk \in BOOLEAN :
                 Refuse(s, m, stake, edgeOk)
      BY <2>2
    <3>2. Rolled(breaker, today) \in Breaker
      BY RolledType
    <3>3. CASE IsPaper
      <4>1. Checked(Rolled(breaker, today), rows, today).tripped = Rolled(breaker, today).tripped
        BY <3>2, <3>3 DEF Checked, Breaker
      <4>2. haltDay' = haltDay /\ today' = today
        BY <3>1, <4>1 DEF Refuse
      <4> QED
        BY <3>3, <4>2 DEF TripRemembered
    <3>4. CASE ~IsPaper
      <4>1. /\ breaker'.anchor = Rolled(breaker, today).anchor
            /\ Rolled(breaker, today).tripped => breaker'.tripped
        BY <3>1, <3>2 DEF Refuse, Checked, Breaker
      <4>2. /\ today' = today
            /\ haltDay' = IF breaker'.tripped /\ ~Rolled(breaker, today).tripped
                          THEN today ELSE haltDay
        BY <3>1 DEF Refuse
      <4> QED
        BY <3>4, <4>1, <4>2, MemorySet
    <3> QED
      BY <3>3, <3>4
  <2>3. CASE \E m \in Markets, stake \in Stakes, size \in Amounts :
               Enter(s, m, stake, size)
    BY <2>3, MemoryKept DEF Enter
  <2>4. CASE \E filled \in Amounts : OrderFills(s, filled)
    BY <2>4, MemoryKept DEF OrderFills
  <2>5. CASE Reconcile(s) \/ Void(s) \/ KeepDuplicate(s)
    BY <2>5, MemoryKept DEF Reconcile, Void, KeepDuplicate, Answered
  <2> QED
    BY <2>1, <2>2, <2>3, <2>4, <2>5 DEF StrategyLoop
<1>5. CASE StopLossLoop
  BY <1>5, MemoryKept DEF StopLossLoop, StopSnapshot, StopSkip, StopPaper,
                          StopSold, StopPartial, StopReplyLost, StopDone
<1>6. CASE \E r \in Reviewers : ReviewTask(r)
  BY <1>6, MemoryKept DEF ReviewTask, ReviewSnapshot, Settle
<1>7. CASE World
  <2>1. CASE NewDay
    BY <2>1 DEF NewDay, TypeOK, TripRemembered
  <2>2. CASE \E m \in Markets : CloseMarket(m) \/ \E result \in {"yes", "no"} : Finalize(m, result)
    BY <2>2, MemoryKept DEF CloseMarket, Finalize
  <2>3. CASE Restart
    BY <2>3 DEF Restart, TypeOK, TripRemembered
  <2> QED
    BY <1>7, <2>1, <2>2, <2>3 DEF World
<1>8. CASE UNCHANGED vars
  BY <1>8, MemoryKept DEF vars
<1> QED
  BY <1>1, <1>2, <1>3, <1>4, <1>5, <1>6, <1>7, <1>8 DEF Next

\* A row is added only by an approval, and an approval needs the flag down.
LEMMA HaltedStep ==
  ASSUME TypeOK, TripRemembered, [Next]_vars, Len(rows') > Len(rows)
  PROVE  haltDay # today
<1>1. TypeOK' /\ JournalStep
  BY NextStep
<1>2. ~KeepsClosed(rows, rows')
  <2>1. /\ DOMAIN rows = 1..Len(rows) /\ DOMAIN rows' = 1..Len(rows')
        /\ Len(rows) \in Nat /\ Len(rows') \in Nat
    BY <1>1 DEF TypeOK
  <2>2. Len(rows') \in DOMAIN rows' /\ Len(rows') \notin DOMAIN rows
    BY <2>1
  <2> QED
    BY <2>2 DEF KeepsClosed
<1>3. ~BreakerStops(Rolled(breaker, today), rows, today)
  BY <1>1, <1>2 DEF JournalStep, RoomFor
<1>4. haltDay = today => ~IsPaper /\ Rolled(breaker, today).tripped
  BY DEF TripRemembered, Rolled
<1> QED
  BY <1>3, <1>4 DEF BreakerStops

\* No row is entered on a day on which the breaker tripped, whatever replies
\* are lost and whatever snapshots are stale, in every life of the process.
\* Nothing calls trip(); on a day not yet rolled it would be forgotten.
THEOREM HaltHolds ==
  ASSUME NoManualTrip
  PROVE  Spec => HaltedDayAdmitsNothing
<1>1. Init => TypeOK /\ TripRemembered
  BY InitType, InitRemembered
<1>2. TypeOK /\ TripRemembered /\ [Next]_vars => TypeOK' /\ TripRemembered'
  BY NextStep, RememberedStep
<1>3. TypeOK /\ TripRemembered /\ [Next]_vars
        => [Len(rows') > Len(rows) => haltDay # today]_vars
  BY HaltedStep
<1> QED
  BY <1>1, <1>2, <1>3, PTL DEF Spec, HaltedDayAdmitsNothing

-----------------------------------------------------------------------------
(* Which steps write the journal *)

\* No pass of the stop-loss asks a live exchange.  One that does may write the
\* remainder of the size asked for over what an order filled meanwhile.
NoLiveStop == IsPaper \/ ~StopLossRuns

NoStopView == StopLossRuns \/ stopView = Empty

Writes ==
  \/ \E s \in Strategies, m \in Markets, stake \in Stakes, size \in Amounts :
        Enter(s, m, stake, size)
  \/ \E s \in Strategies : Reconcile(s) \/ Void(s)
  \/ \E id \in DOMAIN stopView, loss \in Amounts : StopPaper(id, loss)
  \/ \E r \in Reviewers, found \in SUBSET Markets : Settle(r, found)

LEMMA WhoWrites ==
  ASSUME NoLiveStop, NoStopView, [Next]_vars
  PROVE  rows' = rows \/ Writes
<1>1. CASE PollHalted \/ EvaluateBreaker \/ Trip
  BY <1>1 DEF PollHalted, EvaluateBreaker, Trip
<1>2. CASE \E s \in Strategies : StrategyLoop(s)
  BY <1>2 DEF StrategyLoop, Refuse, OrderFills, KeepDuplicate, Answered, Writes
<1>3. CASE StopLossLoop
  <2>1. DOMAIN stopView = {} \/ IsPaper
    BY DEF NoLiveStop, NoStopView, Empty
  <2>2. CASE StopSnapshot \/ \E id \in DOMAIN stopView : StopSkip(id)
    BY <2>2 DEF StopSnapshot, StopSkip
  <2>3. CASE \E id \in DOMAIN stopView, loss \in Amounts : StopPaper(id, loss)
    BY <2>3 DEF Writes
  <2>4. CASE \E id \in DOMAIN stopView, sold \in Amounts : AskFills(id, sold)
    BY <2>1, <2>4 DEF AskFills
  <2> QED
    BY <1>3, <2>2, <2>3, <2>4 DEF StopLossLoop, StopSold, StopPartial, StopReplyLost
<1>4. CASE \E r \in Reviewers : ReviewTask(r)
  BY <1>4 DEF ReviewTask, ReviewSnapshot, Writes
<1>5. CASE World
  BY <1>5 DEF World, NewDay, CloseMarket, Finalize, Restart
<1>6. CASE UNCHANGED vars
  BY <1>6 DEF vars
<1> QED
  BY <1>1, <1>2, <1>3, <1>4, <1>5, <1>6 DEF Next

LEMMA ReplyRows ==
  ASSUME TypeOK, NEW s \in Strategies
  PROVE  /\ Reconcile(s) => /\ submitting[s].id \in DOMAIN rows
                            /\ Resized(rows, rows', submitting[s].id, submitting[s].filled)
         /\ Void(s) => /\ submitting[s].id \in DOMAIN rows
                       /\ Closed(rows, rows', submitting[s].id, "voided", 0)
<1>1. rows \in Seq(Row) /\ submitting[s].filled \in Nat
  BY DEF TypeOK, Order
<1>2. Busy(s) => submitting[s].id \in DOMAIN rows
  BY DEF TypeOK
<1>3. Reconcile(s) => Resized(rows, rows', submitting[s].id, submitting[s].filled)
  BY <1>1, <1>2, FillResizes DEF Reconcile, Answered
<1>4. Void(s) => Closed(rows, rows', submitting[s].id, "voided", 0)
  BY <1>1, <1>2, VoidCloses DEF Void, Answered
<1> QED
  BY <1>2, <1>3, <1>4 DEF Reconcile, Void

LEMMA StopPaperRows ==
  ASSUME TypeOK, NEW id \in DOMAIN stopView, NEW loss \in Amounts, StopPaper(id, loss)
  PROVE  id \in DOMAIN rows /\ Closed(rows, rows', id, "lost", -loss)
<1>1. rows \in Seq(Row) /\ id \in DOMAIN rows
  BY DEF TypeOK
<1> QED
  BY <1>1, ExitCloses DEF StopPaper

LEMMA EnterRows ==
  ASSUME TypeOK, NEW s \in Strategies, NEW m \in Markets, NEW stake \in Stakes,
         NEW size \in Amounts, Enter(s, m, stake, size)
  PROVE  /\ Appended(rows, rows', s, m)
         /\ LET row == rows'[Len(rows) + 1]
            IN  /\ row.mode = Mode(s) /\ row.day = today /\ row.size = size
                /\ row.partial = 0 /\ row.resolved = NotResolved
         /\ size \in Nat /\ size <= MaxPosition
<1>1. rows \in Seq(Row) /\ today \in Nat /\ size \in Nat /\ Mode(s) \in Modes
  BY AmountsAreNat DEF TypeOK, Mode, Modes
<1>2. rows' = RecordEntry(rows, s, m, Mode(s), today, size)
  BY DEF Enter
<1>3. size <= MaxPosition
  BY LimitAssumption DEF Amounts
<1>4. Appended(rows, rows', s, m)
  BY <1>1, <1>2, EntryAppends
<1>5. /\ rows'[Len(rows) + 1].mode = Mode(s) /\ rows'[Len(rows) + 1].day = today
      /\ rows'[Len(rows) + 1].size = size /\ rows'[Len(rows) + 1].partial = 0
      /\ rows'[Len(rows) + 1].resolved = NotResolved
  BY <1>1, <1>2, EntryRow
<1> QED
  BY <1>1, <1>3, <1>4, <1>5

-----------------------------------------------------------------------------
(* The orders under way and the rows they are about *)

OrderRow(s) == rows[submitting[s].id]

\* An awaited order is the live order of the strategy whose row it names, of
\* the size of that row, and fills at most that much.
Orders ==
  \A s \in Strategies : Busy(s) =>
    /\ s \in LiveStrategies
    /\ OrderRow(s).strategy = s
    /\ OrderRow(s).mode = "live"
    /\ submitting[s].filled <= submitting[s].size
    /\ OrderRow(s).size = submitting[s].size

Bounded ==
  \A id \in DOMAIN rows :
    /\ rows[id].size <= MaxPosition
    /\ rows[id].mode = "live" => rows[id].strategy \in LiveStrategies

OrdersInv == Orders /\ Bounded /\ NoStopView

\* Two strategies never await orders for the same row.
LEMMA OrdersApart ==
  ASSUME Orders, NEW s \in Strategies, NEW t \in Strategies, Busy(s), Busy(t),
         submitting[s].id = submitting[t].id
  PROVE  s = t
  BY DEF Orders, OrderRow

LEMMA InitOrders == Init => OrdersInv
  BY DEF Init, OrdersInv, Orders, Busy, Bounded, NoStopView

\* A write that is not an entry never makes a row larger.
LEMMA WritesShrink ==
  ASSUME TypeOK, OrdersInv, Writes
  PROVE  \/ \E s \in Strategies, m \in Markets, stake \in Stakes, size \in Amounts :
               Enter(s, m, stake, size)
         \/ \A id \in DOMAIN rows : rows'[id].size <= rows[id].size
<1>1. \A id \in DOMAIN rows : rows[id].size \in Nat
  BY SizesAreNat DEF TypeOK
<1>2. CASE \E s \in Strategies : Reconcile(s)
  <2>1. PICK s \in Strategies : Reconcile(s)
    BY <1>2
  <2>2. Resized(rows, rows', submitting[s].id, submitting[s].filled)
    BY <2>1, ReplyRows
  <2>3. /\ submitting[s].filled <= rows[submitting[s].id].size
        /\ submitting[s].id \in DOMAIN rows
    BY <2>1, ReplyRows DEF Reconcile, OrdersInv, Orders, OrderRow
  <2> QED
    BY <1>1, <2>2, <2>3 DEF Resized, OthersKept
<1>3. CASE \E s \in Strategies : Void(s)
  BY <1>1, <1>3, ReplyRows DEF Closed, OthersKept
<1>4. CASE \E id \in DOMAIN stopView, loss \in Amounts : StopPaper(id, loss)
  BY <1>1, <1>4, StopPaperRows DEF Closed, OthersKept
<1>5. CASE \E r \in Reviewers, found \in SUBSET Markets : Settle(r, found)
  BY <1>1, <1>5, SettleRows
<1> QED
  BY <1>2, <1>3, <1>4, <1>5 DEF Writes

\* A step under which every order still awaited keeps its row's size.
LEMMA OrdersCarried ==
  ASSUME TypeOK, Orders, KeepsClosed(rows, rows'),
         \A s \in Strategies :
            \/ submitting'[s] = NoOrder
            \/ submitting'[s] = submitting[s] /\ rows'[submitting[s].id].size = OrderRow(s).size
  PROVE  Orders'
<1> SUFFICES ASSUME NEW s \in Strategies, submitting'[s] # NoOrder
             PROVE  /\ s \in LiveStrategies
                    /\ rows'[submitting'[s].id].strategy = s
                    /\ rows'[submitting'[s].id].mode = "live"
                    /\ submitting'[s].filled <= submitting'[s].size
                    /\ rows'[submitting'[s].id].size = submitting'[s].size
  BY DEF Orders, OrderRow, Busy
<1>1. Busy(s) /\ submitting'[s] = submitting[s] /\ submitting[s].id \in DOMAIN rows
  BY DEF Busy, TypeOK
<1>2. SameEntry(OrderRow(s), rows'[submitting[s].id])
  BY <1>1 DEF KeepsClosed, OrderRow
<1> QED
  BY <1>1, <1>2 DEF Orders, OrderRow, SameEntry

LEMMA EnterOrders ==
  ASSUME TypeOK, OrdersInv, NEW s \in Strategies, NEW m \in Markets,
         NEW stake \in Stakes, NEW size \in Amounts, Enter(s, m, stake, size)
  PROVE  OrdersInv'
<1> DEFINE last == Len(rows) + 1
<1>1. /\ Appended(rows, rows', s, m)
      /\ rows'[last].mode = Mode(s) /\ rows'[last].size = size
      /\ size \in Nat /\ size <= MaxPosition
  BY EnterRows
<1>2. /\ rows'[last].strategy = s
      /\ DOMAIN rows' = DOMAIN rows \cup {last}
      /\ \A id \in DOMAIN rows : rows'[id] = rows[id]
  BY <1>1 DEF Appended
<1>3. s \in LiveStrategies <=> Mode(s) = "live"
  BY DEF Mode
<1> HIDE DEF last
<1>4. ASSUME NEW t \in Strategies, submitting'[t] # NoOrder
      PROVE  /\ t \in LiveStrategies
             /\ rows'[submitting'[t].id].strategy = t
             /\ rows'[submitting'[t].id].mode = "live"
             /\ submitting'[t].filled <= submitting'[t].size
             /\ rows'[submitting'[t].id].size = submitting'[t].size
  <2>1. CASE t = s
    <3>1. Mode(s) = "live" /\ submitting'[s] = [id |-> last, size |-> size, filled |-> 0]
      BY <1>4, <2>1 DEF Enter, TypeOK, Busy, last
    <3> QED
      BY <1>1, <1>2, <1>3, <2>1, <3>1
  <2>2. CASE t # s
    <3>1. submitting'[t] = submitting[t] /\ Busy(t)
      BY <1>4, <2>2 DEF Enter, TypeOK, Busy
    <3>2. submitting[t].id \in DOMAIN rows
      BY <3>1 DEF TypeOK
    <3> QED
      BY <1>2, <3>1, <3>2 DEF OrdersInv, Orders, OrderRow
  <2> QED
    BY <2>1, <2>2
<1>5. Orders'
  BY <1>4 DEF Orders, OrderRow, Busy
<1>6. Bounded'
  BY <1>1, <1>2, <1>3 DEF OrdersInv, Bounded
<1>7. NoStopView'
  BY DEF Enter, OrdersInv, NoStopView
<1> QED
  BY <1>5, <1>6, <1>7 DEF OrdersInv

\* Orders, for a step that enters nothing.
LEMMA OtherOrders ==
  ASSUME NoLiveStop, TypeOK, OrdersInv, [Next]_vars, KeepsClosed(rows, rows'),
         \A s \in Strategies, m \in Markets, stake \in Stakes, size \in Amounts :
            ~Enter(s, m, stake, size)
  PROVE  Orders'
<1>1. Orders /\ \A id \in DOMAIN rows : rows[id].size \in Nat
  BY SizesAreNat DEF TypeOK, OrdersInv
<1>2. CASE \E s \in Strategies, filled \in Amounts : OrderFills(s, filled)
  <2>1. PICK s \in Strategies, filled \in Amounts : OrderFills(s, filled)
    BY <1>2
  <2>2. /\ rows' = rows /\ filled <= submitting[s].size
        /\ submitting' = [submitting EXCEPT ![s].filled = filled]
    BY <2>1 DEF OrderFills
  <2>3. Busy(s) /\ submitting[s] \in Order
    BY <2>1 DEF OrderFills, TypeOK
  <2>4. /\ submitting'[s].id = submitting[s].id /\ submitting'[s].size = submitting[s].size
        /\ submitting'[s].filled = filled
    BY <2>2, <2>3 DEF Order, TypeOK
  <2>5. \A t \in Strategies : t # s => submitting'[t] = submitting[t]
    BY <2>2 DEF TypeOK
  <2> QED
    BY <1>1, <2>2, <2>3, <2>4, <2>5 DEF Orders, OrderRow, Busy
<1>3. CASE \E s \in Strategies : Reconcile(s) \/ Void(s) \/ KeepDuplicate(s)
  <2>1. PICK s \in Strategies : Reconcile(s) \/ Void(s) \/ KeepDuplicate(s)
    BY <1>3
  <2>2. Busy(s) /\ submitting' = [submitting EXCEPT ![s] = NoOrder]
    BY <2>1 DEF Reconcile, Void, KeepDuplicate, Answered
  <2>3. \/ rows' = rows
        \/ OthersKept(rows, rows', submitting[s].id)
    BY <2>1, ReplyRows DEF Resized, Closed, KeepDuplicate, Answered
  <2>4. ASSUME NEW t \in Strategies, submitting'[t] # NoOrder
        PROVE  submitting'[t] = submitting[t] /\ rows'[submitting[t].id].size = OrderRow(t).size
    <3>1. t # s /\ submitting'[t] = submitting[t] /\ Busy(t)
      BY <2>2, <2>4 DEF TypeOK, Busy
    <3>2. submitting[t].id \in DOMAIN rows /\ submitting[t].id # submitting[s].id
      BY <1>1, <2>2, <3>1, OrdersApart DEF TypeOK
    <3> QED
      BY <2>3, <3>1, <3>2 DEF OthersKept, OrderRow
  <2> QED
    BY <1>1, <2>4, OrdersCarried
<1>4. CASE \E id \in DOMAIN stopView, loss \in Amounts : StopPaper(id, loss)
  <2>1. PICK id \in DOMAIN stopView, loss \in Amounts : StopPaper(id, loss)
    BY <1>4
  <2>2. submitting' = submitting
    BY <2>1 DEF StopPaper, StopDone
  <2>3. \A other \in DOMAIN rows : rows'[other].size = rows[other].size
    BY <2>1, StopPaperRows DEF Closed, OthersKept
  <2> QED
    BY <1>1, <2>2, <2>3, OrdersCarried DEF TypeOK, OrderRow, Busy
<1>5. CASE \E r \in Reviewers, found \in SUBSET Markets : Settle(r, found)
  <2>1. PICK r \in Reviewers, found \in SUBSET Markets : Settle(r, found)
    BY <1>5
  <2>2. submitting' = submitting
    BY <2>1 DEF Settle
  <2>3. \A other \in DOMAIN rows : rows'[other].size = rows[other].size
    BY <2>1, SettleRows
  <2> QED
    BY <1>1, <2>2, <2>3, OrdersCarried DEF TypeOK, OrderRow, Busy
<1>6. CASE Restart
  <2>1. \A s \in Strategies : submitting'[s] = NoOrder
    BY <1>6 DEF Restart
  <2> QED
    BY <1>1, <2>1, OrdersCarried
<1>7. CASE rows' = rows /\ submitting' = submitting
  BY <1>1, <1>7, OrdersCarried DEF OrderRow
<1> QED
  <2>1. CASE PollHalted \/ EvaluateBreaker \/ Trip
    BY <1>7, <2>1 DEF PollHalted, EvaluateBreaker, Trip
  <2>2. CASE \E s \in Strategies : StrategyLoop(s)
    BY <1>2, <1>3, <1>7, <2>2 DEF StrategyLoop, Refuse
  <2>3. CASE StopLossLoop
    <3>1. CASE rows' # rows
      <4>1. Writes
        BY <3>1, WhoWrites DEF OrdersInv
      <4>2. submitting' = submitting
        BY <2>3 DEF StopLossLoop, StopSnapshot, StopSkip, StopPaper, StopSold,
                    StopPartial, StopReplyLost, StopDone
      <4> QED
        BY <1>3, <1>4, <1>5, <4>1 DEF Writes
    <3>2. CASE rows' = rows
      BY <1>7, <2>3, <3>2 DEF StopLossLoop, StopSnapshot, StopSkip, StopPaper, StopSold,
                              StopPartial, StopReplyLost, StopDone
    <3> QED
      BY <3>1, <3>2
  <2>4. CASE \E r \in Reviewers : ReviewTask(r)
    BY <1>5, <1>7, <2>4 DEF ReviewTask, ReviewSnapshot
  <2>5. CASE World
    BY <1>6, <1>7, <2>5 DEF World, NewDay, CloseMarket, Finalize
  <2>6. CASE UNCHANGED vars
    BY <1>7, <2>6 DEF vars
  <2> QED
    BY <2>1, <2>2, <2>3, <2>4, <2>5, <2>6 DEF Next

LEMMA NoStopViewStep ==
  ASSUME NoStopView, [Next]_vars
  PROVE  NoStopView'
<1> SUFFICES ASSUME ~StopLossRuns, stopView = Empty PROVE stopView' = Empty
  BY DEF NoStopView
<1>1. DOMAIN stopView = {}
  BY DEF Empty
<1>2. ~StopLossLoop
  BY <1>1 DEF StopLossLoop, StopSnapshot
<1>3. CASE World
  BY <1>3 DEF World, NewDay, CloseMarket, Finalize, Restart
<1>4. CASE \E s \in Strategies : StrategyLoop(s)
  BY <1>4 DEF StrategyLoop, Refuse, Enter, OrderFills, Reconcile, Void, KeepDuplicate, Answered
<1>5. CASE PollHalted \/ EvaluateBreaker \/ Trip \/ (\E r \in Reviewers : ReviewTask(r)) \/ UNCHANGED vars
  BY <1>5 DEF PollHalted, EvaluateBreaker, Trip, ReviewTask, ReviewSnapshot, Settle, vars
<1> QED
  BY <1>2, <1>3, <1>4, <1>5 DEF Next

\* Steps that enter nothing keep the ids, and no row grows or reopens.
LEMMA OnlyEnterAppends ==
  ASSUME NoLiveStop, TypeOK, OrdersInv, [Next]_vars,
         \A s \in Strategies, m \in Markets, stake \in Stakes, size \in Amounts :
            ~Enter(s, m, stake, size)
  PROVE  /\ KeepsClosed(rows, rows')
         /\ \A id \in DOMAIN rows : rows'[id].size <= rows[id].size
<1>1. rows' = rows \/ Writes
  BY WhoWrites DEF OrdersInv
<1>2. DOMAIN rows' = DOMAIN rows
  BY <1>1 DEF Writes, Reconcile, Void, Answered, StopPaper, Settle,
              UpdateEntryFill, VoidEntry, RecordExit
<1>3. KeepsClosed(rows, rows')
  BY <1>2, NextStep DEF JournalStep, Appended
<1>4. \A id \in DOMAIN rows : rows[id].size \in Nat
  BY SizesAreNat DEF TypeOK
<1>5. \A id \in DOMAIN rows : rows'[id].size <= rows[id].size
  <2>1. CASE rows' = rows
    BY <1>4, <2>1
  <2>2. CASE Writes
    BY <2>2, WritesShrink
  <2> QED
    BY <1>1, <2>1, <2>2
<1> QED
  BY <1>3, <1>5

LEMMA OrdersStep ==
  ASSUME NoLiveStop, TypeOK, OrdersInv, [Next]_vars
  PROVE  OrdersInv'
<1>1. CASE \E s \in Strategies, m \in Markets, stake \in Stakes, size \in Amounts :
             Enter(s, m, stake, size)
  BY <1>1, EnterOrders
<1>2. CASE \A s \in Strategies, m \in Markets, stake \in Stakes, size \in Amounts :
             ~Enter(s, m, stake, size)
  <2>1. KeepsClosed(rows, rows') /\ \A id \in DOMAIN rows : rows'[id].size <= rows[id].size
    BY <1>2, OnlyEnterAppends
  <2>2. Orders'
    BY <1>2, <2>1, OtherOrders
  <2>3. Bounded'
    <3>1. \A id \in DOMAIN rows : rows[id].size \in Nat /\ rows'[id].size \in Nat
      BY <2>1, SizesAreNat DEF TypeOK, KeepsClosed
    <3> QED
      BY <2>1, <3>1, LimitAssumption DEF Bounded, OrdersInv, KeepsClosed, SameEntry
  <2> QED
    BY <2>2, <2>3, NoStopViewStep DEF OrdersInv
<1> QED
  BY <1>1, <1>2

-----------------------------------------------------------------------------
(* The market ceiling *)

CeilingInv == TypeOK /\ OrdersInv /\ MarketExposureCap

LEMMA InitCeiling == Init => CeilingInv
<1> SUFFICES ASSUME Init PROVE MarketExposureCap
  BY InitType, InitOrders DEF CeilingInv
<1>1. \A ids : ids \cap OpenIds(rows) = {}
  BY DEF Init, OpenIds
<1>2. \A m \in Markets : MarketExposure(rows, m) = 0
  BY <1>1, ExposureIsSum, SumOfNone DEF MarketExposure
<1> QED
  BY <1>2, LimitAssumption DEF MarketExposureCap

\* An approved size fits below the ceiling.
LEMMA ApprovedFits ==
  ASSUME TypeOK, MaxMarketExposure > 0, NEW s \in Strategies, NEW m \in Markets,
         NEW stake \in Stakes, NEW size \in Amounts, Enter(s, m, stake, size)
  PROVE  MarketExposure(rows, m) + size <= MaxMarketExposure
<1>1. MarketExposure(rows, m) \in Nat
  BY ExposureType DEF TypeOK, MarketExposure
<1>2. size = ApprovedSize(rows, m, stake)
  BY DEF Enter, Approves
<1>3. CappedStake(m, stake) \in Nat
  BY LimitAssumption, CoreAssumption DEF CappedStake, Smaller
<1> QED
  BY <1>1, <1>2, <1>3, LimitAssumption DEF ApprovedSize, Smaller

LEMMA CeilingStep ==
  ASSUME NoLiveStop, CeilingInv, [Next]_vars
  PROVE  CeilingInv'
<1>1. TypeOK' /\ OrdersInv' /\ rows \in Seq(Row) /\ rows' \in Seq(Row)
  BY NextStep, OrdersStep DEF CeilingInv, TypeOK
<1> SUFFICES ASSUME MaxMarketExposure > 0, NEW m \in Markets
             PROVE  MarketExposure(rows', m) <= MaxMarketExposure
  BY <1>1 DEF CeilingInv, MarketExposureCap
<1> DEFINE before == {id \in DOMAIN rows : rows[id].market = m}
           now == {id \in DOMAIN rows' : rows'[id].market = m}
<1>2. ExposureOf(rows, before) <= MaxMarketExposure
  BY DEF CeilingInv, MarketExposureCap, MarketExposure
<1>3. \A ids : ExposureOf(rows, ids) \in Nat /\ ExposureOf(rows', ids) \in Nat
  BY <1>1, ExposureType
<1>4. CASE \E s \in Strategies, k \in Markets, stake \in Stakes, size \in Amounts :
             Enter(s, k, stake, size)
  <2>1. PICK s \in Strategies, k \in Markets, stake \in Stakes, size \in Amounts :
               Enter(s, k, stake, size)
    BY <1>4
  <2> DEFINE last == Len(rows) + 1
  <2>2. Appended(rows, rows', s, k) /\ rows'[last].size = size /\ size \in Nat
    BY <2>1, EnterRows DEF CeilingInv
  <2>3. rows'[last].market = k /\ last \in DOMAIN rows' /\ last \notin DOMAIN rows
    BY <2>2 DEF Appended
  <2>4. now = IF k = m THEN before \cup {last} ELSE before
    BY <2>2, <2>3 DEF Appended
  <2>5. now \cap OpenIds(rows) = before \cap OpenIds(rows)
    BY <2>3, <2>4 DEF OpenIds
  <2>6. ExposureOf(rows, now) = ExposureOf(rows, before)
    BY <2>5 DEF ExposureOf
  <2>7. ExposureOf(rows', now) = ExposureOf(rows, now) + (IF last \in now THEN size ELSE 0)
    BY <1>1, <2>2, ExposureRises
  <2>8. last \in now <=> k = m
    BY <2>3
  <2>9. k = m => ExposureOf(rows, before) + size <= MaxMarketExposure
    BY <2>1, ApprovedFits DEF CeilingInv, MarketExposure
  <2> HIDE DEF before, now, last
  <2>10. ExposureOf(rows', now) <= MaxMarketExposure
    BY <1>2, <1>3, <2>2, <2>6, <2>7, <2>8, <2>9
  <2> QED
    BY <2>10 DEF now, MarketExposure
<1>5. CASE \A s \in Strategies, k \in Markets, stake \in Stakes, size \in Amounts :
             ~Enter(s, k, stake, size)
  <2>1. /\ KeepsClosed(rows, rows')
        /\ \A id \in DOMAIN rows : rows'[id].size <= rows[id].size
    BY <1>5, OnlyEnterAppends DEF CeilingInv
  <2>2. now = before
    BY <2>1 DEF KeepsClosed, SameEntry
  <2>3. ExposureOf(rows', now) <= ExposureOf(rows, before)
    BY <1>1, <2>1, <2>2, ExposureFalls
  <2> HIDE DEF before, now
  <2>4. ExposureOf(rows', now) <= MaxMarketExposure
    BY <1>2, <1>3, <2>3, LimitAssumption
  <2> QED
    BY <2>4 DEF now, MarketExposure
<1> QED
  BY <1>4, <1>5

\* The open rows of a market never add up to more than the ceiling
\* (risk.py:390), whatever else goes wrong: fills below the size asked for,
\* lost replies, restarts, stale settlements.
THEOREM CeilingHolds ==
  ASSUME NoLiveStop
  PROVE  Spec => []MarketExposureCap
<1>1. CeilingInv /\ [Next]_vars => CeilingInv'
  BY CeilingStep
<1>2. CeilingInv => MarketExposureCap
  BY DEF CeilingInv
<1> QED
  BY InitCeiling, <1>1, <1>2, PTL DEF Spec

-----------------------------------------------------------------------------
(* Rows settle once *)

\* No live stop-loss pass, and no market becomes final while a task is in the
\* middle of handling one of its rows.
Careful == NoLiveStop /\ "fast_final" \notin Disturbances

\* What a task holds on to across its await is still to be done, or has been
\* done by another reviewer in just the same way.
OrdersWatched ==
  \A s \in Strategies : Busy(s) =>
    OrderRow(s).outcome = "pending" /\ ~Final(OrderRow(s).market)

StopWatched ==
  \A id \in DOMAIN stopView : rows[id].outcome = "pending" /\ ~Final(rows[id].market)

ReviewWatched ==
  \A r \in Reviewers : \A id \in DOMAIN reviewView[r] :
    Final(rows[id].market) => rows[id].outcome \in {"pending", Result(rows[id].market)}

WatchInv == TypeOK /\ OrdersInv /\ OrdersWatched /\ StopWatched /\ ReviewWatched

LEMMA InitWatch == Init => WatchInv
<1> SUFFICES ASSUME Init PROVE OrdersWatched /\ StopWatched /\ ReviewWatched
  BY InitType, InitOrders DEF WatchInv
<1>1. DOMAIN stopView = {} /\ \A r \in Reviewers : DOMAIN reviewView[r] = {}
  BY DEF Init, Empty
<1>2. \A s \in Strategies : ~Busy(s)
  BY DEF Init, Busy
<1> QED
  BY <1>1, <1>2 DEF OrdersWatched, StopWatched, ReviewWatched

\* On a paper exchange nothing is awaited; otherwise there is no pass.
LEMMA OrderOrPass ==
  ASSUME NoLiveStop, OrdersInv, NEW s \in Strategies, Busy(s)
  PROVE  ~IsPaper /\ DOMAIN stopView = {}
<1>1. s \in LiveStrategies
  BY DEF OrdersInv, Orders
<1>2. ~IsPaper
  BY <1>1, CoreAssumption
<1> QED
  BY <1>2 DEF NoLiveStop, OrdersInv, NoStopView, Empty

\* What becomes of a row's outcome in a step.
Voids(id) == \E s \in Strategies : Void(s) /\ id = submitting[s].id
Stops(id) == \E loss \in Amounts : id \in DOMAIN stopView /\ StopPaper(id, loss)
Settles(id) ==
  /\ Final(rows[id].market)
  /\ rows'[id].outcome = Result(rows[id].market)
  /\ market' = market

LEMMA RowOutcomes ==
  ASSUME NoLiveStop, WatchInv, [Next]_vars, NEW id \in DOMAIN rows
  PROVE  /\ id \in DOMAIN rows'
         /\ SameEntry(rows[id], rows'[id])
         /\ \/ rows'[id].outcome = rows[id].outcome
            \/ /\ Settles(id)
               /\ rows[id].outcome \in {"pending", Result(rows[id].market)}
            \/ /\ Voids(id) \/ Stops(id)
               /\ rows[id].outcome = "pending"
               /\ ~Final(rows[id].market)
<1>1. TypeOK /\ OrdersInv
  BY DEF WatchInv
<1>2. id \in DOMAIN rows' /\ SameEntry(rows[id], rows'[id])
  BY <1>1, NextStep DEF JournalStep, KeepsClosed, Appended, SameEntry
<1>3. CASE \E s \in Strategies, m \in Markets, stake \in Stakes, size \in Amounts :
             Enter(s, m, stake, size)
  BY <1>1, <1>2, <1>3, EnterRows DEF Appended
<1>4. CASE \E s \in Strategies : Reconcile(s)
  BY <1>1, <1>2, <1>4, ReplyRows DEF Resized, OthersKept
<1>5. CASE \E s \in Strategies : Void(s)
  <2>1. PICK s \in Strategies : Void(s)
    BY <1>5
  <2>2. Closed(rows, rows', submitting[s].id, "voided", 0) /\ Busy(s)
    BY <1>1, <2>1, ReplyRows DEF Void
  <2>3. CASE id = submitting[s].id
    BY <1>2, <2>1, <2>2, <2>3 DEF WatchInv, OrdersWatched, OrderRow, Voids
  <2>4. CASE id # submitting[s].id
    BY <1>2, <2>2, <2>4 DEF Closed, OthersKept
  <2> QED
    BY <2>3, <2>4
<1>6. CASE \E other \in DOMAIN stopView, loss \in Amounts : StopPaper(other, loss)
  <2>1. PICK other \in DOMAIN stopView, loss \in Amounts : StopPaper(other, loss)
    BY <1>6
  <2>2. Closed(rows, rows', other, "lost", -loss)
    BY <1>1, <2>1, StopPaperRows
  <2>3. CASE id = other
    BY <1>2, <2>1, <2>3 DEF WatchInv, StopWatched, Stops
  <2>4. CASE id # other
    BY <1>2, <2>2, <2>4 DEF Closed, OthersKept
  <2> QED
    BY <2>3, <2>4
<1>7. CASE \E r \in Reviewers, found \in SUBSET Markets : Settle(r, found)
  <2>1. PICK r \in Reviewers, found \in SUBSET Markets : Settle(r, found)
    BY <1>7
  <2>2. \/ rows'[id] = rows[id]
        \/ id \in DOMAIN reviewView[r] /\ Resolves(id, reviewView[r][id])
    BY <1>1, <2>1, SettleRows
  <2>3. market' = market
    BY <2>1 DEF Settle
  <2> QED
    BY <1>2, <2>2, <2>3 DEF Resolves, Settles, WatchInv, ReviewWatched
<1>8. CASE rows' = rows
  BY <1>2, <1>8
<1> QED
  BY <1>1, <1>3, <1>4, <1>5, <1>6, <1>7, <1>8, WhoWrites DEF Writes, OrdersInv

\* A result stays, and comes to a market nobody is handling.
LEMMA FinalsFrom ==
  ASSUME Careful, TypeOK, [Next]_vars, NEW m \in Markets
  PROVE  /\ Final(m) => market'[m] = market[m]
         /\ Final(m)' => \/ market'[m] = market[m]
                         \/ /\ ~Handled(m)
                            /\ UNCHANGED <<rows, submitting, stopView, reviewView>>
<1>1. market \in [Markets -> MarketState]
  BY DEF TypeOK
<1>2. CASE \E k \in Markets : CloseMarket(k)
  BY <1>1, <1>2 DEF CloseMarket, Final
<1>3. CASE \E k \in Markets, result \in {"yes", "no"} : Finalize(k, result)
  BY <1>1, <1>3 DEF Finalize, Final, Careful
<1>4. CASE market' = market
  BY <1>4 DEF Final
<1>5. CASE World
  BY <1>2, <1>3, <1>4, <1>5 DEF World, NewDay, Restart
<1>6. CASE \E s \in Strategies : StrategyLoop(s)
  BY <1>4, <1>6 DEF StrategyLoop, Refuse, Enter, OrderFills, Reconcile, Void, KeepDuplicate, Answered
<1>7. CASE StopLossLoop
  BY <1>4, <1>7 DEF StopLossLoop, StopSnapshot, StopSkip, StopPaper, StopSold, StopPartial,
                    StopReplyLost, StopDone
<1>8. CASE PollHalted \/ EvaluateBreaker \/ Trip \/ (\E r \in Reviewers : ReviewTask(r)) \/ UNCHANGED vars
  BY <1>4, <1>8 DEF PollHalted, EvaluateBreaker, Trip, ReviewTask, ReviewSnapshot, Settle, vars
<1> QED
  BY <1>5, <1>6, <1>7, <1>8 DEF Next

\* An awaited order was awaited before, or has just been entered.
LEMMA OrdersFrom ==
  ASSUME TypeOK, [Next]_vars, NEW s \in Strategies, submitting'[s] # NoOrder
  PROVE  \/ Busy(s) /\ submitting'[s].id = submitting[s].id /\ ~Void(s) /\ ~Reconcile(s)
         \/ \E m \in Markets, stake \in Stakes, size \in Amounts :
              /\ Enter(s, m, stake, size)
              /\ submitting'[s] = [id |-> Len(rows) + 1, size |-> size, filled |-> 0]
<1>1. CASE \E t \in Strategies, m \in Markets, stake \in Stakes, size \in Amounts :
             Enter(t, m, stake, size)
  <2>1. PICK t \in Strategies, m \in Markets, stake \in Stakes, size \in Amounts :
               Enter(t, m, stake, size)
    BY <1>1
  <2>2. CASE submitting'[s] = submitting[s]
    <3>1. ~Void(s) /\ ~Reconcile(s)
      BY <2>2 DEF Void, Reconcile, Answered, TypeOK, Busy
    <3> QED
      BY <2>2, <3>1 DEF Busy
  <2>3. CASE submitting'[s] # submitting[s]
    BY <2>1, <2>3 DEF Enter, TypeOK
  <2> QED
    BY <2>2, <2>3
<1>2. CASE \E t \in Strategies, filled \in Amounts : OrderFills(t, filled)
  <2>1. submitting'[s].id = submitting[s].id /\ Busy(s)
    BY <1>2 DEF OrderFills, TypeOK, Order, Busy
  <2>2. ~Void(s) /\ ~Reconcile(s)
    BY DEF Void, Reconcile, Answered, TypeOK
  <2> QED
    BY <2>1, <2>2
<1>3. CASE submitting'[s] = submitting[s]
  <2>1. ~Void(s) /\ ~Reconcile(s)
    BY DEF Void, Reconcile, Answered, TypeOK
  <2> QED
    BY <1>3, <2>1 DEF Busy
<1>4. CASE \E t \in Strategies : Reconcile(t) \/ Void(t) \/ KeepDuplicate(t)
  <2>1. submitting'[s] = submitting[s]
    BY <1>4 DEF Reconcile, Void, KeepDuplicate, Answered, TypeOK
  <2> QED
    BY <1>3, <2>1
<1>5. CASE \E t \in Strategies : StrategyLoop(t)
  BY <1>1, <1>2, <1>3, <1>4, <1>5 DEF StrategyLoop, Refuse
<1>6. CASE StopLossLoop
  BY <1>3, <1>6 DEF StopLossLoop, StopSnapshot, StopSkip, StopPaper, StopSold, StopPartial,
                    StopReplyLost, StopDone
<1>7. CASE World
  BY <1>3, <1>7 DEF World, NewDay, CloseMarket, Finalize, Restart
<1>8. CASE PollHalted \/ EvaluateBreaker \/ Trip \/ (\E r \in Reviewers : ReviewTask(r)) \/ UNCHANGED vars
  BY <1>3, <1>8 DEF PollHalted, EvaluateBreaker, Trip, ReviewTask, ReviewSnapshot, Settle, vars
<1> QED
  BY <1>5, <1>6, <1>7, <1>8 DEF Next

\* A candidate of the pass was one before, or has just been read open.
LEMMA StopFrom ==
  ASSUME TypeOK, [Next]_vars, NEW id \in DOMAIN stopView'
  PROVE  \/ id \in DOMAIN stopView /\ ~StopDone(id)
         \/ /\ id \in OpenIds(rows) /\ ~Final(rows[id].market)
            /\ UNCHANGED <<rows, market, submitting, reviewView>>
<1>1. CASE StopSnapshot
  BY <1>1 DEF StopSnapshot, Final
<1>2. CASE \E other \in DOMAIN stopView : StopDone(other)
  BY <1>2 DEF StopDone
<1>3. CASE stopView' = stopView
  BY <1>3 DEF StopDone
<1>4. CASE stopView' = Empty
  BY <1>4 DEF Empty
<1>5. CASE StopLossLoop
  BY <1>1, <1>2, <1>5 DEF StopLossLoop, StopSkip, StopPaper, StopSold, StopPartial, StopReplyLost
<1>6. CASE \E s \in Strategies : StrategyLoop(s)
  BY <1>3, <1>6 DEF StrategyLoop, Refuse, Enter, OrderFills, Reconcile, Void, KeepDuplicate, Answered
<1>7. CASE World
  BY <1>3, <1>4, <1>7 DEF World, NewDay, CloseMarket, Finalize, Restart
<1>8. CASE PollHalted \/ EvaluateBreaker \/ Trip \/ (\E r \in Reviewers : ReviewTask(r)) \/ UNCHANGED vars
  BY <1>3, <1>8 DEF PollHalted, EvaluateBreaker, Trip, ReviewTask, ReviewSnapshot, Settle, vars
<1> QED
  BY <1>5, <1>6, <1>7, <1>8 DEF Next

\* A row under review was so before, or has just been read as it is.
LEMMA ReviewFrom ==
  ASSUME TypeOK, [Next]_vars, NEW r \in Reviewers, NEW id \in DOMAIN reviewView'[r]
  PROVE  \/ /\ id \in DOMAIN reviewView[r] /\ reviewView'[r] = reviewView[r]
            /\ \A found \in SUBSET Markets : ~Settle(r, found)
         \/ /\ id \in OpenIds(rows)
            /\ reviewView'[r][id] = [size |-> rows[id].size, partial |-> rows[id].partial]
            /\ UNCHANGED <<rows, market, submitting, stopView>>
<1>0. DOMAIN Empty = {} /\ reviewView = [q \in Reviewers |-> reviewView[q]]
  BY DEF TypeOK, Empty
<1>1. CASE \E q \in Reviewers : ReviewSnapshot(q)
  <2>1. PICK q \in Reviewers : ReviewSnapshot(q)
    BY <1>1
  <2>2. CASE q = r
    BY <1>0, <2>1, <2>2 DEF ReviewSnapshot
  <2>3. CASE q # r
    <3>1. reviewView'[r] = reviewView[r]
      BY <1>0, <2>1, <2>3 DEF ReviewSnapshot
    <3> QED
      BY <1>0, <3>1 DEF Settle
  <2> QED
    BY <2>2, <2>3
<1>2. CASE \E q \in Reviewers, found \in SUBSET Markets : Settle(q, found)
  <2>1. reviewView'[r] = reviewView[r] \/ reviewView'[r] = Empty
    BY <1>0, <1>2 DEF Settle
  <2>2. reviewView'[r] # Empty
    BY <1>0
  <2> QED
    BY <1>0, <2>1, <2>2 DEF Settle
<1>3. CASE reviewView'[r] = reviewView[r]
  BY <1>0, <1>3 DEF Settle
<1>4. CASE World
  <2>1. CASE Restart
    BY <1>0, <2>1 DEF Restart
  <2> QED
    BY <1>3, <1>4, <2>1 DEF World, NewDay, CloseMarket, Finalize
<1>5. CASE \E s \in Strategies : StrategyLoop(s)
  BY <1>3, <1>5 DEF StrategyLoop, Refuse, Enter, OrderFills, Reconcile, Void, KeepDuplicate, Answered
<1>6. CASE StopLossLoop
  BY <1>3, <1>6 DEF StopLossLoop, StopSnapshot, StopSkip, StopPaper, StopSold, StopPartial,
                    StopReplyLost, StopDone
<1>7. CASE PollHalted \/ EvaluateBreaker \/ Trip \/ UNCHANGED vars
  BY <1>3, <1>7 DEF PollHalted, EvaluateBreaker, Trip, vars
<1> QED
  BY <1>1, <1>2, <1>4, <1>5, <1>6, <1>7 DEF Next, ReviewTask

\* The market of a row that is being handled stays without a result.
LEMMA HandledStays ==
  ASSUME Careful, WatchInv, [Next]_vars, NEW id \in DOMAIN rows,
         ~Final(rows[id].market), Final(rows[id].market)'
  PROVE  /\ id \notin HandledIds
         /\ UNCHANGED <<rows, submitting, stopView, reviewView>>
<1> DEFINE m == rows[id].market
<1>1. rows[id] \in Row /\ TypeOK
  BY RowAt DEF WatchInv, TypeOK
<1>2. m \in Markets
  BY <1>1 DEF Row
<1>3. rows'[id].market = m
  BY RowOutcomes DEF SameEntry, Careful
<1>4. PICK k : k = m
  OBVIOUS
<1>5. market'[k] # market[k] /\ Final(k)'
  BY <1>3, <1>4 DEF Final
<1>6. ~Handled(k) /\ UNCHANGED <<rows, submitting, stopView, reviewView>>
  BY <1>1, <1>2, <1>4, <1>5, FinalsFrom
<1> QED
  BY <1>4, <1>6 DEF Handled

LEMMA WatchStep ==
  ASSUME Careful, WatchInv, [Next]_vars
  PROVE  WatchInv'
<1>1. TypeOK' /\ OrdersInv' /\ TypeOK /\ OrdersInv /\ NoLiveStop
  BY NextStep, OrdersStep DEF WatchInv, Careful
<1>2. \A id \in DOMAIN rows : rows[id].market \in Markets /\ rows'[id].market = rows[id].market
  <2> SUFFICES ASSUME NEW id \in DOMAIN rows
               PROVE  rows[id].market \in Markets /\ rows'[id].market = rows[id].market
    OBVIOUS
  <2>1. rows[id] \in Row
    BY <1>1, RowAt DEF TypeOK
  <2> QED
    BY <1>1, <2>1, RowOutcomes DEF SameEntry, Row
<1>3. OrdersWatched'
  <2> SUFFICES ASSUME NEW s \in Strategies, submitting'[s] # NoOrder,
                      NEW id, id = submitting'[s].id
               PROVE  rows'[id].outcome = "pending" /\ ~Final(rows[id].market)'
    BY DEF OrdersWatched, OrderRow, Busy
  <2>1. CASE \E m \in Markets, stake \in Stakes, size \in Amounts :
               Enter(s, m, stake, size) /\ id = Len(rows) + 1
    <3>1. PICK m \in Markets, stake \in Stakes, size \in Amounts :
                 Enter(s, m, stake, size) /\ id = Len(rows) + 1
      BY <2>1
    <3>2. rows'[id].outcome = "pending" /\ rows'[id].market = m
      BY <1>1, <3>1, EnterRows DEF Appended
    <3>3. market'[m] = "open"
      BY <3>1 DEF Enter
    <3> QED
      BY <3>2, <3>3 DEF Final
  <2>2. CASE Busy(s) /\ id = submitting[s].id /\ ~Void(s)
    <3>1. /\ id \in DOMAIN rows /\ rows[id].outcome = "pending" /\ ~Final(rows[id].market)
          /\ id \in HandledIds
      BY <2>2 DEF WatchInv, TypeOK, OrdersWatched, OrderRow, HandledIds
    <3>2. ~Final(rows[id].market)'
      BY <3>1, HandledStays
    <3>3. ~Voids(id)
      BY <1>1, <2>2, OrdersApart DEF Voids, OrdersInv, Void
    <3>4. ~Stops(id)
      BY <1>1, <2>2, OrderOrPass DEF Stops
    <3> QED
      BY <1>1, <3>1, <3>2, <3>3, <3>4, RowOutcomes DEF Settles
  <2>3. CASE \E m \in Markets, stake \in Stakes, size \in Amounts :
               /\ Enter(s, m, stake, size)
               /\ submitting'[s] = [id |-> Len(rows) + 1, size |-> size, filled |-> 0]
    BY <2>1, <2>3
  <2> QED
    BY <1>1, <2>2, <2>3, OrdersFrom
<1>4. StopWatched'
  <2> SUFFICES ASSUME NEW id \in DOMAIN stopView'
               PROVE  rows'[id].outcome = "pending" /\ ~Final(rows[id].market)'
    BY DEF StopWatched
  <2>1. CASE id \in DOMAIN stopView /\ ~StopDone(id)
    <3>1. /\ id \in DOMAIN rows /\ rows[id].outcome = "pending" /\ ~Final(rows[id].market)
          /\ id \in HandledIds
      BY <2>1 DEF WatchInv, TypeOK, StopWatched, HandledIds
    <3>2. ~Final(rows[id].market)'
      BY <3>1, HandledStays
    <3>3. ~Voids(id)
      BY <1>1, <2>1, OrderOrPass DEF Voids, Void
    <3>4. ~Stops(id)
      BY <2>1 DEF Stops, StopPaper
    <3> QED
      BY <1>1, <3>1, <3>2, <3>3, <3>4, RowOutcomes DEF Settles
  <2>2. CASE /\ id \in OpenIds(rows) /\ ~Final(rows[id].market)
             /\ UNCHANGED <<rows, market>>
    BY <2>2 DEF OpenIds, Final
  <2> QED
    BY <1>1, <2>1, <2>2, StopFrom
<1>5. ReviewWatched'
  <2> SUFFICES ASSUME NEW r \in Reviewers, NEW id \in DOMAIN reviewView'[r],
                      Final(rows[id].market)'
               PROVE  rows'[id].outcome \in {"pending", Result(rows[id].market)'}
    BY DEF ReviewWatched
  <2>1. CASE id \in DOMAIN reviewView[r]
    <3>1. id \in DOMAIN rows /\ id \in HandledIds
      BY <1>1, <2>1 DEF TypeOK, HandledIds
    <3>2. Final(rows[id].market)
      BY <3>1, HandledStays
    <3>3. Result(rows[id].market)' = Result(rows[id].market)
      BY <1>1, <1>2, <3>1, <3>2, FinalsFrom DEF Result
    <3>4. rows[id].outcome \in {"pending", Result(rows[id].market)}
      BY <2>1, <3>2 DEF WatchInv, ReviewWatched
    <3> QED
      BY <1>1, <3>1, <3>2, <3>3, <3>4, RowOutcomes DEF Settles
  <2>2. CASE id \in OpenIds(rows) /\ rows' = rows
    BY <2>2 DEF OpenIds
  <2> QED
    BY <1>1, <2>1, <2>2, ReviewFrom
<1> QED
  BY <1>1, <1>3, <1>4, <1>5 DEF WatchInv

\* A row that has closed keeps its outcome, whichever of the executor, the
\* stop-loss and two reviewers were still at work on what they had read of it
\* (logger.py:186, reviewer.py:158: no UPDATE asks whether it is still open).
THEOREM SettledOnceHolds ==
  ASSUME Careful
  PROVE  Spec => SettledOnce
<1>1. WatchInv /\ [Next]_vars => WatchInv'
  BY WatchStep
<1>2. WatchInv /\ [Next]_vars
        => [\A id \in DOMAIN rows :
              rows[id].outcome # "pending" => rows'[id].outcome = rows[id].outcome]_vars
  <2>1. \A m : Result(m) # "pending"
    BY DEF Result
  <2> QED
    BY <2>1, RowOutcomes DEF Careful, Settles
<1> QED
  BY InitWatch, <1>1, <1>2, PTL DEF Spec, SettledOnce

-----------------------------------------------------------------------------
(* The daily cap *)

\* No row is dated ahead of the day.
Dated ==
  /\ today > 0
  /\ \A id \in DOMAIN rows : rows[id].day <= today /\ rows[id].resolved <= today

DailyInv == WatchInv /\ Dated /\ DailyEntriesCap

LEMMA DayKept ==
  ASSUME [Next]_vars, ~NewDay
  PROVE  today' = today
<1>1. CASE \E s \in Strategies : StrategyLoop(s)
  BY <1>1 DEF StrategyLoop, Refuse, Enter, OrderFills, Reconcile, Void, KeepDuplicate, Answered
<1>2. CASE StopLossLoop
  BY <1>2 DEF StopLossLoop, StopSnapshot, StopSkip, StopPaper, StopSold, StopPartial,
              StopReplyLost, StopDone
<1>3. CASE World
  BY <1>3 DEF World, CloseMarket, Finalize, Restart
<1>4. CASE PollHalted \/ EvaluateBreaker \/ Trip \/ (\E r \in Reviewers : ReviewTask(r)) \/ UNCHANGED vars
  BY <1>4 DEF PollHalted, EvaluateBreaker, Trip, ReviewTask, ReviewSnapshot, Settle, vars
<1> QED
  BY <1>1, <1>2, <1>3, <1>4 DEF Next

LEMMA RowDates ==
  ASSUME TypeOK, NEW id \in DOMAIN rows
  PROVE  rows[id].day \in Nat /\ rows[id].resolved \in Nat /\ today \in Nat
<1>1. rows[id] \in Row
  BY RowAt DEF TypeOK
<1> QED
  BY <1>1 DEF Row, TypeOK

LEMMA DatedStep ==
  ASSUME NoLiveStop, TypeOK, OrdersInv, Dated, [Next]_vars
  PROVE  Dated'
<1>1. TypeOK' /\ JournalStep
  BY NextStep
<1>2. today \in Nat
  BY DEF TypeOK
<1>3. ASSUME rows' = rows PROVE Dated'
  <2>1. today' = today \/ today' = today + 1
    BY DayKept DEF NewDay
  <2>2. \A id \in DOMAIN rows : rows[id].day \in Nat /\ rows[id].resolved \in Nat
    BY RowDates
  <2> QED
    BY <1>2, <1>3, <2>1, <2>2 DEF Dated
<1>4. CASE Writes
  <2>1. today' = today
    BY <1>4 DEF Writes, Enter, Reconcile, Void, Answered, StopPaper, StopDone, Settle
  <2>2. CASE \E s \in Strategies, m \in Markets, stake \in Stakes, size \in Amounts :
               Enter(s, m, stake, size)
    BY <1>2, <2>1, <2>2, EnterRows DEF Dated, Appended, NotResolved
  <2>3. CASE DOMAIN rows' = DOMAIN rows
    <3>1. \A id \in DOMAIN rows : rows'[id].day = rows[id].day
      BY <1>1, <2>3 DEF JournalStep, KeepsClosed, Appended, SameEntry
    <3>2. ASSUME NEW id \in DOMAIN rows
          PROVE  rows'[id].resolved \in {rows[id].resolved, today}
      <4>1. CASE \E s \in Strategies : Reconcile(s) \/ Void(s)
        BY <4>1, ReplyRows DEF Resized, Closed, OthersKept
      <4>2. CASE \E other \in DOMAIN stopView, loss \in Amounts : StopPaper(other, loss)
        BY <4>2, StopPaperRows DEF Closed, OthersKept
      <4>3. CASE \E r \in Reviewers, found \in SUBSET Markets : Settle(r, found)
        BY <4>3, SettleRows DEF Resolves
      <4>4. CASE \E s \in Strategies, m \in Markets, stake \in Stakes, size \in Amounts :
                   Enter(s, m, stake, size)
        BY <2>3, <4>4, EnterRows DEF Appended
      <4> QED
        BY <1>4, <4>1, <4>2, <4>3, <4>4 DEF Writes
    <3> QED
      BY <1>2, <2>1, <2>3, <3>1, <3>2 DEF Dated
  <2>4. CASE \A s \in Strategies, m \in Markets, stake \in Stakes, size \in Amounts :
               ~Enter(s, m, stake, size)
    BY <2>3, <2>4, OnlyEnterAppends DEF KeepsClosed
  <2> QED
    BY <2>2, <2>4
<1> QED
  BY <1>3, <1>4, WhoWrites DEF OrdersInv

LEMMA EntriesFinite ==
  ASSUME NEW old \in Seq(Row), NEW day
  PROVE  IsFiniteSet(EntriesSince(old, day)) /\ Cardinality(EntriesSince(old, day)) \in Nat
<1>1. EntriesSince(old, day) \subseteq 1..Len(old) /\ IsFiniteSet(1..Len(old))
  BY FS_Interval DEF EntriesSince
<1> QED
  BY <1>1, FS_Subset, FS_CardinalityType

LEMMA InitDaily == Init => DailyInv
<1> SUFFICES ASSUME Init PROVE Dated /\ DailyEntriesCap
  BY InitWatch DEF DailyInv
<1>1. DOMAIN rows = {} /\ EntriesSince(rows, today) = {}
  BY DEF Init, EntriesSince
<1>2. Cardinality({}) = 0
  BY FS_EmptySet
<1>3. today > 0
  BY DEF Init
<1> QED
  BY <1>1, <1>2, <1>3, LimitAssumption DEF Dated, DailyEntriesCap

LEMMA DailyStep ==
  ASSUME Careful, DailyInv, [Next]_vars
  PROVE  DailyInv'
<1>1. WatchInv /\ TypeOK /\ OrdersInv /\ NoLiveStop /\ Dated
  BY DEF DailyInv, WatchInv, Careful
<1>2. WatchInv' /\ Dated' /\ rows \in Seq(Row) /\ rows' \in Seq(Row)
  BY <1>1, WatchStep, DatedStep DEF WatchInv, TypeOK
<1> SUFFICES DailyEntriesCap'
  BY <1>2 DEF DailyInv
<1>3. /\ Cardinality(EntriesSince(rows, today)) \in Nat
      /\ IsFiniteSet(EntriesSince(rows, today))
      /\ Cardinality(EntriesSince(rows, today)) <= MaxDailyPositions
  BY <1>2, EntriesFinite DEF DailyInv, DailyEntriesCap
<1>4. CASE NewDay
  <2>1. \A id \in DOMAIN rows : ~(rows[id].day >= today + 1)
    BY <1>1, RowDates DEF Dated
  <2>2. EntriesSince(rows', today') = {}
    BY <1>4, <2>1 DEF NewDay, EntriesSince
  <2>3. Cardinality({}) = 0
    BY FS_EmptySet
  <2> QED
    BY <2>2, <2>3, LimitAssumption DEF DailyEntriesCap
<1>5. CASE \E s \in Strategies, m \in Markets, stake \in Stakes, size \in Amounts :
             Enter(s, m, stake, size)
  <2>1. PICK s \in Strategies, m \in Markets, stake \in Stakes, size \in Amounts :
               Enter(s, m, stake, size)
    BY <1>5
  <2> DEFINE last == Len(rows) + 1
  <2>2. Appended(rows, rows', s, m) /\ rows'[last].day = today /\ today \in Nat
    BY <1>1, <2>1, EnterRows DEF TypeOK
  <2>3. rows'[last].outcome = "pending" /\ DOMAIN rows' = DOMAIN rows \cup {last}
        /\ last \notin DOMAIN rows /\ \A id \in DOMAIN rows : rows'[id] = rows[id]
    BY <2>2 DEF Appended
  <2>4. today' = today /\ ~DailyFull(rows, today)
    BY <2>1 DEF Enter, Approves
  <2> HIDE DEF last
  <2>5. EntriesSince(rows', today') = EntriesSince(rows, today) \cup {last}
        /\ last \notin EntriesSince(rows, today)
    BY <2>2, <2>3, <2>4 DEF EntriesSince
  <2>6. Cardinality(EntriesSince(rows', today')) = Cardinality(EntriesSince(rows, today)) + 1
    BY <1>3, <2>5, FS_AddElement
  <2> QED
    BY <1>3, <2>4, <2>6, LimitAssumption DEF DailyFull, DailyEntriesCap
<1>6. CASE /\ ~NewDay
           /\ \A s \in Strategies, m \in Markets, stake \in Stakes, size \in Amounts :
                ~Enter(s, m, stake, size)
  <2>1. KeepsClosed(rows, rows') /\ today' = today
    BY <1>1, <1>6, OnlyEnterAppends, DayKept
  <2>2. \A id \in DOMAIN rows : rows[id].outcome = "voided" => rows'[id].outcome = "voided"
    <3>1. \A m : Result(m) # "voided"
      BY DEF Result
    <3> QED
      BY <1>1, <3>1, RowOutcomes
  <2>3. EntriesSince(rows', today') \subseteq EntriesSince(rows, today)
    BY <2>1, <2>2 DEF EntriesSince, KeepsClosed, SameEntry
  <2>4. Cardinality(EntriesSince(rows', today')) <= Cardinality(EntriesSince(rows, today))
        /\ Cardinality(EntriesSince(rows', today')) \in Nat
    BY <1>3, <2>3, FS_Subset, FS_CardinalityType
  <2> QED
    BY <1>3, <2>4, LimitAssumption DEF DailyEntriesCap
<1> QED
  BY <1>4, <1>5, <1>6

\* A day never counts more positions than its cap (risk.py:324).  A voided row
\* gives its slot back, and it must not be brought back afterwards: that rests
\* on rows settling once.
THEOREM DailyCapHolds ==
  ASSUME Careful
  PROVE  Spec => []DailyEntriesCap
<1>1. DailyInv /\ [Next]_vars => DailyInv'
  BY DailyStep
<1>2. DailyInv => DailyEntriesCap
  BY DEF DailyInv
<1> QED
  BY InitDaily, <1>1, <1>2, PTL DEF Spec

-----------------------------------------------------------------------------
(* The journal mirrors the account *)

\* Every answer arrives, and no live process dies with an order awaited.
\* Otherwise a row is voided, or left at the size asked for, although the
\* exchange filled something else.
Answering ==
  /\ NoLiveStop
  /\ "lost_reply" \notin Disturbances
  /\ IsPaper \/ "restart" \notin Disturbances

LiveOpen(m) == {id \in OpenIds(rows) : rows[id].mode = "live" /\ rows[id].market = m}

\* What the exchange holds for a row: while its order is awaited, what has been
\* filled so far; afterwards, what the row says.
Held ==
  [id \in DOMAIN rows |->
     LET s == rows[id].strategy
     IN  IF Busy(s) /\ submitting[s].id = id THEN submitting[s].filled
                                             ELSE rows[id].size]

PendingTillFinal ==
  \A s \in Strategies :
    Busy(s) /\ ~Final(OrderRow(s).market) => OrderRow(s).outcome = "pending"

Holding ==
  \A m \in Markets : ~Final(m) => account[m] = SumFunctionOnSet(Held, LiveOpen(m))

AccountInv == TypeOK /\ OrdersInv /\ PendingTillFinal /\ Holding

LEMMA HeldTypes ==
  ASSUME TypeOK, NEW m
  PROVE  /\ \A id \in LiveOpen(m) : Held[id] \in Nat
         /\ IsFiniteSet(LiveOpen(m)) /\ LiveOpen(m) \subseteq DOMAIN rows
         /\ SumFunctionOnSet(Held, LiveOpen(m)) \in Nat
<1>1. LiveOpen(m) \subseteq OpenIds(rows) /\ LiveOpen(m) \subseteq DOMAIN rows
  BY DEF LiveOpen, OpenIds
<1>2. IsFiniteSet(LiveOpen(m))
  BY <1>1, OpenFinite, FS_Subset DEF TypeOK
<1>3. ASSUME NEW id \in LiveOpen(m) PROVE Held[id] \in Nat
  <2>1. rows[id] \in Row /\ id \in DOMAIN rows
    BY <1>1, RowAt DEF TypeOK
  <2>2. rows[id].strategy \in Strategies /\ rows[id].size \in Nat
    BY <2>1 DEF Row
  <2>3. submitting[rows[id].strategy].filled \in Nat
    BY <2>2 DEF TypeOK, Order
  <2> QED
    BY <2>1, <2>2, <2>3 DEF Held
<1> QED
  BY <1>1, <1>2, <1>3, SumNat

LEMMA InitAccount == Init => AccountInv
<1> SUFFICES ASSUME Init PROVE PendingTillFinal /\ Holding
  BY InitType, InitOrders DEF AccountInv
<1>1. \A m \in Markets : LiveOpen(m) = {} /\ account[m] = 0
  BY DEF Init, LiveOpen, OpenIds
<1>2. \A s \in Strategies : ~Busy(s)
  BY DEF Init, Busy
<1> QED
  BY <1>1, <1>2, SumOfNone DEF PendingTillFinal, Holding

LEMMA FinalStays ==
  ASSUME TypeOK, [Next]_vars, NEW m \in Markets, Final(m)
  PROVE  market'[m] = market[m]
<1>1. CASE \E k \in Markets : CloseMarket(k)
  BY <1>1 DEF TypeOK, CloseMarket, Final
<1>2. CASE \E k \in Markets, result \in {"yes", "no"} : Finalize(k, result)
  BY <1>2 DEF TypeOK, Finalize, Final
<1>3. CASE World
  BY <1>1, <1>2, <1>3 DEF World, NewDay, Restart
<1>4. CASE \E s \in Strategies : StrategyLoop(s)
  BY <1>4 DEF StrategyLoop, Refuse, Enter, OrderFills, Reconcile, Void, KeepDuplicate, Answered
<1>5. CASE StopLossLoop
  BY <1>5 DEF StopLossLoop, StopSnapshot, StopSkip, StopPaper, StopSold, StopPartial,
              StopReplyLost, StopDone
<1>6. CASE PollHalted \/ EvaluateBreaker \/ Trip \/ (\E r \in Reviewers : ReviewTask(r)) \/ UNCHANGED vars
  BY <1>6 DEF PollHalted, EvaluateBreaker, Trip, ReviewTask, ReviewSnapshot, Settle, vars
<1> QED
  BY <1>3, <1>4, <1>5, <1>6 DEF Next

LEMMA PendingStep ==
  ASSUME NoLiveStop, TypeOK, OrdersInv, PendingTillFinal, [Next]_vars
  PROVE  PendingTillFinal'
<1>1. TypeOK' /\ JournalStep
  BY NextStep
<1> SUFFICES ASSUME NEW s \in Strategies, submitting'[s] # NoOrder,
                    NEW id, id = submitting'[s].id, ~Final(rows[id].market)'
             PROVE  rows'[id].outcome = "pending"
  BY DEF PendingTillFinal, OrderRow, Busy
<1>2. CASE \E m \in Markets, stake \in Stakes, size \in Amounts :
             /\ Enter(s, m, stake, size)
             /\ submitting'[s] = [id |-> Len(rows) + 1, size |-> size, filled |-> 0]
  BY <1>2, EnterRows DEF Appended
<1>3. CASE Busy(s) /\ submitting'[s].id = submitting[s].id /\ ~Void(s) /\ ~Reconcile(s)
  <2>1. id \in DOMAIN rows /\ rows[id] \in Row
    BY <1>3, RowAt DEF TypeOK
  <2>2. rows[id].market \in Markets /\ rows'[id].market = rows[id].market
    BY <1>1, <2>1 DEF Row, JournalStep, KeepsClosed, SameEntry, Appended
  <2>3. ~Final(rows[id].market)
    BY <2>2, FinalStays DEF Final
  <2>4. rows[id].outcome = "pending"
    BY <1>3, <2>3 DEF PendingTillFinal, OrderRow
  <2>5. rows' = rows \/ Writes
    BY WhoWrites DEF OrdersInv
  <2>6. CASE \E t \in Strategies, m \in Markets, stake \in Stakes, size \in Amounts :
               Enter(t, m, stake, size)
    BY <2>1, <2>4, <2>6, EnterRows DEF Appended
  <2>7. CASE \E t \in Strategies : Reconcile(t) \/ Void(t)
    <3>1. PICK t \in Strategies : Reconcile(t) \/ Void(t)
      BY <2>7
    <3>2. Busy(t) /\ t # s /\ OthersKept(rows, rows', submitting[t].id)
      BY <1>3, <3>1, ReplyRows DEF Reconcile, Void, Resized, Closed
    <3>3. submitting[t].id # id
      BY <1>3, <3>2, OrdersApart DEF OrdersInv
    <3> QED
      BY <2>1, <2>4, <3>2, <3>3 DEF OthersKept
  <2>8. ~ \E other \in DOMAIN stopView, loss \in Amounts : StopPaper(other, loss)
    BY <1>3, OrderOrPass
  <2>9. CASE \E r \in Reviewers, found \in SUBSET Markets : Settle(r, found)
    BY <2>1, <2>3, <2>4, <2>9, SettleRows DEF Resolves
  <2> QED
    BY <2>4, <2>5, <2>6, <2>7, <2>8, <2>9 DEF Writes
<1> QED
  BY <1>2, <1>3, OrdersFrom

\* The same open rows, holding the same: the account stays right.
LEMMA HeldSame ==
  ASSUME AccountInv, NEW m \in Markets, ~Final(m), account'[m] = account[m],
         LiveOpen(m)' = LiveOpen(m), \A id \in LiveOpen(m) : Held'[id] = Held[id]
  PROVE  account'[m] = SumFunctionOnSet(Held', LiveOpen(m)')
<1>1. IsFiniteSet(LiveOpen(m)) /\ \A id \in LiveOpen(m) : Held[id] \in Int
  BY HeldTypes DEF AccountInv
<1>2. SumFunctionOnSet(Held', LiveOpen(m)) = SumFunctionOnSet(Held, LiveOpen(m))
  BY <1>1, SumSame
<1> QED
  BY <1>2 DEF AccountInv, Holding

\* A row that stays as it is, and whose order is awaited as before or not at all.
LEMMA HeldAsBefore ==
  ASSUME TypeOK, NEW id \in DOMAIN rows, id \in DOMAIN rows', rows'[id] = rows[id],
         LET s == rows[id].strategy
         IN  \/ submitting'[s] = submitting[s]
             \/ (submitting[s] = NoOrder \/ submitting[s].id # id)
                  /\ (submitting'[s] = NoOrder \/ submitting'[s].id # id)
  PROVE  Held'[id] = Held[id]
  BY DEF Held, Busy

LEMMA HoldingEntered ==
  ASSUME AccountInv, NEW m \in Markets, ~Final(m), NEW s \in Strategies,
         NEW k \in Markets, NEW stake \in Stakes, NEW size \in Amounts,
         Enter(s, k, stake, size)
  PROVE  account'[m] = SumFunctionOnSet(Held', LiveOpen(m)')
<1> DEFINE last == Len(rows) + 1
           live == LiveOpen(m)
<1>1. /\ Appended(rows, rows', s, k) /\ rows'[last].mode = Mode(s) /\ TypeOK
      /\ account' = account /\ ~Busy(s)
  BY EnterRows DEF AccountInv, Enter
<1>2. /\ DOMAIN rows' = DOMAIN rows \cup {last} /\ last \notin DOMAIN rows
      /\ \A id \in DOMAIN rows : rows'[id] = rows[id]
      /\ rows'[last].strategy = s /\ rows'[last].market = k
      /\ rows'[last].outcome = "pending"
  BY <1>1 DEF Appended
<1>3. \A t \in Strategies : \/ submitting'[t] = submitting[t]
                            \/ t = s /\ submitting'[t].id = last /\ submitting'[t].filled = 0
  BY DEF Enter, AccountInv, TypeOK
<1>4. IsFiniteSet(live) /\ live \subseteq DOMAIN rows /\ \A id \in live : Held[id] \in Int
  BY <1>1, HeldTypes
<1>5. \A id \in live : Held'[id] = Held[id]
  <2> SUFFICES ASSUME NEW id \in live PROVE Held'[id] = Held[id]
    OBVIOUS
  <2>1. id \in DOMAIN rows /\ id # last /\ rows[id] \in Row
    BY <1>1, <1>2, <1>4, RowAt DEF TypeOK
  <2>2. rows[id].strategy \in Strategies
    BY <2>1 DEF Row
  <2> HIDE DEF last, live
  <2> QED
    BY <1>1, <1>2, <1>3, <2>1, <2>2, HeldAsBefore DEF Busy
<1>6. CASE k = m /\ Mode(s) = "live"
  <2>1. submitting'[s] = [id |-> last, size |-> size, filled |-> 0]
    BY <1>6 DEF Enter, AccountInv, TypeOK
  <2>2. submitting'[s] # NoOrder /\ submitting'[s].id = last /\ submitting'[s].filled = 0
    <3>1. last # 0
      BY <1>1 DEF TypeOK
    <3> QED
      BY <2>1, <3>1 DEF NoOrder
  <2>3. Held'[last] = 0
    BY <1>2, <2>2 DEF Held, Busy
  <2> HIDE DEF last
  <2>4. LiveOpen(m)' = live \cup {last} /\ last \notin live
    BY <1>1, <1>2, <1>4, <1>6 DEF LiveOpen, OpenIds
  <2> HIDE DEF live
  <2>5. SumFunctionOnSet(Held', live \cup {last}) = Held'[last] + SumFunctionOnSet(Held', live)
    BY <1>4, <1>5, <2>3, <2>4, SumAdd
  <2>6. SumFunctionOnSet(Held, live) = SumFunctionOnSet(Held', live)
    BY <1>4, <1>5, SumSame
  <2>7. SumFunctionOnSet(Held, live) \in Int /\ account[m] = SumFunctionOnSet(Held, live)
    BY <1>4, SumInt DEF AccountInv, Holding, live
  <2> QED
    BY <1>1, <2>3, <2>4, <2>5, <2>6, <2>7
<1>7. CASE ~(k = m /\ Mode(s) = "live")
  <2> HIDE DEF last
  <2>1. LiveOpen(m)' = live
    BY <1>1, <1>2, <1>7 DEF LiveOpen, OpenIds
  <2> QED
    BY <1>1, <1>5, <2>1, HeldSame
<1> QED
  BY <1>6, <1>7

LEMMA HoldingFilled ==
  ASSUME AccountInv, NEW m \in Markets, ~Final(m), NEW s \in Strategies,
         NEW filled \in Amounts, OrderFills(s, filled)
  PROVE  account'[m] = SumFunctionOnSet(Held', LiveOpen(m)')
<1> DEFINE order == submitting[s]
           o == order.id
           k == rows[o].market
           live == LiveOpen(m)
<1>1. /\ TypeOK /\ Busy(s) /\ order.filled = 0 /\ market[k] = "open" /\ filled \in Nat
      /\ rows' = rows /\ account' = [account EXCEPT ![k] = @ + filled]
      /\ submitting' = [submitting EXCEPT ![s].filled = filled]
  BY AmountsAreNat DEF AccountInv, OrderFills
<1>2. o \in DOMAIN rows /\ rows[o] \in Row /\ order \in Order
  BY <1>1, RowAt DEF TypeOK
<1>3. k \in Markets /\ rows[o].strategy = s /\ rows[o].mode = "live" /\ ~Final(k)
  BY <1>1, <1>2 DEF Row, AccountInv, OrdersInv, Orders, OrderRow, Final
<1>4. submitting'[s].id = o /\ submitting'[s].filled = filled /\ submitting'[s] # NoOrder
  <2>1. submitting'[s].id = o /\ submitting'[s].filled = filled
    BY <1>1, <1>2 DEF TypeOK, Order
  <2>2. filled # 0
    BY LimitAssumption DEF Amounts
  <2> QED
    BY <2>1, <2>2 DEF NoOrder
<1>5. LiveOpen(m)' = live
  BY <1>1 DEF LiveOpen
<1>6. IsFiniteSet(live) /\ live \subseteq DOMAIN rows /\ \A id \in live : Held[id] \in Int
  BY <1>1, HeldTypes
<1>7. \A id \in live \ {o} : Held'[id] = Held[id]
  <2> SUFFICES ASSUME NEW id \in live \ {o} PROVE Held'[id] = Held[id]
    OBVIOUS
  <2>1. id \in DOMAIN rows /\ rows[id] \in Row
    BY <1>1, <1>6, RowAt DEF TypeOK
  <2>2. rows[id].strategy \in Strategies
    BY <2>1 DEF Row
  <2>3. rows[id].strategy # s => submitting'[rows[id].strategy] = submitting[rows[id].strategy]
    BY <1>1, <2>2 DEF TypeOK
  <2> HIDE DEF live
  <2> QED
    BY <1>1, <1>4, <2>1, <2>3, HeldAsBefore
<1>8. Held[o] = 0 /\ Held'[o] = filled
  BY <1>1, <1>2, <1>3, <1>4 DEF Held, Busy
<1>9. CASE k = m
  <2>1. o \in live
    <3>1. rows[o].outcome = "pending"
      BY <1>1, <1>3 DEF AccountInv, PendingTillFinal, OrderRow
    <3> QED
      BY <1>2, <1>3, <1>9, <3>1 DEF LiveOpen, OpenIds
  <2>2. account'[m] = account[m] + filled
    BY <1>1, <1>9 DEF TypeOK
  <2> HIDE DEF o, live, k
  <2>3. SumFunctionOnSet(Held, live) = Held[o] + SumFunctionOnSet(Held, live \ {o})
    BY <1>6, <2>1, SumAnyFirst
  <2>4. SumFunctionOnSet(Held', live) = Held'[o] + SumFunctionOnSet(Held', live \ {o})
    <3>1. \A id \in live : Held'[id] \in Int
      BY <1>1, <1>6, <1>7, <1>8
    <3> QED
      BY <1>6, <2>1, <3>1, SumAnyFirst
  <2>5. IsFiniteSet(live \ {o}) /\ \A id \in live \ {o} : Held[id] \in Int
    BY <1>6, FS_Subset
  <2>6. /\ SumFunctionOnSet(Held, live \ {o}) = SumFunctionOnSet(Held', live \ {o})
        /\ SumFunctionOnSet(Held, live \ {o}) \in Int
    BY <1>7, <2>5, SumSame, SumInt
  <2>7. account[m] = SumFunctionOnSet(Held, live)
    BY DEF AccountInv, Holding, live
  <2> QED
    BY <1>1, <1>5, <1>8, <2>2, <2>3, <2>4, <2>6, <2>7
<1>10. CASE k # m
  <2>1. o \notin live
    BY <1>10 DEF LiveOpen
  <2>2. account'[m] = account[m]
    BY <1>1, <1>10 DEF TypeOK
  <2> HIDE DEF o, live, k
  <2>3. \A id \in live : Held'[id] = Held[id]
    BY <1>7, <2>1
  <2> QED
    BY <1>5, <2>2, <2>3, HeldSame DEF live
<1> QED
  BY <1>9, <1>10

LEMMA HoldingReconciled ==
  ASSUME AccountInv, NEW m \in Markets, ~Final(m), NEW s \in Strategies, Reconcile(s)
  PROVE  account'[m] = SumFunctionOnSet(Held', LiveOpen(m)')
<1> DEFINE o == submitting[s].id
<1>1. /\ TypeOK /\ Busy(s) /\ account' = account
      /\ submitting' = [submitting EXCEPT ![s] = NoOrder]
  BY DEF AccountInv, Reconcile, Answered
<1>2. o \in DOMAIN rows /\ Resized(rows, rows', o, submitting[s].filled) /\ rows[o].strategy = s
  BY <1>1, ReplyRows DEF AccountInv, OrdersInv, Orders, OrderRow
<1>3. DOMAIN rows' = DOMAIN rows
  BY DEF Reconcile, Answered, UpdateEntryFill
<1>4. LiveOpen(m)' = LiveOpen(m)
  BY <1>2, <1>3 DEF LiveOpen, OpenIds, Resized, OthersKept, SameEntry
<1>5. Held'[o] = Held[o]
  <2>1. submitting'[s] = NoOrder
    BY <1>1 DEF TypeOK
  <2> QED
    BY <1>1, <1>2, <1>3, <2>1 DEF Held, Busy, Resized, SameEntry
<1>6. ASSUME NEW id \in DOMAIN rows, id # o PROVE Held'[id] = Held[id]
  <2>1. rows[id] \in Row /\ rows'[id] = rows[id]
    BY <1>1, <1>2, <1>6, RowAt DEF TypeOK, Resized, OthersKept
  <2>2. rows[id].strategy \in Strategies
    BY <2>1 DEF Row
  <2>3. /\ rows[id].strategy # s => submitting'[rows[id].strategy] = submitting[rows[id].strategy]
        /\ submitting'[s] = NoOrder
    BY <1>1, <2>2 DEF TypeOK
  <2> QED
    BY <1>1, <1>3, <1>6, <2>1, <2>3, HeldAsBefore
<1> HIDE DEF o
<1>7. \A id \in LiveOpen(m) : Held'[id] = Held[id]
  BY <1>1, <1>5, <1>6, HeldTypes
<1> QED
  BY <1>1, <1>4, <1>7, HeldSame

LEMMA HoldingVoided ==
  ASSUME Answering, AccountInv, NEW m \in Markets, ~Final(m), NEW s \in Strategies, Void(s)
  PROVE  account'[m] = SumFunctionOnSet(Held', LiveOpen(m)')
<1> DEFINE o == submitting[s].id
           live == LiveOpen(m)
<1>1. /\ TypeOK /\ Busy(s) /\ account' = account
      /\ submitting' = [submitting EXCEPT ![s] = NoOrder]
  BY DEF AccountInv, Void, Answered
<1>2. /\ o \in DOMAIN rows /\ Closed(rows, rows', o, "voided", 0)
      /\ rows[o].strategy = s
  BY <1>1, ReplyRows DEF AccountInv, OrdersInv, Orders, OrderRow
<1>3. DOMAIN rows' = DOMAIN rows
  BY DEF Void, Answered, VoidEntry
<1>4. Held[o] = 0
  <2>1. submitting[s].filled = 0
    BY <1>1 DEF Void, Answering, TypeOK, Order
  <2> QED
    BY <1>1, <1>2, <2>1 DEF Held
<1>5. LiveOpen(m)' = live \ {o}
  BY <1>2, <1>3 DEF LiveOpen, OpenIds, Closed, OthersKept, SameEntry
<1>6. ASSUME NEW id \in DOMAIN rows, id # o PROVE Held'[id] = Held[id]
  <2>1. rows[id] \in Row /\ rows'[id] = rows[id]
    BY <1>1, <1>2, <1>6, RowAt DEF TypeOK, Closed, OthersKept
  <2>2. rows[id].strategy \in Strategies
    BY <2>1 DEF Row
  <2>3. /\ rows[id].strategy # s => submitting'[rows[id].strategy] = submitting[rows[id].strategy]
        /\ submitting'[s] = NoOrder
    BY <1>1, <2>2 DEF TypeOK
  <2> QED
    BY <1>1, <1>3, <1>6, <2>1, <2>3, HeldAsBefore
<1>7. IsFiniteSet(live) /\ live \subseteq DOMAIN rows /\ \A id \in live : Held[id] \in Int
  BY <1>1, HeldTypes
<1>8. account[m] = SumFunctionOnSet(Held, live)
  BY DEF AccountInv, Holding
<1> HIDE DEF o, live
<1>9. IsFiniteSet(live \ {o}) /\ \A id \in live \ {o} : Held[id] \in Int /\ Held'[id] = Held[id]
  BY <1>6, <1>7, FS_Subset
<1>10. /\ SumFunctionOnSet(Held, live \ {o}) = SumFunctionOnSet(Held', live \ {o})
       /\ SumFunctionOnSet(Held, live \ {o}) \in Int
  BY <1>9, SumSame, SumInt
<1>11. CASE o \in live
  <2>1. SumFunctionOnSet(Held, live) = Held[o] + SumFunctionOnSet(Held, live \ {o})
    BY <1>7, <1>11, SumAnyFirst
  <2> QED
    BY <1>1, <1>4, <1>5, <1>8, <1>10, <2>1
<1>12. CASE o \notin live
  <2>1. live \ {o} = live
    BY <1>12
  <2> QED
    BY <1>1, <1>5, <1>8, <1>10, <2>1
<1> QED
  BY <1>11, <1>12

LEMMA HoldingSettled ==
  ASSUME AccountInv, NEW m \in Markets, ~Final(m), NEW r \in Reviewers,
         NEW found \in SUBSET Markets, Settle(r, found)
  PROVE  account'[m] = SumFunctionOnSet(Held', LiveOpen(m)')
<1>1. TypeOK /\ account' = account /\ submitting' = submitting /\ DOMAIN rows' = DOMAIN rows
  BY DEF AccountInv, Settle
<1>2. \A id \in DOMAIN rows :
        /\ SameEntry(rows[id], rows'[id]) /\ rows'[id].size = rows[id].size
        /\ rows'[id] = rows[id] \/ Final(rows[id].market)
  BY <1>1, SettleRows DEF Resolves
<1>3. LiveOpen(m)' = LiveOpen(m)
  BY <1>1, <1>2 DEF LiveOpen, OpenIds, SameEntry
<1>4. \A id \in DOMAIN rows : Held'[id] = Held[id]
  BY <1>1, <1>2 DEF Held, Busy, SameEntry
<1>5. \A id \in LiveOpen(m) : Held'[id] = Held[id]
  BY <1>1, <1>4, HeldTypes
<1> QED
  BY <1>1, <1>3, <1>5, HeldSame

\* A paper exchange holds nothing for us and no row is live.
LEMMA HoldingPaper ==
  ASSUME IsPaper, AccountInv, TypeOK', OrdersInv', [Next]_vars, NEW m \in Markets, ~Final(m)
  PROVE  account'[m] = SumFunctionOnSet(Held', LiveOpen(m)')
<1>1. LiveOpen(m) = {} /\ LiveOpen(m)' = {}
  BY CoreAssumption DEF AccountInv, OrdersInv, Bounded, LiveOpen, OpenIds
<1>2. account[m] = 0
  BY <1>1, SumOfNone DEF AccountInv, Holding
<1>3. \A s \in Strategies : ~Busy(s)
  BY CoreAssumption DEF AccountInv, OrdersInv, Orders
<1>4. account' = account \/ \E k \in Markets, result \in {"yes", "no"} : Finalize(k, result)
  <2>1. CASE \E s \in Strategies : StrategyLoop(s)
    BY <1>3, <2>1 DEF StrategyLoop, Refuse, Enter, OrderFills, Reconcile, Void, KeepDuplicate
  <2>2. CASE StopLossLoop
    BY <2>2 DEF StopLossLoop, StopSnapshot, StopSkip, StopPaper, StopSold, StopPartial,
                StopReplyLost, AskFills
  <2>3. CASE World
    BY <2>3 DEF World, NewDay, CloseMarket, Restart
  <2>4. CASE PollHalted \/ EvaluateBreaker \/ Trip \/ (\E r \in Reviewers : ReviewTask(r)) \/ UNCHANGED vars
    BY <2>4 DEF PollHalted, EvaluateBreaker, Trip, ReviewTask, ReviewSnapshot, Settle, vars
  <2> QED
    BY <2>1, <2>2, <2>3, <2>4 DEF Next
<1>5. account'[m] = 0
  BY <1>2, <1>4 DEF Finalize, AccountInv, TypeOK
<1> QED
  BY <1>1, <1>5, SumOfNone

LEMMA HoldingStep ==
  ASSUME Answering, AccountInv, [Next]_vars
  PROVE  AccountInv'
<1>1. TypeOK /\ OrdersInv /\ TypeOK' /\ OrdersInv' /\ PendingTillFinal' /\ NoLiveStop
  BY NextStep, OrdersStep, PendingStep DEF AccountInv, Answering
<1> SUFFICES ASSUME NEW m \in Markets, ~Final(m)'
             PROVE  account'[m] = SumFunctionOnSet(Held', LiveOpen(m)')
  BY <1>1 DEF AccountInv, Holding
<1>2. ~Final(m)
  BY <1>1, FinalStays DEF Final
<1>3. CASE IsPaper
  BY <1>1, <1>2, <1>3, HoldingPaper
<1>4. CASE ~IsPaper
  <2>1. CASE account' = account /\ rows' = rows /\ submitting' = submitting
    <3>1. Held' = Held /\ LiveOpen(m)' = LiveOpen(m)
      BY <2>1 DEF Held, LiveOpen, Busy
    <3> QED
      BY <1>2, <2>1, <3>1 DEF AccountInv, Holding
  <2>2. CASE \E s \in Strategies : StrategyLoop(s)
    <3>1. PICK s \in Strategies : StrategyLoop(s)
      BY <2>2
    <3>2. CASE \E k \in Markets, stake \in Stakes, edgeOk \in BOOLEAN : Refuse(s, k, stake, edgeOk)
      BY <2>1, <3>2 DEF Refuse
    <3>3. CASE \E k \in Markets, stake \in Stakes, size \in Amounts : Enter(s, k, stake, size)
      BY <1>2, <3>3, HoldingEntered
    <3>4. CASE \E filled \in Amounts : OrderFills(s, filled)
      BY <1>2, <3>4, HoldingFilled
    <3>5. CASE Reconcile(s)
      BY <1>2, <3>5, HoldingReconciled
    <3>6. CASE Void(s)
      BY <1>2, <3>6, HoldingVoided
    <3>7. ~KeepDuplicate(s)
      BY DEF KeepDuplicate, Answering
    <3> QED
      BY <3>1, <3>2, <3>3, <3>4, <3>5, <3>6, <3>7 DEF StrategyLoop
  <2>3. ~StopLossLoop
    <3>1. ~StopLossRuns /\ DOMAIN stopView = {}
      BY <1>1, <1>4 DEF NoLiveStop, OrdersInv, NoStopView, Empty
    <3> QED
      BY <3>1 DEF StopLossLoop, StopSnapshot
  <2>4. CASE \E r \in Reviewers : ReviewTask(r)
    BY <1>2, <2>1, <2>4, HoldingSettled DEF ReviewTask, ReviewSnapshot
  <2>5. CASE World
    <3>1. CASE \E k \in Markets, result \in {"yes", "no"} : Finalize(k, result)
      <4>1. PICK k \in Markets, result \in {"yes", "no"} : Finalize(k, result)
        BY <3>1
      <4>2. k # m
        BY <1>1, <4>1 DEF Finalize, Final, TypeOK
      <4>3. account'[m] = account[m] /\ rows' = rows /\ submitting' = submitting
        BY <1>1, <4>1, <4>2 DEF Finalize, TypeOK
      <4>4. Held' = Held /\ LiveOpen(m)' = LiveOpen(m)
        BY <4>3 DEF Held, LiveOpen, Busy
      <4> QED
        BY <1>2, <4>3, <4>4 DEF AccountInv, Holding
    <3>2. ~Restart
      BY <1>4 DEF Restart, Answering
    <3> QED
      BY <2>1, <2>5, <3>1, <3>2 DEF World, NewDay, CloseMarket
  <2>6. CASE PollHalted \/ EvaluateBreaker \/ Trip \/ UNCHANGED vars
    BY <2>1, <2>6 DEF PollHalted, EvaluateBreaker, Trip, vars
  <2> QED
    BY <2>2, <2>3, <2>4, <2>5, <2>6 DEF Next
<1> QED
  BY <1>3, <1>4

LEMMA HoldingAgrees ==
  ASSUME AccountInv
  PROVE  AccountAgrees
<1> SUFFICES ASSUME NEW m \in Markets, ~Final(m),
                    \A s \in Strategies : Busy(s) => rows[submitting[s].id].market # m
             PROVE  account[m] = ExposureOf(rows, {id \in DOMAIN rows :
                                   rows[id].mode = "live" /\ rows[id].market = m})
  BY DEF AccountAgrees
<1> DEFINE ids == {id \in DOMAIN rows : rows[id].mode = "live" /\ rows[id].market = m}
<1>1. TypeOK /\ account[m] = SumFunctionOnSet(Held, LiveOpen(m))
  BY DEF AccountInv, Holding
<1>2. ids \cap OpenIds(rows) = LiveOpen(m)
  BY DEF LiveOpen, OpenIds
<1>3. /\ IsFiniteSet(LiveOpen(m)) /\ LiveOpen(m) \subseteq DOMAIN rows
      /\ \A id \in LiveOpen(m) : Held[id] \in Int
  BY <1>1, HeldTypes
<1>4. \A id \in LiveOpen(m) : Held[id] = Sizes(rows)[id]
  <2> SUFFICES ASSUME NEW id \in LiveOpen(m) PROVE Held[id] = Sizes(rows)[id]
    OBVIOUS
  <2>1. id \in DOMAIN rows /\ rows[id] \in Row /\ rows[id].market = m
    BY <1>1, <1>3, RowAt DEF TypeOK, LiveOpen
  <2>2. rows[id].strategy \in Strategies
    BY <2>1 DEF Row
  <2> QED
    BY <2>1, <2>2 DEF Held, Sizes
<1>5. SumFunctionOnSet(Held, LiveOpen(m)) = SumFunctionOnSet(Sizes(rows), LiveOpen(m))
  BY <1>3, <1>4, SumSame
<1> QED
  BY <1>1, <1>2, <1>5, ExposureIsSum

\* In a market without a result and with no order awaited, the live open rows
\* add up to what the exchange holds (executor.py:430, logger.py:186): after
\* fills of any part of what was asked for, unfilled orders and settlements.
THEOREM AccountHolds ==
  ASSUME Answering
  PROVE  Spec => []AccountAgrees
<1>1. AccountInv /\ [Next]_vars => AccountInv'
  BY HoldingStep
<1> QED
  BY InitAccount, <1>1, HoldingAgrees, PTL DEF Spec

-----------------------------------------------------------------------------
(* The day's loss *)

OneReviewer == \A r, q \in Reviewers : r = q

\* What a reviewer has read of a market with a result is still so.
ReviewsFresh ==
  \A r \in Reviewers : \A id \in DOMAIN reviewView[r] :
    Final(rows[id].market) =>
      /\ rows[id].outcome = "pending"
      /\ reviewView[r][id].size = rows[id].size
      /\ reviewView[r][id].partial = 0

\* Without a live stop-loss no row has been sold in part.
NonePartial == \A id \in DOMAIN rows : rows[id].partial = 0

\* Even if everything open were lost as well.
Margin ==
  RealizedPnlSince(rows, today) - ExposureOf(rows, DOMAIN rows)
    > -(MaxDailyLoss + MaxConcurrentPositions * MaxPosition)

LossInv ==
  WatchInv /\ OpenCaps /\ Dated /\ ReviewsFresh /\ NonePartial /\ Margin

\* A live process without stop-loss writes a row in one of three ways.
LEMMA LiveWrites ==
  ASSUME ~IsPaper, NoLiveStop, TypeOK, OrdersInv, [Next]_vars, NEW id \in DOMAIN rows
  PROVE  /\ id \in DOMAIN rows'
         /\ \/ rows'[id] = rows[id]
            \/ \E s \in Strategies :
                 /\ id = submitting[s].id
                 /\ \/ /\ Reconcile(s)
                       /\ Resized(rows, rows', id, submitting[s].filled)
                    \/ Void(s) /\ Closed(rows, rows', id, "voided", 0)
            \/ \E r \in Reviewers, found \in SUBSET Markets :
                 /\ Settle(r, found)
                 /\ id \in DOMAIN reviewView[r] /\ Resolves(id, reviewView[r][id])
                 /\ rows'[id].size = rows[id].size
<1>0. id \in DOMAIN rows'
  BY NextStep DEF JournalStep, KeepsClosed, Appended
<1>1. CASE \E s \in Strategies, m \in Markets, stake \in Stakes, size \in Amounts :
             Enter(s, m, stake, size)
  BY <1>0, <1>1, EnterRows DEF Appended
<1>2. CASE \E s \in Strategies : Reconcile(s) \/ Void(s)
  <2>1. PICK s \in Strategies : Reconcile(s) \/ Void(s)
    BY <1>2
  <2>2. \/ Reconcile(s) /\ Resized(rows, rows', submitting[s].id, submitting[s].filled)
        \/ Void(s) /\ Closed(rows, rows', submitting[s].id, "voided", 0)
    BY <2>1, ReplyRows
  <2>3. CASE id = submitting[s].id
    BY <1>0, <2>2, <2>3
  <2>4. CASE id # submitting[s].id
    BY <1>0, <2>2, <2>4 DEF Resized, Closed, OthersKept
  <2> QED
    BY <2>3, <2>4
<1>3. DOMAIN stopView = {}
  BY DEF NoLiveStop, OrdersInv, NoStopView, Empty
<1>4. CASE \E r \in Reviewers, found \in SUBSET Markets : Settle(r, found)
  <2>1. PICK r \in Reviewers, found \in SUBSET Markets : Settle(r, found)
    BY <1>4
  <2>2. /\ rows'[id].size = rows[id].size
        /\ \/ rows'[id] = rows[id]
           \/ id \in DOMAIN reviewView[r] /\ Resolves(id, reviewView[r][id])
    BY <2>1, SettleRows
  <2> QED
    BY <1>0, <2>1, <2>2
<1> QED
  BY <1>0, <1>1, <1>2, <1>3, <1>4, WhoWrites DEF Writes, OrdersInv

LEMMA PartialStep ==
  ASSUME ~IsPaper, Careful, LossInv, [Next]_vars
  PROVE  NonePartial'
<1>1. TypeOK /\ OrdersInv /\ NoLiveStop /\ JournalStep
  BY NextStep DEF LossInv, WatchInv, Careful
<1>2. ASSUME NEW id \in DOMAIN rows PROVE rows'[id].partial = 0
  BY <1>1, LiveWrites DEF LossInv, NonePartial, Resized, Closed, Resolves, ReviewsFresh
<1>3. CASE DOMAIN rows' = DOMAIN rows
  BY <1>2, <1>3 DEF NonePartial
<1>4. CASE \E s \in Strategies, m \in Markets, stake \in Stakes, size \in Amounts :
             Enter(s, m, stake, size)
  BY <1>1, <1>2, <1>4, EnterRows DEF Appended, NonePartial
<1> QED
  BY <1>1, <1>3, <1>4, OnlyEnterAppends DEF KeepsClosed

LEMMA FreshStep ==
  ASSUME ~IsPaper, Careful, OneReviewer, LossInv, [Next]_vars
  PROVE  ReviewsFresh'
<1>1. TypeOK /\ OrdersInv /\ NoLiveStop /\ WatchInv /\ WatchInv'
  BY WatchStep DEF LossInv, WatchInv, Careful
<1> SUFFICES ASSUME NEW r \in Reviewers, NEW id \in DOMAIN reviewView'[r],
                    Final(rows[id].market)'
             PROVE  /\ rows'[id].outcome = "pending"
                    /\ reviewView'[r][id].size = rows'[id].size
                    /\ reviewView'[r][id].partial = 0
  BY DEF ReviewsFresh
<1>2. CASE /\ id \in DOMAIN reviewView[r] /\ reviewView'[r] = reviewView[r]
           /\ \A found \in SUBSET Markets : ~Settle(r, found)
  <2>1. id \in DOMAIN rows /\ id \in HandledIds
    BY <1>1, <1>2 DEF TypeOK, HandledIds
  <2>2. Final(rows[id].market)
    BY <1>1, <2>1, HandledStays
  <2>3. /\ rows[id].outcome = "pending"
        /\ reviewView[r][id].size = rows[id].size /\ reviewView[r][id].partial = 0
    BY <1>2, <2>2 DEF LossInv, ReviewsFresh
  <2>4. \A s \in Strategies : Busy(s) => id # submitting[s].id
    BY <1>1, <2>2 DEF WatchInv, OrdersWatched, OrderRow
  <2>5. \A q \in Reviewers, found \in SUBSET Markets : ~Settle(q, found)
    BY <1>2 DEF OneReviewer
  <2>6. rows'[id] = rows[id]
    BY <1>1, <2>1, <2>4, <2>5, LiveWrites DEF Reconcile, Void
  <2> QED
    BY <1>2, <2>3, <2>6
<1>3. CASE /\ id \in OpenIds(rows)
           /\ reviewView'[r][id] = [size |-> rows[id].size, partial |-> rows[id].partial]
           /\ rows' = rows
  BY <1>3 DEF OpenIds, LossInv, NonePartial
<1> QED
  BY <1>1, <1>2, <1>3, ReviewFrom

\* No row that is written comes to count for less.
LEMMA RowValueRises ==
  ASSUME ~IsPaper, Careful, LossInv, [Next]_vars, NEW id \in DOMAIN rows
  PROVE  Values(rows, today)[id] <= Values(rows', today)[id]
<1>1. TypeOK /\ OrdersInv /\ NoLiveStop /\ rows \in Seq(Row) /\ TypeOK'
  BY NextStep DEF LossInv, WatchInv, Careful, TypeOK
<1>2. /\ id \in DOMAIN rows' /\ rows[id].size \in Nat /\ rows[id].pnl \in Int
      /\ today \in Nat /\ today > 0
  BY <1>1, LiveWrites, ValuesAreInt DEF LossInv, Dated, TypeOK
<1>3. CASE rows'[id] = rows[id]
  <2>1. Values(rows', today)[id] = Values(rows, today)[id]
    BY <1>2, <1>3 DEF Values, ClosedSince, OpenIds
  <2>2. Values(rows, today)[id] \in Int
    BY <1>1, ValuesAreInt
  <2> QED
    BY <2>1, <2>2
<1>4. CASE \E s \in Strategies : id = submitting[s].id
             /\ Reconcile(s) /\ Resized(rows, rows', id, submitting[s].filled)
  <2>1. PICK s \in Strategies : id = submitting[s].id
               /\ Reconcile(s) /\ Resized(rows, rows', id, submitting[s].filled)
    BY <1>4
  <2>2. Busy(s) /\ submitting[s].filled \in Nat /\ submitting[s].filled <= rows[id].size
    BY <1>1, <2>1 DEF Reconcile, OrdersInv, Orders, OrderRow, TypeOK, Order
  <2>3. rows[id].outcome = "pending"
    BY <2>1, <2>2 DEF LossInv, WatchInv, OrdersWatched, OrderRow
  <2>4. rows'[id].outcome = "pending" /\ rows'[id].size = submitting[s].filled
    BY <2>1, <2>3 DEF Resized
  <2>5. Values(rows, today)[id] = -rows[id].size /\ Values(rows', today)[id] = -rows'[id].size
    BY <1>2, <2>3, <2>4 DEF Values, ClosedSince, OpenIds
  <2> QED
    BY <1>2, <2>2, <2>4, <2>5
<1>5. CASE \E s \in Strategies : id = submitting[s].id
             /\ Void(s) /\ Closed(rows, rows', id, "voided", 0)
  <2>1. rows[id].outcome = "pending" /\ rows'[id].outcome = "voided"
    BY <1>5 DEF Void, Closed, LossInv, WatchInv, OrdersWatched, OrderRow
  <2>2. Values(rows, today)[id] = -rows[id].size /\ Values(rows', today)[id] = 0
    BY <1>2, <2>1 DEF Values, ClosedSince, OpenIds
  <2> QED
    BY <1>2, <2>2
<1>6. CASE \E r \in Reviewers, found \in SUBSET Markets :
             /\ Settle(r, found)
             /\ id \in DOMAIN reviewView[r] /\ Resolves(id, reviewView[r][id])
             /\ rows'[id].size = rows[id].size
  <2>1. PICK r \in Reviewers : /\ id \in DOMAIN reviewView[r]
                               /\ Resolves(id, reviewView[r][id])
    BY <1>6
  <2> DEFINE m == rows[id].market
             seen == reviewView[r][id]
  <2>2. rows[id].outcome = "pending" /\ seen.size = rows[id].size /\ seen.partial = 0
    BY <2>1 DEF Resolves, LossInv, ReviewsFresh
  <2>3. /\ rows'[id].outcome \in {"won", "lost"} /\ rows'[id].resolved = today
        /\ rows'[id].pnl = SettlementPnl(seen, market[m])
    BY <2>1 DEF Resolves, Result
  <2>4. WinGain * rows[id].size \in Nat
    BY <1>2, CoreAssumption
  <2>5. rows'[id].pnl >= -rows[id].size
    BY <1>2, <2>2, <2>3, <2>4 DEF SettlementPnl
  <2> HIDE DEF m, seen
  <2>6. Values(rows, today)[id] = -rows[id].size
    BY <1>2, <2>2 DEF Values, ClosedSince, OpenIds
  <2>7. ResolvedDay(rows'[id]) = today
    BY <1>2, <2>3 DEF ResolvedDay, NotResolved
  <2>8. Values(rows', today)[id] = rows'[id].pnl
    BY <1>2, <2>3, <2>7 DEF Values, ClosedSince
  <2> QED
    BY <2>5, <2>6, <2>8
<1> QED
  BY <1>1, <1>3, <1>4, <1>5, <1>6, LiveWrites

\* An open book within the caps is worth at most so much.
LEMMA BookBounded ==
  ASSUME NEW book \in Seq(Row), \A id \in DOMAIN book : book[id].size <= MaxPosition,
         Cardinality(OpenIds(book)) <= MaxConcurrentPositions
  PROVE  /\ ExposureOf(book, DOMAIN book) <= MaxConcurrentPositions * MaxPosition
         /\ ExposureOf(book, DOMAIN book) \in Nat
         /\ MaxConcurrentPositions * MaxPosition \in Nat
<1>1. MaxPosition \in Nat /\ MaxConcurrentPositions \in Nat
  BY LimitAssumption
<1>2. MaxConcurrentPositions * MaxPosition \in Nat
  BY <1>1
<1> QED
  BY <1>1, <1>2, ExposureBound, ExposureType

\* An approval found the day's loss short of the limit.
LEMMA MarginEntered ==
  ASSUME ~IsPaper, LossInv, TypeOK', OrdersInv', ConcurrentCap',
         NEW s \in Strategies, NEW m \in Markets, NEW stake \in Stakes,
         NEW size \in Amounts, Enter(s, m, stake, size)
  PROVE  Margin'
<1>1. Appended(rows, rows', s, m) /\ TypeOK /\ today' = today
  BY EnterRows DEF LossInv, WatchInv, Enter
<1>2. RealizedPnlSince(rows', today) = RealizedPnlSince(rows, today)
  <2> DEFINE closed == ClosedSince(rows, today)
             before == [id \in DOMAIN rows |-> rows[id].pnl]
             now == [id \in DOMAIN rows' |-> rows'[id].pnl]
  <2>1. ClosedSince(rows', today) = closed
    BY <1>1 DEF Appended, ClosedSince
  <2>2. closed \subseteq DOMAIN rows /\ IsFiniteSet(DOMAIN rows)
    BY <1>1, ValuesAreInt DEF TypeOK, ClosedSince
  <2>3. IsFiniteSet(closed)
    BY <2>2, FS_Subset
  <2>4. \A id \in closed : before[id] \in Int /\ now[id] = before[id]
    BY <1>1, <2>2, ValuesAreInt DEF TypeOK, Appended
  <2> HIDE DEF closed, before, now
  <2>5. SumFunctionOnSet(before, closed) = SumFunctionOnSet(now, closed)
    BY <2>3, <2>4, SumSame
  <2> QED
    BY <2>1, <2>5 DEF RealizedPnlSince, before, now, closed
<1>3. RealizedPnlSince(rows, today) > -MaxDailyLoss
  <2>1. RealizedPnlSince(rows, today) \in Int
    BY <1>1, ValuesSum DEF TypeOK
  <2>2. ~LossLimitHit(rows, today)
    BY DEF Enter, Approves, BreakerStops
  <2> QED
    BY <2>1, <2>2, LimitAssumption DEF LossLimitHit
<1>4. /\ ExposureOf(rows', DOMAIN rows') <= MaxConcurrentPositions * MaxPosition
      /\ ExposureOf(rows', DOMAIN rows') \in Nat
      /\ MaxConcurrentPositions * MaxPosition \in Nat
  BY BookBounded DEF TypeOK, OrdersInv, Bounded, ConcurrentCap
<1>5. RealizedPnlSince(rows, today) \in Int
  BY <1>1, ValuesSum DEF TypeOK
<1>6. RealizedPnlSince(rows', today') - ExposureOf(rows', DOMAIN rows')
        > -(MaxDailyLoss + MaxConcurrentPositions * MaxPosition)
  BY <1>1, <1>2, <1>3, <1>4, <1>5, LimitAssumption
<1> QED
  BY <1>6 DEF Margin

\* A new day has closed nothing yet.
LEMMA MarginOfNewDay ==
  ASSUME MaxDailyLoss > 0, LossInv, NewDay
  PROVE  Margin'
<1>1. rows' = rows /\ today' = today + 1 /\ TypeOK /\ OrdersInv /\ ConcurrentCap
  BY DEF NewDay, LossInv, WatchInv, OpenCaps
<1>2. ClosedSince(rows, today + 1) = {}
  <2>1. \A id \in DOMAIN rows : /\ rows[id].day <= today /\ rows[id].resolved <= today
                                /\ rows[id].day \in Nat /\ rows[id].resolved \in Nat
                                /\ today \in Nat
    BY <1>1, RowDates DEF LossInv, Dated
  <2> QED
    BY <2>1 DEF ClosedSince, ResolvedDay
<1>3. RealizedPnlSince(rows', today') = 0
  BY <1>1, <1>2, SumOfNone DEF RealizedPnlSince
<1>4. /\ ExposureOf(rows, DOMAIN rows) <= MaxConcurrentPositions * MaxPosition
      /\ ExposureOf(rows, DOMAIN rows) \in Nat
      /\ MaxConcurrentPositions * MaxPosition \in Nat
  BY <1>1, BookBounded DEF TypeOK, OrdersInv, Bounded, ConcurrentCap
<1>5. RealizedPnlSince(rows', today') - ExposureOf(rows', DOMAIN rows')
        > -(MaxDailyLoss + MaxConcurrentPositions * MaxPosition)
  BY <1>1, <1>3, <1>4, LimitAssumption
<1> QED
  BY <1>5 DEF Margin

LEMMA InitLoss ==
  ASSUME MaxDailyLoss > 0
  PROVE  Init => LossInv
<1> SUFFICES ASSUME Init PROVE ReviewsFresh /\ NonePartial /\ Margin
  BY InitWatch, InitCaps, InitDaily DEF LossInv, DailyInv
<1>1. DOMAIN rows = {} /\ ClosedSince(rows, today) = {} /\ DOMAIN rows \cap OpenIds(rows) = {}
  BY DEF Init, ClosedSince, OpenIds
<1>2. \A r \in Reviewers : DOMAIN reviewView[r] = {}
  BY DEF Init, Empty
<1>3. RealizedPnlSince(rows, today) = 0 /\ ExposureOf(rows, DOMAIN rows) = 0
  BY <1>1, SumOfNone, ExposureIsSum DEF RealizedPnlSince
<1>4. MaxConcurrentPositions * MaxPosition \in Nat /\ MaxDailyLoss \in Nat
  BY LimitAssumption
<1>5. 0 - 0 > -(MaxDailyLoss + MaxConcurrentPositions * MaxPosition)
  BY <1>4
<1> QED
  BY <1>1, <1>2, <1>3, <1>5 DEF ReviewsFresh, NonePartial, Margin

LEMMA LossStep ==
  ASSUME ~IsPaper, Careful, OneReviewer, MaxDailyLoss > 0, LossInv, [Next]_vars
  PROVE  LossInv'
<1>1. TypeOK /\ OrdersInv /\ NoLiveStop /\ WatchInv /\ OpenCaps /\ Dated
  BY DEF LossInv, WatchInv, Careful
<1>2. WatchInv' /\ OpenCaps' /\ Dated' /\ ReviewsFresh' /\ NonePartial'
  BY <1>1, WatchStep, CapsStep, DatedStep, FreshStep, PartialStep
<1>3. TypeOK' /\ OrdersInv' /\ ConcurrentCap' /\ rows \in Seq(Row) /\ rows' \in Seq(Row)
  BY <1>1, <1>2 DEF WatchInv, OpenCaps, TypeOK
<1>4. CASE \E s \in Strategies, m \in Markets, stake \in Stakes, size \in Amounts :
             Enter(s, m, stake, size)
  BY <1>2, <1>3, <1>4, MarginEntered DEF LossInv
<1>5. CASE NewDay
  BY <1>2, <1>5, MarginOfNewDay DEF LossInv
<1>6. CASE /\ ~NewDay
           /\ \A s \in Strategies, m \in Markets, stake \in Stakes, size \in Amounts :
                ~Enter(s, m, stake, size)
  <2>1. DOMAIN rows' = DOMAIN rows /\ today' = today
    BY <1>1, <1>6, OnlyEnterAppends, DayKept DEF KeepsClosed
  <2>2. RealizedPnlSince(rows, today) - ExposureOf(rows, DOMAIN rows)
          <= RealizedPnlSince(rows', today) - ExposureOf(rows', DOMAIN rows')
    BY <1>3, <2>1, RowValueRises, ValuesRise
  <2>3. /\ RealizedPnlSince(rows, today) \in Int /\ RealizedPnlSince(rows', today) \in Int
        /\ ExposureOf(rows, DOMAIN rows) \in Int /\ ExposureOf(rows', DOMAIN rows') \in Int
    BY <1>3, ValuesSum, ExposureType
  <2>4. MaxConcurrentPositions * MaxPosition \in Nat
    BY LimitAssumption
  <2>5. RealizedPnlSince(rows', today') - ExposureOf(rows', DOMAIN rows')
          > -(MaxDailyLoss + MaxConcurrentPositions * MaxPosition)
    BY <2>1, <2>2, <2>3, <2>4, LimitAssumption DEF LossInv, Margin
  <2> QED
    BY <1>2, <2>5 DEF LossInv, Margin
<1> QED
  BY <1>4, <1>5, <1>6

\* A live day's realized loss exceeds the limit by at most the book that was
\* open (risk.py:3): each entry found the day short of the limit, and what is
\* settled afterwards loses no more than it had staked.  Two reviewers could
\* settle a row twice, on both sides of midnight, and count it on both days.
THEOREM DailyLossHolds ==
  ASSUME Careful, OneReviewer, MaxDailyLoss > 0
  PROVE  Spec => []DailyLossBounded
<1>1. CASE IsPaper
  <2>1. DailyLossBounded
    BY <1>1 DEF DailyLossBounded
  <2> QED
    BY <2>1, PTL
<1>2. CASE ~IsPaper
  <2>1. Init => LossInv
    BY InitLoss
  <2>2. LossInv /\ [Next]_vars => LossInv'
    BY <1>2, LossStep
  <2>3. LossInv => DailyLossBounded
    <3> SUFFICES ASSUME LossInv PROVE DailyLossBounded
      OBVIOUS
    <3>1. /\ RealizedPnlSince(rows, today) \in Int
          /\ ExposureOf(rows, DOMAIN rows) \in Nat
      BY ValuesSum, ExposureType DEF LossInv, WatchInv, TypeOK
    <3>2. MaxConcurrentPositions * MaxPosition \in Nat
      BY LimitAssumption
    <3> QED
      BY <3>1, <3>2, LimitAssumption DEF LossInv, Margin, DailyLossBounded
  <2> QED
    BY <2>1, <2>2, <2>3, PTL DEF Spec
<1> QED
  BY <1>1, <1>2

=============================================================================
