----------------------------- MODULE Submission -----------------------------
(***************************************************************************)
(* What one call of Executor.submit promises once check_trade has approved *)
(* a size and the row is in the journal: the exchange takes at most one    *)
(* order, never for more than was approved, and the row is decided at most *)
(* once.  A decided row is either voided, or trued up to what was filled,  *)
(* or kept because the order is known to be on the exchange.  The order    *)
(* may be taken after the row was decided, and a submission that is cut    *)
(* short never decides.                                                    *)
(***************************************************************************)
EXTENDS Integers

CONSTANT Approvals   \* sizes check_trade may approve, in cents

VARIABLES
  approved,  \* the size that was approved
  landed,    \* the exchange has taken the order
  held,      \* what it filled, at cost
  decision   \* what became of the row
  
subVars == <<approved, landed, held, decision>>

Entered == [kind |-> "entered", size |-> 0]
Voided  == [kind |-> "voided", size |-> 0]
FilledAt(size) == [kind |-> "filled", size |-> size]
KeptAt(size)   == [kind |-> "kept", size |-> size]

SubInit ==
  /\ approved \in Approvals
  /\ landed = FALSE
  /\ held = 0
  /\ decision = Entered

SubLand ==
  /\ ~landed
  /\ landed' = TRUE
  /\ held' \in 0..approved
  /\ UNCHANGED <<approved, decision>>

SubDecide ==
  /\ decision = Entered
  /\ \/ decision' = Voided
     \/ landed /\ held > 0 /\ decision' = FilledAt(held)
     \/ landed /\ decision' = KeptAt(approved)
  /\ UNCHANGED <<approved, landed, held>>

SubNext == SubLand \/ SubDecide

SubSpec == SubInit /\ [][SubNext]_subVars
=============================================================================
