----------------------------- MODULE MCPosition -----------------------------
(* Four lots asked for at fifty cents, in two tranches, with bids on both    *)
(* sides of the trigger; FillPrices holds a price below the signal's, one   *)
(* below the trigger and the limit of the lowest bid.                       *)
EXTENDS Position
=============================================================================
