--------------------------- MODULE MCKalshiOrder ---------------------------
(* Small instances of KalshiOrder: a low price, where the approved size buys *)
(* several contracts, a rung above a stale quote, and the top of the scale.  *)
EXTENDS KalshiOrder

MCSignals == {[price |-> 33, floor |-> 0], [price |-> 60, floor |-> 60],
              [price |-> 99, floor |-> 0]}
=============================================================================
