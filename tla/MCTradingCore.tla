--------------------------- MODULE MCTradingCore ---------------------------
(* Small instances of TradingCore: one strategy on the live allowlist or    *)
(* two, one of which may be left to paper.                                  *)
EXTENDS TradingCore

CONSTANTS lazy, weather,   \* strategies
          m1, m2,          \* markets
          loop, daily      \* the reviewer's own loop, the daily summary

MCTierCap  == [m \in Markets |-> IF m = m1 THEN 1 ELSE 2]
MCWideTier == [m \in Markets |-> 9]
MCCategory == [m \in Markets |-> IF m = m1 THEN "none" ELSE "weather"]
=============================================================================
