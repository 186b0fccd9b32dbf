------------------------------ MODULE MCHealth ------------------------------
(* Small instances of Health: a live strategy, and a paper one beside it.   *)
EXTENDS Health

CONSTANTS lazy, weather
=============================================================================
