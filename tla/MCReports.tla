----------------------------- MODULE MCReports -----------------------------
(* Two strategies, five writes, pages of one row, points two writes wide, a  *)
(* report's window of one write.                                            *)
EXTENDS Reports
CONSTANTS lazy, weather
MCSymmetry == Permutations(Strategies)
MCPnls == {-3, 2}
=============================================================================
