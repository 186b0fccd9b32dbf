----------------------------- MODULE MCWeather -----------------------------
(* Two models of unequal weight, a day's three outcomes, two boards of      *)
(* quotes on each exchange, six polls with two model runs.                  *)
EXTENDS Replay

CONSTANTS gfs, noaa

MCWeight == [s \in Sources |-> IF s = gfs THEN 2 ELSE 1]
MCCdf == [s \in Sources |-> [d \in -2..2 |-> CASE d = -2 -> 2 [] d = -1 -> 16
                                               [] d = 0 -> 50 [] d = 1 -> 84
                                               [] OTHER -> 98]]
Raw(ticker, question, low, high, bid, ask) ==
  [ticker |-> ticker, question |-> question, low |-> low, high |-> high,
   bid |-> bid, ask |-> ask, last |-> IF bid = 0 THEN 1 ELSE (bid + ask) \div 2,
   volume |-> 50, liquidity |-> 100, legible |-> TRUE]
Cold(p) == Raw("cold", "below", 1, 0, p - 1, p + 1)
Mild(p) == Raw("mild", "range", 1, 2, p - 1, p + 1)
Warm(p) == Raw("warm", "none", 2, 3, p - 1, p + 1)
Hot(p)  == Raw("warm", "above", 3, 3, p - 1, p + 1)
Thin    == [Raw("mild", "range", 1, 2, 0, 9) EXCEPT !.last = 9]
MCPages == { << << <<Cold(65), Warm(5)>>, <<Warm(9), Mild(60)>> >>, <<>> >>,
             << << <<Cold(20), Thin>> >>, << <<Warm(75)>>, <<Cold(20)>> >> >> }
MCEvents == { << << <<Cold(65), Mild(30), Hot(65)>> >>,
                 << <<Cold(65), Mild(30), Hot(65)>> >> >>,
              << << <<Cold(5), Mild(60), Hot(20)>> >>, << <<Cold(5)>> >> >> }
MCBoards == [e \in Exchanges |-> IF e = "kalshi" THEN MCPages ELSE MCEvents]
ASSUME Exclusive

MCSeries == <<"high", "low">>
MCHourly == { {[day |-> 1, temp |-> 0], [day |-> 2, temp |-> 9]},
              {[day |-> 1, temp |-> 1], [day |-> 1, temp |-> 3]} }
=============================================================================
