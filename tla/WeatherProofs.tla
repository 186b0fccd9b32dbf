---------------------------- MODULE WeatherProofs ----------------------------
(***************************************************************************)
(* The weather strategy and its backtest, for every set of model runs,     *)
(* boards, forecasts and intervals: no run is left unused and none is used *)
(* twice; the machine of scans, fetches and their cache stays in its       *)
(* types; the signals of one gather cost less than the dollar one of them  *)
(* may pay; and the backtest replays every intent that lost.               *)
(***************************************************************************)
EXTENDS Replay, SumTheorems, SequenceTheorems

-----------------------------------------------------------------------------
(* The latest run *)

\* Numbers under a bound have a largest.
LEMMA LargestUpTo ==
  ASSUME NEW S, S \subseteq Nat, S # {}, NEW t \in Nat, \A m \in S : m <= t
  PROVE  /\ Max(S) \in S
         /\ \A m \in S : m <= Max(S)
<1> DEFINE room == {t - m : m \in S}
<1>1. room \subseteq Nat /\ room # {}
  <2>1. \A m \in S : t - m \in Nat
    OBVIOUS
  <2> QED
    BY <2>1
<1>2. PICK n \in S : \A other \in room : t - n <= other
  <2>1. \E least \in room : \A other \in room : least <= other
    <3> HIDE DEF room
    <3> QED
      BY <1>1, SmallestOf
  <2>2. PICK least \in room : \A other \in room : least <= other
    BY <2>1
  <2>3. PICK n \in S : least = t - n
    OBVIOUS
  <2> QED
    BY <2>2, <2>3
<1>3. \A m \in S : n >= m
  <2> TAKE m \in S
  <2>1. t - n <= t - m /\ m \in Nat /\ n \in Nat
    BY <1>2
  <2> QED
    BY <2>1
<1>4. Max(S) \in S /\ \A m \in S : Max(S) >= m
  BY <1>3 DEF Max
<1> QED
  BY <1>4

\* The latest run is one that is published, and no other is later.
LEMMA LatestRunPublished ==
  ASSUME WeatherStrategyAssumption, NEW t \in Nat
  PROVE  /\ LatestRun(t) \in RunTimes /\ LatestRun(t) \in 0..t
         /\ \A r \in RunTimes : r <= t => r <= LatestRun(t)
<1> DEFINE published == {r \in RunTimes : r <= t}
<1>0. 0 \in RunTimes /\ RunTimes \subseteq Nat
  BY DEF WeatherStrategyAssumption
<1>1. published \subseteq Nat /\ 0 \in published
  <2>1. \A r \in RunTimes : r \in Nat
    BY <1>0
  <2>2. published \subseteq Nat
    BY <2>1
  <2>3. 0 <= t
    OBVIOUS
  <2> QED
    BY <1>0, <2>2, <2>3
<1>2. Max(published) \in published /\ \A m \in published : m <= Max(published)
  <2>1. published # {} /\ \A m \in published : m <= t
    BY <1>1
  <2> HIDE DEF published
  <2> QED
    BY <1>1, <2>1, LargestUpTo
<1>3. LatestRun(t) = Max(published)
  BY DEF LatestRun
<1>4. \A r \in RunTimes : r <= t => r \in published
  OBVIOUS
<1>5. LatestRun(t) \in published /\ \A m \in published : m <= LatestRun(t)
  <2> HIDE DEF published
  <2> QED
    BY <1>2, <1>3
<1>6. \A r \in published : r \in RunTimes /\ r \in 0..t
  BY <1>1
<1> HIDE DEF published
<1> QED
  BY <1>4, <1>5, <1>6

-----------------------------------------------------------------------------
(* The pace of the scans *)

\* A run that caused a scan is not later than the one remembered, and what is
\* remembered or stamped was so by the last scan. A scan that is over was
\* stamped, at its end or (on Kalshi) its beginning, unless it raised.
Paced ==
  /\ exchange \in {"kalshi", "polymarket"} /\ "phase" \in DOMAIN scan
  /\ now \in Nat /\ last \in Never..now /\ begun \in Never..now
  /\ seen \in RunTimes \cup {Never} /\ seen <= begun
  /\ exchange = "kalshi" => last = begun
  /\ paced.early \subseteq {r \in RunTimes : r <= seen}
  /\ DOMAIN paced = {"early", "hasty", "raised", "sound"}
  /\ paced.sound \in Never..now /\ paced.sound <= last /\ paced.sound <= begun
  /\ scan.phase \in {"idle", "evaluating"} /\ ~paced.raised => begun <= last
  /\ ~paced.hasty

LEMMA PacedInit ==
  ASSUME WeatherStrategyAssumption, Init
  PROVE  Paced
BY DEF WeatherStrategyAssumption, Init, Idle, Paced, Never

\* A step that leaves the pace alone, but for the stamp of Polymarket's scan.
LEMMA PacedStamped ==
  ASSUME Paced, UNCHANGED <<exchange, now, seen, begun, paced>>, "phase" \in DOMAIN scan',
         \/ exchange = "polymarket" /\ last' = now
         \/ /\ last' = last
            /\ \/ exchange = "kalshi" \/ scan.phase \in {"idle", "evaluating"}
               \/ scan'.phase \notin {"idle", "evaluating"}
  PROVE  Paced'
<1>1. /\ now \in Nat /\ last \in Never..now /\ begun \in Never..now
      /\ paced.sound \in Never..now
  BY DEF Paced
<1>2. last' \in Never..now /\ paced.sound <= last'
  BY <1>1 DEF Paced, Never
<1>3. scan'.phase \in {"idle", "evaluating"} /\ ~paced.raised => begun <= last'
  BY <1>1 DEF Paced, Never
<1>4. exchange = "kalshi" => last' = begun
  BY DEF Paced
<1> QED
  BY <1>2, <1>3, <1>4 DEF Paced

LEMMA PacedRaised ==
  ASSUME Paced, Raise, UNCHANGED <<exchange, now, seen, begun>>
  PROVE  Paced'
<1>1. /\ paced' = [paced EXCEPT !.raised = TRUE] /\ last' = last
      /\ "phase" \in DOMAIN scan'
  BY DEF Raise, Idle
<1>2. /\ DOMAIN paced' = DOMAIN paced /\ paced'.raised /\ paced'.sound = paced.sound
      /\ paced'.early = paced.early /\ paced'.hasty = paced.hasty
  BY <1>1 DEF Paced
<1> QED
  BY <1>1, <1>2 DEF Paced

LEMMA PacedBegin ==
  ASSUME WeatherStrategyAssumption, Paced, BeginScan
  PROVE  Paced'
<1> DEFINE run == LatestRun(now)
<1>1. /\ exchange' = exchange /\ now' = now /\ begun' = now
      /\ last' = IF exchange = "kalshi" THEN now ELSE last
      /\ seen' = IF DueByRun THEN run ELSE seen
      /\ paced' = [early  |-> IF Early THEN paced.early \cup {run} ELSE paced.early,
                   hasty  |-> \/ paced.hasty
                              \/ Early /\ (run <= LastSound \/ run \in paced.early),
                   raised |-> FALSE, sound |-> LastSound]
      /\ DueByInterval \/ DueByRun
      /\ scan.phase = "idle" /\ scan' = [Idle EXCEPT !.phase = "listing"]
  BY DEF BeginScan, RememberRun, NotePace
<1>2. run \in RunTimes /\ run \in 0..now /\ \A r \in RunTimes : r <= now => r <= run
  BY LatestRunPublished DEF Paced
<1> HIDE DEF run
<1>3. \A r \in RunTimes : r \in Nat
  BY DEF WeatherStrategyAssumption
<1>4. /\ now \in Nat /\ Interval \in Nat
      /\ last \in -1..now /\ begun \in -1..now /\ paced.sound \in -1..now
      /\ seen \in RunTimes \cup {-1} /\ seen <= begun
      /\ paced.early \subseteq {r \in RunTimes : r <= seen}
  BY DEF Paced, Never, WeatherStrategyAssumption
<1>5. seen \in Int /\ seen <= now
  <2>1. begun \in Int /\ begun <= now
    BY <1>4
  <2>2. seen \in RunTimes \/ seen = -1
    BY <1>4
  <2>3. seen \in Int
    <3>1. seen \in RunTimes => seen \in Nat
      BY <1>3
    <3>2. seen = -1 => seen \in Int
      BY -1 \in Int
    <3> QED
      BY <2>2, <3>1, <3>2
  <2>4. seen <= begun
    BY <1>4
  <2> QED
    BY <1>4, <2>1, <2>3, <2>4
<1>6. LastSound \in -1..now /\ LastSound <= last
  BY <1>1, <1>4 DEF LastSound, Paced
<1>7. scan'.phase = "listing" /\ "phase" \in DOMAIN scan'
  BY <1>1 DEF Idle
<1>8. Early => DueByRun
  <2> SUFFICES ASSUME Early PROVE ~DueByInterval
    BY <1>1
  <2>1. LastSound # -1 /\ now - LastSound < Interval
    BY DEF Early, Never
  <2>2. last # -1 /\ now - last < Interval
    BY <1>4, <1>6, <2>1
  <2> QED
    BY <1>4, <2>2 DEF DueByInterval, Never
<1>9. DueByRun => run > last /\ seen < run
  <2> SUFFICES ASSUME DueByRun PROVE run > last /\ seen < run
    OBVIOUS
  <2>1. run > last /\ run # seen
    BY DEF DueByRun, run
  <2>2. seen \in RunTimes => seen <= run
    BY <1>2, <1>5
  <2> QED
    BY <1>2, <1>4, <1>5, <2>1, <2>2
<1>10. \A r \in paced.early : r \in RunTimes /\ r \in Nat /\ r <= seen
  BY <1>3, <1>4
<1>11. ~paced'.hasty
  <2> SUFFICES ASSUME Early PROVE ~(run <= LastSound) /\ run \notin paced.early
    BY <1>1 DEF Paced
  <2>1. run > last /\ seen < run
    BY <1>8, <1>9
  <2>2. run \in Nat
    BY <1>2, <1>3
  <2> QED
    BY <1>4, <1>5, <1>6, <1>10, <2>1, <2>2
<1>12. paced'.early \subseteq {r \in RunTimes : r <= seen'}
  <2> SUFFICES ASSUME NEW r \in paced'.early PROVE r \in RunTimes /\ r <= seen'
    OBVIOUS
  <2>1. run \in Nat
    BY <1>2, <1>3
  <2>2. CASE DueByRun
    <3>1. seen' = run /\ seen < run
      BY <1>1, <1>9, <2>2
    <3>2. r = run \/ r \in paced.early
      BY <1>1
    <3> QED
      BY <1>2, <1>5, <1>10, <2>1, <3>1, <3>2
  <2>3. CASE ~DueByRun
    <3>1. seen' = seen /\ r \in paced.early
      BY <1>1, <1>8, <2>3
    <3> QED
      BY <1>10, <3>1
  <2> QED
    BY <2>2, <2>3
<1>13. seen' \in RunTimes \cup {-1} /\ seen' <= begun'
  BY <1>1, <1>2, <1>4, <1>5
<1>14. /\ last' \in -1..now /\ LastSound <= last' /\ begun' \in -1..now
       /\ exchange = "kalshi" => last' = begun'
  BY <1>1, <1>4, <1>6
<1>15. /\ DOMAIN paced' = {"early", "hasty", "raised", "sound"}
       /\ paced'.sound = LastSound /\ LastSound <= begun'
  BY <1>1, <1>4, <1>6
<1>16. exchange' \in {"kalshi", "polymarket"} /\ now' \in Nat
  BY <1>1 DEF Paced
<1> QED
  BY <1>1, <1>6, <1>7, <1>11, <1>12, <1>13, <1>14, <1>15, <1>16 DEF Paced, Never

LEMMA PacedStep ==
  ASSUME WeatherStrategyAssumption, Paced, [Next]_vars
  PROVE  Paced'
<1>0. "phase" \in DOMAIN scan
  BY DEF Paced
<1>1. CASE PollHalted \/ PollEarly
  BY <1>0, <1>1, PacedStamped DEF PollHalted, PollEarly, Paced
<1>2. CASE BeginScan
  BY <1>2, PacedBegin
<1>3. CASE List
  <2>1. \/ scan' = Idle /\ last' = Stamped
        \/ /\ \E todo : scan' = [scan EXCEPT !.phase = "pricing", !.todo = todo]
           /\ last' = last
    BY <1>3 DEF List
  <2>2. /\ "phase" \in DOMAIN scan' /\ scan.phase = "listing"
        /\ \/ last' = Stamped
           \/ last' = last /\ scan'.phase = "pricing"
    BY <1>0, <1>3, <2>1 DEF List, Idle
  <2> QED
    BY <1>3, <2>2, PacedStamped DEF List, Stamped, Paced
<1>4. CASE ListingTimesOut
  BY <1>4, PacedRaised DEF ListingTimesOut
<1>5. CASE Gather
  <2>1. "phase" \in DOMAIN scan' /\ scan'.phase = "gathering"
    BY <1>0, <1>5 DEF Gather
  <2> QED
    BY <1>5, <2>1, PacedStamped DEF Gather
<1>6. CASE FetchEnds
  <2> PICK f \in flights : \/ AnswerRaises(f)
                           \/ \E readings \in HourlySeries \cup {{}} : Answer(f, readings)
    BY <1>6 DEF FetchEnds
  <2>1. CASE \E readings \in HourlySeries \cup {{}} : Answer(f, readings)
    <3>1. "phase" \in DOMAIN scan' /\ scan'.phase = scan.phase
      BY <1>0, <2>1 DEF Answer
    <3> QED
      BY <2>1, <3>1, PacedStamped DEF Answer
  <2>2. CASE AnswerRaises(f)
    <3>1. CASE Raise
      BY <2>2, <3>1, PacedRaised DEF AnswerRaises
    <3>2. CASE UNCHANGED <<scan, last, paced>>
      BY <1>0, <2>2, <3>2, PacedStamped DEF AnswerRaises
    <3>3. CASE exchange = "kalshi" /\ NextMarket(scan.signals) /\ UNCHANGED <<last, paced>>
      <4>1. "phase" \in DOMAIN scan'
        BY <1>0, <3>3 DEF NextMarket
      <4> QED
        BY <2>2, <3>3, <4>1, PacedStamped DEF AnswerRaises
    <3> QED
      BY <2>2, <3>1, <3>2, <3>3 DEF AnswerRaises, GatherRaises
  <2> QED
    BY <2>1, <2>2
<1>7. CASE Price
  <2>1. "phase" \in DOMAIN scan'
    BY <1>0, <1>7 DEF Price, NextMarket
  <2> QED
    BY <1>7, <2>1, PacedStamped DEF Price, Paced
<1>8. CASE Evaluate
  <2>1. "phase" \in DOMAIN scan' /\ scan.phase = "evaluating"
    BY <1>0, <1>8 DEF Evaluate
  <2> QED
    BY <1>8, <2>1, PacedStamped DEF Evaluate
<1>9. CASE EndScan
  <2>1. "phase" \in DOMAIN scan' /\ scan.phase = "evaluating"
    BY <1>9 DEF EndScan, Idle
  <2> QED
    BY <1>9, <2>1, PacedStamped DEF EndScan
<1>10. CASE Tick
  BY <1>10 DEF Tick, Paced, Never
<1>11. CASE UNCHANGED vars
  BY <1>11 DEF vars, Paced
<1> QED
  BY <1>1, <1>2, <1>3, <1>4, <1>5, <1>6, <1>7, <1>8, <1>9, <1>10, <1>11 DEF Next

LEMMA PacedAlways ==
  ASSUME WeatherStrategyAssumption
  PROVE  Spec => []Paced
<1>1. Init => Paced
  BY PacedInit
<1>2. Paced /\ [Next]_vars => Paced'
  BY PacedStep
<1> QED
  BY <1>1, <1>2, PTL DEF Spec

\* A scan begins an interval after the last one that did not raise, or is the
\* first for a model run that came in between, whatever times out, fails or
\* raises (_should_scan_now): an early scan is for a run later than the stamp,
\* which is no earlier than that scan, and than every run that caused one
\* before.
THEOREM ScanPacedHolds ==
  ASSUME WeatherStrategyAssumption
  PROVE  Spec => []ScanPaced
<1>1. Paced => ScanPaced
  BY DEF Paced, ScanPaced
<1> QED
  BY <1>1, PacedAlways, PTL

\* When strategy_loop comes round and does not scan, no published run is later
\* than the last scan's beginning, or on Polymarket its end (_should_scan_now):
\* the latest run is before the stamp, or is the one the last early scan began
\* for.
THEOREM RunScannedHolds ==
  ASSUME WeatherStrategyAssumption
  PROVE  Spec => []RunScanned
<1>1. Paced => RunScanned
  <2> SUFFICES ASSUME Paced, ScanOnRun, ~DueByInterval, ~DueByRun,
                      NEW r \in RunTimes, r <= now
               PROVE  r <= begun \/ (exchange = "polymarket" /\ r <= last)
    BY DEF RunScanned
  <2> DEFINE run == LatestRun(now)
  <2>1. run \in 0..now /\ r <= run
    BY LatestRunPublished DEF Paced
  <2>2. run <= last \/ run = seen
    BY <2>1 DEF DueByRun, Paced, Never
  <2> HIDE DEF run
  <2> QED
    BY <2>1, <2>2 DEF Paced, Never, WeatherStrategyAssumption
<1> QED
  BY <1>1, PacedAlways, PTL

-----------------------------------------------------------------------------
(* The machine's types *)

Clocks ==
  /\ exchange \in Exchanges /\ board \in Boards[exchange] /\ bias \in Biases
  /\ now \in 0..MaxNow /\ nextPoll \in 0..MaxNow + 1
  /\ last \in Never..now /\ begun \in Never..now
  /\ seen \in RunTimes \cup {Never}
  /\ DOMAIN paced = {"early", "hasty", "raised", "sound"}
  /\ paced.early \subseteq RunTimes /\ paced.hasty \in BOOLEAN
  /\ paced.raised \in BOOLEAN /\ paced.sound \in Never..begun

Scans ==
  /\ scan.phase \in Phases
  /\ DOMAIN scan = {"phase", "todo", "got", "signals", "intents"}
  /\ DOMAIN scan.got \subseteq SourcesFor(IsUs)
  /\ scan.phase # "evaluating" => exchange = "kalshi" \/ scan.signals = <<>>

Cached ==
  /\ cache \in [Sources -> [at : Never..now, readings : HourlySeries \cup {{}}]]
  /\ \A s \in Sources : cache[s].at # Never => cache[s].readings \in HourlySeries

\* A fetch has one gather to answer at most, and a gather one fetch of a model.
Fetches ==
  /\ flights \subseteq [source : SourcesFor(IsUs), at : 0..now, awaited : BOOLEAN]
  /\ \A f \in flights : f.awaited => /\ scan.phase = "gathering"
                                     /\ f.source \notin DOMAIN scan.got
  /\ \A f, g \in flights : f.awaited /\ g.awaited /\ f.source = g.source => f = g

Typed == Clocks /\ Scans /\ Cached /\ Fetches

LEMMA TypedInit ==
  ASSUME WeatherStrategyAssumption, Init
  PROVE  Typed
<1>1. Clocks
  BY DEF WeatherStrategyAssumption, Init, Clocks, Never
<1>2. Scans
  BY DEF Init, Scans, Idle, Phases
<1>3. Cached
  <2>1. [at |-> Never, readings |-> {}] \in [at : Never..now, readings : HourlySeries \cup {{}}]
    BY DEF Init, Never
  <2> QED
    BY <2>1 DEF Init, Cached
<1>4. Fetches
  BY DEF Init, Fetches
<1> QED
  BY <1>1, <1>2, <1>3, <1>4 DEF Typed

LEMMA ClocksStep ==
  ASSUME WeatherStrategyAssumption, Clocks, [Next]_vars
  PROVE  Clocks'
<1>0. now \in Nat /\ MaxNow \in Nat /\ now + 1 \in 0..MaxNow + 1 /\ now \in Never..now
  BY DEF Clocks, WeatherStrategyAssumption, Never
<1>1. CASE BeginScan
  <2>1. LatestRun(now) \in RunTimes
    BY <1>0, LatestRunPublished
  <2>2. seen' \in RunTimes \cup {Never}
    BY <1>1, <2>1 DEF BeginScan, RememberRun, Clocks
  <2>3. /\ DOMAIN paced' = DOMAIN paced /\ paced'.early \subseteq RunTimes
        /\ paced'.hasty \in BOOLEAN /\ paced'.raised = FALSE /\ paced'.sound = LastSound
    BY <1>1, <2>1 DEF BeginScan, NotePace, Clocks
  <2>4. LastSound \in Never..now
    BY <1>0 DEF LastSound, Clocks, Never
  <2>5. /\ UNCHANGED <<exchange, board, bias, now, nextPoll>>
        /\ last' \in {now, last} /\ begun' = now
    BY <1>1 DEF BeginScan
  <2> QED
    BY <1>0, <2>2, <2>3, <2>4, <2>5 DEF Clocks
<1>2. CASE Tick
  <2>1. /\ now < MaxNow /\ now' = now + 1
        /\ UNCHANGED <<exchange, board, bias, nextPoll, last, seen, begun, paced>>
    BY <1>2 DEF Tick
  <2> QED
    BY <1>0, <2>1 DEF Clocks, Never
<1>3. ASSUME UNCHANGED <<exchange, board, bias, now, seen, begun>>,
             nextPoll' \in {nextPoll, now + 1}, last' \in {last, now},
             paced' \in {paced, [paced EXCEPT !.raised = TRUE]}
      PROVE  Clocks'
  <2>1. /\ DOMAIN paced' = DOMAIN paced /\ paced'.early = paced.early
        /\ paced'.hasty = paced.hasty /\ paced'.raised \in {TRUE, paced.raised}
        /\ paced'.sound = paced.sound
    BY <1>3 DEF Clocks
  <2> QED
    BY <1>0, <1>3, <2>1 DEF Clocks
<1>4. CASE PollHalted \/ PollEarly \/ EndScan
  BY <1>3, <1>4 DEF PollHalted, PollEarly, EndScan, Sleep
<1>5. CASE List
  BY <1>3, <1>5 DEF List, Sleep, Stamped
<1>6. CASE ListingTimesOut
  BY <1>3, <1>6 DEF ListingTimesOut, Raise, Sleep
<1>7. CASE Gather \/ Evaluate
  BY <1>3, <1>7 DEF Gather, Evaluate
<1>8. CASE FetchEnds
  BY <1>3, <1>8 DEF FetchEnds, AnswerRaises, GatherRaises, Answer, Raise, Sleep
<1>9. CASE Price
  BY <1>3, <1>9 DEF Price
<1>10. CASE UNCHANGED vars
  BY <1>3, <1>10 DEF vars
<1> QED
  BY <1>1, <1>2, <1>4, <1>5, <1>6, <1>7, <1>8, <1>9, <1>10 DEF Next

LEMMA CachedStep ==
  ASSUME WeatherStrategyAssumption, Clocks, Cached, Fetches, [Next]_vars
  PROVE  Cached'
<1>0. now \in Nat /\ SourcesFor(IsUs) \subseteq Sources
  BY DEF Clocks, SourcesFor
<1>1. CASE Tick
  <2>1. cache' = cache /\ now' = now + 1
    BY <1>1 DEF Tick
  <2>2. Never..now \subseteq Never..now'
    BY <1>0, <2>1 DEF Never
  <2> QED
    BY <2>1, <2>2 DEF Cached
<1>2. CASE FetchEnds
  <2>1. now' = now
    BY <1>2 DEF FetchEnds, AnswerRaises, Answer
  <2>2. ASSUME NEW f \in flights, NEW readings \in HourlySeries \cup {{}}, Answer(f, readings)
        PROVE  Cached'
    <3>1. f \in [source : SourcesFor(IsUs), at : 0..now, awaited : BOOLEAN]
      BY DEF Fetches
    <3>2. f.source \in Sources /\ f.at \in Never..now
      BY <1>0, <3>1 DEF Never
    <3>3. [at |-> f.at, readings |-> readings]
            \in [at : Never..now, readings : HourlySeries \cup {{}}]
      BY <3>2
    <3>4. CASE readings = {}
      BY <2>1, <2>2, <3>4 DEF Answer, Cached
    <3>5. CASE readings # {}
      <4>1. readings \in HourlySeries
        BY <3>5
      <4>2. cache' = [cache EXCEPT ![f.source] = [at |-> f.at, readings |-> readings]]
        BY <2>2, <3>5 DEF Answer
      <4> QED
        BY <2>1, <3>2, <3>3, <4>1, <4>2 DEF Cached
    <3> QED
      BY <3>4, <3>5
  <2>3. ASSUME NEW f \in flights, AnswerRaises(f)
        PROVE  Cached'
    BY <2>1, <2>3 DEF AnswerRaises, Cached
  <2> QED
    BY <1>2, <2>2, <2>3 DEF FetchEnds
<1>3. ASSUME UNCHANGED <<cache, now>> PROVE Cached'
  BY <1>3 DEF Cached
<1>4. CASE PollHalted \/ PollEarly \/ BeginScan \/ List \/ ListingTimesOut
  BY <1>3, <1>4 DEF PollHalted, PollEarly, BeginScan, List, ListingTimesOut
<1>5. CASE Gather \/ Price \/ Evaluate \/ EndScan
  BY <1>3, <1>5 DEF Gather, Price, Evaluate, EndScan
<1>6. CASE UNCHANGED vars
  BY <1>3, <1>6 DEF vars
<1> QED
  BY <1>1, <1>2, <1>4, <1>5, <1>6 DEF Next

\* No gather awaits a fetch outside its own phase.
LEMMA Unawaited ==
  ASSUME Fetches, UNCHANGED <<flights, now>>, \A f \in flights : ~f.awaited
  PROVE  Fetches'
BY DEF Fetches

\* Kalshi turns to its next market with nothing got yet.
LEMMA KalshiGoesOn ==
  ASSUME NEW signals, Scans, exchange = "kalshi", exchange' = exchange, NextMarket(signals)
  PROVE  Scans'
<1>1. /\ scan'.phase \in {"evaluating", "pricing"} /\ scan'.got = <<>>
      /\ DOMAIN scan' = DOMAIN scan
  BY DEF NextMarket, Scans
<1>2. DOMAIN scan'.got = {}
  BY <1>1
<1> QED
  BY <1>1, <1>2 DEF Scans, Phases

LEMMA ScansFetchesStep ==
  ASSUME WeatherStrategyAssumption, Clocks, Scans, Cached, Fetches, [Next]_vars
  PROVE  Scans' /\ Fetches'
<1> DEFINE Fetch == [source : SourcesFor(IsUs), at : 0..now, awaited : BOOLEAN]
<1>0. exchange \in {"kalshi", "polymarket"} /\ now \in 0..now
  BY DEF Clocks, WeatherStrategyAssumption
<1>a. scan.phase # "gathering" => \A f \in flights : ~f.awaited
  BY DEF Fetches
<1>b. flights \subseteq Fetch
  BY DEF Fetches
<1>1. ASSUME UNCHANGED <<scan, flights, now, exchange>>
      PROVE  Scans' /\ Fetches'
  BY <1>1 DEF Scans, Fetches
<1>2. ASSUME UNCHANGED <<flights, now, exchange>>, scan.phase # "gathering",
             scan' = Idle \/ scan' = [Idle EXCEPT !.phase = "listing"]
      PROVE  Scans' /\ Fetches'
  <2>1. Scans'
    BY <1>2 DEF Scans, Idle, Phases
  <2> QED
    BY <1>2, <1>a, <2>1, Unawaited
<1>3. CASE PollHalted \/ PollEarly
  BY <1>1, <1>3 DEF PollHalted, PollEarly
<1>4. CASE BeginScan
  BY <1>2, <1>4 DEF BeginScan
<1>5. CASE List
  <2>1. CASE scan' = Idle
    BY <1>2, <1>5, <2>1 DEF List
  <2>2. ASSUME NEW todo, scan' = [scan EXCEPT !.phase = "pricing", !.todo = todo]
        PROVE  Scans' /\ Fetches'
    <3>1. Scans'
      BY <1>5, <2>2 DEF List, Scans, Phases
    <3> QED
      BY <1>5, <1>a, <3>1, Unawaited DEF List
  <2> QED
    BY <1>5, <2>1, <2>2 DEF List
<1>6. CASE ListingTimesOut
  BY <1>2, <1>6 DEF ListingTimesOut, Raise
<1>7. CASE Gather
  <2> DEFINE stale == {s \in SourcesFor(IsUs) : ~Fresh(s)}
             asked == [source : stale, at : {now}, awaited : {TRUE}]
             known == [s \in SourcesFor(IsUs) \ stale |-> DailyExtreme(cache[s].readings)]
  <2>1. /\ scan.phase = "pricing" /\ flights' = flights \cup asked
        /\ scan' = [scan EXCEPT !.phase = "gathering", !.got = known]
        /\ now' = now /\ exchange' = exchange
    BY <1>7 DEF Gather
  <2>2. \A f \in asked : f \in Fetch /\ f.awaited /\ f.source \in stale /\ f.at = now
    BY <1>0
  <2>3. DOMAIN known = SourcesFor(IsUs) \ stale
    OBVIOUS
  <2>4. \A f, g \in asked : f.source = g.source => f = g
    <3>1. \A f \in asked : f = [source |-> f.source, at |-> f.at, awaited |-> f.awaited]
      OBVIOUS
    <3>2. \A f \in asked : f.at = now /\ f.awaited = TRUE
      OBVIOUS
    <3> HIDE DEF asked
    <3> TAKE f, g \in asked
    <3> HAVE f.source = g.source
    <3>3. f.at = g.at /\ f.awaited = g.awaited
      BY <3>2
    <3>4. /\ f = [source |-> f.source, at |-> f.at, awaited |-> f.awaited]
          /\ g = [source |-> g.source, at |-> g.at, awaited |-> g.awaited]
      BY <3>1
    <3> QED
      BY <3>3, <3>4, Zenon
  <2> HIDE DEF asked, known, stale
  <2>5. /\ scan'.phase = "gathering" /\ scan'.got = known /\ scan'.signals = scan.signals
        /\ DOMAIN scan' = DOMAIN scan
    BY <2>1 DEF Scans
  <2>6. Scans'
    BY <2>1, <2>3, <2>5 DEF Scans, Phases
  <2>7. \A f \in flights' : f.awaited => f \in asked
    BY <1>a, <2>1
  <2>8. flights' \subseteq Fetch
    BY <1>b, <2>1, <2>2
  <2> QED
    BY <2>1, <2>2, <2>3, <2>4, <2>5, <2>6, <2>7, <2>8 DEF Fetches
<1>8. ASSUME NEW f \in flights, NEW readings, Answer(f, readings)
      PROVE  Scans' /\ Fetches'
  <2>1. flights' = flights \ {f} /\ UNCHANGED <<now, exchange>>
    BY <1>8 DEF Answer
  <2>2. CASE ~f.awaited
    <3>1. scan' = scan
      BY <1>8, <2>2 DEF Answer
    <3> QED
      BY <2>1, <3>1 DEF Scans, Fetches
  <2>3. CASE f.awaited
    <3> DEFINE got == [s \in DOMAIN scan.got \cup {f.source} |->
                         IF s = f.source THEN DailyExtreme(readings) ELSE scan.got[s]]
    <3>1. scan' = [scan EXCEPT !.got = got]
      BY <1>8, <2>3 DEF Answer
    <3>3. DOMAIN got = DOMAIN scan.got \cup {f.source}
      OBVIOUS
    <3> HIDE DEF got
    <3>2. /\ scan'.phase = "gathering" /\ scan.phase = "gathering"
          /\ scan'.signals = scan.signals /\ DOMAIN scan' = DOMAIN scan
          /\ scan'.got = got
      BY <2>3, <3>1 DEF Scans, Fetches
    <3>4. f.source \in SourcesFor(IsUs)
      BY <1>b
    <3>5. Scans'
      BY <2>1, <3>2, <3>3, <3>4 DEF Scans, Phases
    <3> QED
      BY <2>1, <2>3, <3>2, <3>3, <3>5 DEF Fetches
  <2> QED
    BY <2>2, <2>3
<1>9. ASSUME NEW f \in flights, AnswerRaises(f)
      PROVE  Scans' /\ Fetches'
  <2>1. UNCHANGED <<now, exchange>>
    BY <1>9 DEF AnswerRaises
  <2>2. CASE ~f.awaited
    <3>1. flights' = flights \ {f} /\ scan' = scan
      BY <1>9, <2>2 DEF AnswerRaises
    <3> QED
      BY <2>1, <3>1 DEF Scans, Fetches
  <2>3. CASE f.awaited
    <3>1. flights' = {[g EXCEPT !.awaited = FALSE] : g \in flights \ {f}} /\ GatherRaises
      BY <1>9, <2>3 DEF AnswerRaises
    <3>2. \A g \in flights' : g \in Fetch /\ ~g.awaited
      BY <1>b, <3>1
    <3>3. Fetches'
      BY <2>1, <3>2 DEF Fetches
    <3>4. CASE exchange = "kalshi"
      <4>1. NextMarket(scan.signals)
        BY <3>1, <3>4 DEF GatherRaises
      <4> QED
        BY <2>1, <3>3, <3>4, <4>1, KalshiGoesOn
    <3>5. CASE exchange # "kalshi"
      <4>1. scan' = Idle
        BY <3>1, <3>5 DEF GatherRaises, Raise
      <4>2. Scans'
        BY <2>1, <4>1 DEF Idle, Scans, Phases
      <4> QED
        BY <3>3, <4>2
    <3> QED
      BY <3>4, <3>5
  <2> QED
    BY <2>2, <2>3
<1>10. CASE FetchEnds
  BY <1>8, <1>9, <1>10 DEF FetchEnds
<1>11. CASE Price
  <2>1. \A f \in flights : ~f.awaited
    BY <1>11, <1>b DEF Price, Fetches
  <2>2. UNCHANGED <<flights, now, exchange>>
    BY <1>11 DEF Price
  <2>3. Fetches'
    BY <2>1, <2>2, Unawaited
  <2>4. Scans'
    <3>1. CASE exchange = "kalshi"
      <4>1. PICK signals : NextMarket(signals)
        BY <1>11, <3>1 DEF Price
      <4> QED
        BY <2>2, <3>1, <4>1, KalshiGoesOn
    <3>2. CASE exchange # "kalshi"
      <4> DEFINE signals == EventSignals(scan.todo, Forecasts)
      <4>1. scan' = [scan EXCEPT !.phase = "evaluating", !.todo = <<>>, !.got = <<>>,
                                 !.signals = signals]
        BY <1>11, <3>2 DEF Price
      <4> HIDE DEF signals
      <4>2. /\ scan'.phase = "evaluating" /\ scan'.got = <<>>
            /\ DOMAIN scan' = DOMAIN scan
        BY <4>1 DEF Scans
      <4>3. DOMAIN scan'.got = {}
        BY <4>2
      <4> QED
        BY <2>2, <4>2, <4>3 DEF Scans, Phases
    <3> QED
      BY <3>1, <3>2
  <2> QED
    BY <2>3, <2>4
<1>12. CASE Evaluate
  <2>1. Scans'
    BY <1>12 DEF Evaluate, Scans, Phases
  <2> QED
    BY <1>12, <1>a, <2>1, Unawaited DEF Evaluate
<1>13. CASE EndScan
  BY <1>2, <1>13 DEF EndScan
<1>14. CASE Tick
  <2>1. UNCHANGED <<scan, flights, exchange>> /\ now' = now + 1 /\ now \in Nat
    BY <1>14 DEF Tick, Clocks
  <2>2. 0..now \subseteq 0..now'
    BY <2>1
  <2> QED
    BY <2>1, <2>2 DEF Scans, Fetches
<1>15. CASE UNCHANGED vars
  BY <1>1, <1>15 DEF vars
<1> QED
  BY <1>3, <1>4, <1>5, <1>6, <1>7, <1>10, <1>11, <1>12, <1>13, <1>14, <1>15 DEF Next

\* The machine stays in its types, for every board, series and set of answers;
\* and only a gather awaits fetches, each for a model that has not answered it
\* yet (fetch_member_forecasts).
THEOREM TypeCorrect ==
  ASSUME WeatherStrategyAssumption
  PROVE  Spec => []TypeOK
<1>1. Init => Typed
  BY TypedInit
<1>2. Typed /\ [Next]_vars => Typed'
  BY ClocksStep, CachedStep, ScansFetchesStep DEF Typed
<1>3. Typed => TypeOK
  <2> SUFFICES ASSUME Typed PROVE TypeOK
    OBVIOUS
  <2>1. \A s \in Sources : cache[s] \in [at : Never..now, readings : HourlySeries \cup {{}}]
    BY DEF Typed, Cached
  <2>2. \A s \in Sources : /\ cache[s].at \in Never..now
                           /\ cache[s].at # Never => cache[s].readings \in HourlySeries
    BY <2>1 DEF Typed, Cached
  <2> QED
    BY <2>2 DEF Typed, TypeOK, Clocks, Scans, Fetches
<1> QED
  BY <1>1, <1>2, <1>3, PTL DEF Spec

-----------------------------------------------------------------------------
(* The mixture *)

\* Members as the ensemble keeps them: weighted, and with a whole mean.
Mixture(members) ==
  /\ DOMAIN members \subseteq Sources
  /\ \A s \in DOMAIN members : Weight[s] > 0 /\ members[s] \in Int

LEMMA MixtureFinite ==
  ASSUME EnsembleAssumption, NEW members, Mixture(members)
  PROVE  /\ IsFiniteSet(DOMAIN members)
         /\ \A s \in DOMAIN members : Weight[s] \in Nat /\ Weight[s] > 0
<1>1. IsFiniteSet(DOMAIN members)
  BY FS_Subset DEF EnsembleAssumption, Mixture
<1>2. \A s \in DOMAIN members : Weight[s] \in Int /\ Weight[s] > 0
  BY DEF EnsembleAssumption, Mixture
<1> QED
  BY <1>1, <1>2

LEMMA TotalIsNat ==
  ASSUME EnsembleAssumption, NEW members, Mixture(members)
  PROVE  Total(members) \in Nat
BY MixtureFinite, SumNat DEF Total

LEMMA SumOfOne ==
  ASSUME NEW f, NEW x, f[x] \in Int
  PROVE  SumFunctionOnSet(f, {x}) = f[x]
<1>1. IsFiniteSet({}) /\ SumFunctionOnSet(f, {}) = 0 /\ {} \cup {x} = {x}
  BY FS_EmptySet, SumOfNone
<1>2. SumFunctionOnSet(f, {} \cup {x}) = f[x] + SumFunctionOnSet(f, {})
  BY <1>1, SumAdd
<1> QED
  BY <1>1, <1>2

\* A term of a sum of naturals is no more than the sum.
LEMMA TermOfSum ==
  ASSUME NEW f, NEW S, IsFiniteSet(S), \A i \in S : f[i] \in Nat, NEW x \in S
  PROVE  f[x] <= SumFunctionOnSet(f, S)
<1>1. {x} \in SUBSET S
  OBVIOUS
<1>2. SumFunctionOnSet(f, {x}) <= SumFunctionOnSet(f, S)
  BY <1>1, SumOfSubset
<1>3. f[x] \in Nat
  OBVIOUS
<1>4. SumFunctionOnSet(f, {x}) = f[x]
  BY <1>3, SumOfOne
<1> QED
  BY <1>2, <1>4

LEMMA TotalPositive ==
  ASSUME EnsembleAssumption, NEW members, Mixture(members), DOMAIN members # {}
  PROVE  Total(members) > 0
<1>1. PICK s \in DOMAIN members : TRUE
  OBVIOUS
<1>2. Weight[s] <= Total(members) /\ Weight[s] \in Nat /\ Weight[s] > 0
  BY <1>1, MixtureFinite, TermOfSum DEF Total
<1> QED
  BY <1>2, TotalIsNat

\* One model's distribution: between 0 and 100, and rising.
LEMMA NormCdfRises ==
  ASSUME EnsembleAssumption, NEW s \in Sources, NEW d \in Int, NEW e \in Int, d <= e
  PROVE  NormCdf(s, d) \in 0..100 /\ NormCdf(s, e) \in 0..100 /\ NormCdf(s, d) <= NormCdf(s, e)
<1>1. Reach \in Nat /\ Cdf[s] \in [-Reach..Reach -> 0..100]
  BY DEF EnsembleAssumption
<1>2. \A x \in Int : NormCdf(s, x) \in 0..100
  BY <1>1 DEF NormCdf
<1> DEFINE p == NormCdf(s, d)
           q == NormCdf(s, e)
<1>3. p \in 0..100 /\ q \in 0..100
  BY <1>2
<1>4. d > Reach \/ e > Reach => q = 100
  BY <1>1 DEF NormCdf
<1>5. d < -Reach => p = 0
  BY <1>1 DEF NormCdf
<1>6. d \in -Reach..Reach /\ e \in -Reach..Reach => p <= q
  <2>1. d \in -Reach..Reach /\ e \in -Reach..Reach =>
          Cdf[s][d] <= Cdf[s][e] /\ p = Cdf[s][d] /\ q = Cdf[s][e]
    BY <1>1 DEF NormCdf, EnsembleAssumption
  <2> HIDE DEF p, q
  <2> QED
    BY <2>1
<1>7. \/ d > Reach \/ e > Reach \/ d < -Reach
      \/ d \in -Reach..Reach /\ e \in -Reach..Reach
  BY <1>1
<1>8. p <= q
  <2> HIDE DEF p, q
  <2> QED
    BY <1>3, <1>4, <1>5, <1>6, <1>7
<1> QED
  BY <1>3, <1>8

\* The mixture rises too, from 0 to its whole.
LEMMA BelowRises ==
  ASSUME EnsembleAssumption, NEW members, Mixture(members),
         NEW x \in Int, NEW y \in Int, x <= y
  PROVE  /\ Below(members, x) \in Nat /\ Below(members, y) \in Nat
         /\ Below(members, x) <= Below(members, y)
         /\ Below(members, y) <= 100 * Total(members)
<1> DEFINE D == DOMAIN members
           f == [s \in D |-> Weight[s] * NormCdf(s, x - members[s])]
           g == [s \in D |-> Weight[s] * NormCdf(s, y - members[s])]
           h == [s \in D |-> 100 * Weight[s]]
<1>1. IsFiniteSet(D)
  BY MixtureFinite
<1>2. ASSUME NEW s \in D
      PROVE  /\ f[s] \in Nat /\ g[s] \in Nat /\ f[s] <= g[s] /\ g[s] <= h[s]
             /\ h[s] \in Int /\ h[s] = 100 * Weight[s] /\ Weight[s] \in Int
  <2>1. s \in Sources /\ members[s] \in Int /\ Weight[s] \in Nat
    BY MixtureFinite DEF Mixture
  <2> DEFINE p == NormCdf(s, x - members[s])
             q == NormCdf(s, y - members[s])
  <2>2. x - members[s] \in Int /\ y - members[s] \in Int /\ x - members[s] <= y - members[s]
    BY <2>1
  <2>3. p \in 0..100 /\ q \in 0..100 /\ p <= q
    BY <2>1, <2>2, NormCdfRises
  <2>4. f[s] = Weight[s] * p /\ g[s] = Weight[s] * q /\ h[s] = 100 * Weight[s]
    OBVIOUS
  <2> HIDE DEF p, q, f, g, h
  <2>5. /\ Weight[s] * p \in Nat /\ Weight[s] * q \in Nat
        /\ Weight[s] * p <= Weight[s] * q /\ Weight[s] * q <= 100 * Weight[s]
    <3>1. \A w, m, n \in Nat : w * m \in Nat /\ (m <= n => w * m <= w * n)
      OBVIOUS
    <3>2. \A w \in Nat : w * 100 = 100 * w
      OBVIOUS
    <3>3. p \in Nat /\ q \in Nat /\ 100 \in Nat /\ p <= q /\ q <= 100
      BY <2>3
    <3>4. Weight[s] * p <= Weight[s] * q /\ Weight[s] * q <= Weight[s] * 100
      BY <2>1, <3>1, <3>3
    <3>5. Weight[s] * p \in Nat /\ Weight[s] * q \in Nat
      BY <2>1, <3>1, <3>3
    <3> QED
      BY <2>1, <3>2, <3>4, <3>5
  <2> QED
    BY <2>1, <2>4, <2>5
<1>3. Below(members, x) = SumFunctionOnSet(f, D) /\ Below(members, y) = SumFunctionOnSet(g, D)
  BY DEF Below, SumFunction
<1> HIDE DEF f, g, h
<1>4. SumFunctionOnSet(f, D) \in Nat /\ SumFunctionOnSet(g, D) \in Nat
  BY <1>1, <1>2, SumNat
<1>5. SumFunctionOnSet(f, D) <= SumFunctionOnSet(g, D)
  <2>1. \A s \in D : f[s] \in Int /\ g[s] \in Int /\ f[s] <= g[s]
    BY <1>2
  <2> QED
    BY <1>1, <2>1, SumAtMost
<1>6. SumFunctionOnSet(g, D) <= SumFunctionOnSet(h, D)
  <2>1. \A s \in D : g[s] \in Int /\ h[s] \in Int /\ g[s] <= h[s]
    BY <1>2
  <2> QED
    BY <1>1, <2>1, SumAtMost
<1>7. SumFunctionOnSet(h, D) = 100 * Total(members)
  <2>1. \A s \in D : Weight[s] \in Int /\ h[s] = 100 * Weight[s]
    BY <1>2
  <2> QED
    BY <1>1, <2>1, SumScaled DEF Total
<1> QED
  BY <1>3, <1>4, <1>5, <1>6, <1>7

\* A forecast is a whole mean of each model that answered.
Means == UNION {[D -> Int] : D \in SUBSET SourcesFor(IsUs)}

LEMMA MeansMix ==
  ASSUME NEW forecasts \in Means, NEW applied \in Int, EnsembleAssumption
  PROVE  Mixture(Members(forecasts, applied))
<1>1. PICK D \in SUBSET SourcesFor(IsUs) : forecasts \in [D -> Int]
  BY DEF Means
<1>2. D \subseteq Sources
  BY DEF SourcesFor
<1>3. BiasApplied(applied) \in Int
  BY DEF BiasApplied
<1> QED
  BY <1>1, <1>2, <1>3 DEF Members, Mixture

-----------------------------------------------------------------------------
(* The loops over a listing *)

\* The loop over the first m entries.
KeptTo(s, places, m, f) ==
  f = [i \in 0..m |-> IF i = 0 THEN <<>>
                      ELSE IF i \in places THEN Append(f[i - 1], s[i]) ELSE f[i - 1]]

LEMMA KeptExists ==
  ASSUME NEW s, NEW places, NEW m \in Nat
  PROVE  \E f : KeptTo(s, places, m, f)
<1> DEFINE After(f, i) == IF i \in places THEN Append(f, s[i]) ELSE f
           T == {k \in Nat : \E f : KeptTo(s, places, k, f)}
<1>1. 0 \in T
  <2> DEFINE f == [i \in 0..0 |-> <<>>]
  <2>1. KeptTo(s, places, 0, f)
    BY DEF KeptTo
  <2> QED
    BY <2>1
<1>2. ASSUME NEW k \in Nat, k \in T PROVE k + 1 \in T
  <2>1. PICK f : KeptTo(s, places, k, f)
    BY <1>2
  <2>2. \A i \in 0..k : f[i] = IF i = 0 THEN <<>> ELSE After(f[i - 1], i)
    BY <2>1 DEF KeptTo
  <2> DEFINE g == [i \in 0..(k + 1) |-> IF i = k + 1 THEN After(f[k], k + 1) ELSE f[i]]
  <2> HIDE DEF After
  <2>3. \A i \in 0..(k + 1) : g[i] = IF i = 0 THEN <<>> ELSE After(g[i - 1], i)
    BY <2>2
  <2>4. g = [i \in 0..(k + 1) |-> IF i = 0 THEN <<>> ELSE After(g[i - 1], i)]
    <3>1. g = [i \in 0..(k + 1) |-> g[i]]
      OBVIOUS
    <3> HIDE DEF g
    <3> QED
      BY <2>3, <3>1
  <2>5. KeptTo(s, places, k + 1, g)
    <3> HIDE DEF g
    <3> QED
      BY <2>4 DEF KeptTo, After
  <2> QED
    BY <2>5
<1> HIDE DEF T
<1>3. m \in T
  BY <1>1, <1>2, AllNaturals
<1> QED
  BY <1>3 DEF T

LEMMA KeptWalks ==
  ASSUME NEW S, NEW s \in Seq(S), NEW places
  PROVE  \E f : /\ f[0] = <<>>
                /\ \A i \in 1..Len(s) :
                     f[i] = IF i \in places THEN Append(f[i - 1], s[i]) ELSE f[i - 1]
                /\ Kept(s, places) = f[Len(s)]
<1> DEFINE f == CHOOSE g : KeptTo(s, places, Len(s), g)
<1>0. Len(s) \in Nat
  OBVIOUS
<1>1. Kept(s, places) = f[Len(s)]
  BY Zenon DEF Kept, KeptTo
<1>2. KeptTo(s, places, Len(s), f)
  <2>1. \E g : KeptTo(s, places, Len(s), g)
    BY <1>0, KeptExists
  <2> QED
    BY <2>1, Zenon
<1> HIDE DEF f
<1>3. \A i \in 0..Len(s) : f[i] =
        IF i = 0 THEN <<>>
        ELSE IF i \in places THEN Append(f[i - 1], s[i]) ELSE f[i - 1]
  BY <1>2 DEF KeptTo
<1> QED
  BY <1>0, <1>1, <1>3

\* Where the entries that are kept stood: at the places, in their order.
Stood(k, s, places, at) ==
  /\ at \in [1..Len(k) -> places]
  /\ \A i \in 1..Len(k) : k[i] = s[at[i]]
  /\ \A i, j \in 1..Len(k) : i < j => at[i] < at[j]
  /\ \A p \in places : \E i \in 1..Len(k) : at[i] = p

LEMMA KeptStood ==
  ASSUME NEW S, NEW s \in Seq(S), NEW places, places \subseteq DOMAIN s
  PROVE  Kept(s, places) \in Seq(S) /\ \E at : Stood(Kept(s, places), s, places, at)
<1>1. PICK f : /\ f[0] = <<>>
               /\ \A i \in 1..Len(s) :
                    f[i] = IF i \in places THEN Append(f[i - 1], s[i]) ELSE f[i - 1]
               /\ Kept(s, places) = f[Len(s)]
  BY KeptWalks
<1> DEFINE Upto(n) == {p \in places : p <= n}
           Good(n) == f[n] \in Seq(S) /\ \E at : Stood(f[n], s, Upto(n), at)
           T == {n \in Nat : n <= Len(s) => Good(n)}
<1>2. Len(s) \in Nat /\ DOMAIN s = 1..Len(s)
  OBVIOUS
<1>3. 0 \in T
  <2>1. Upto(0) = {} /\ f[0] \in Seq(S) /\ 1..Len(f[0]) = {}
    BY <1>1, <1>2
  <2>2. Stood(f[0], s, Upto(0), <<>>)
    BY <2>1 DEF Stood
  <2> QED
    BY <2>1, <2>2
<1>4. ASSUME NEW n \in Nat, n \in T, n + 1 <= Len(s) PROVE Good(n + 1)
  <2>0. Good(n)
    <3> HIDE DEF Good
    <3>1. n <= Len(s)
      BY <1>2, <1>4
    <3>2. n <= Len(s) => Good(n)
      BY <1>4
    <3> QED
      BY <3>1, <3>2
  <2>1. f[n] \in Seq(S) /\ n + 1 \in 1..Len(s) /\ s[n + 1] \in S
    BY <1>2, <1>4, <2>0
  <2>2. PICK at : Stood(f[n], s, Upto(n), at)
    BY <2>0
  <2>3. f[n + 1] = IF n + 1 \in places THEN Append(f[n], s[n + 1]) ELSE f[n]
    BY <1>1, <2>1
  <2>4. CASE n + 1 \notin places
    <3>1. Upto(n + 1) = Upto(n) /\ f[n + 1] = f[n]
      BY <1>2, <2>3, <2>4
    <3> HIDE DEF Upto
    <3> QED
      BY <2>1, <2>2, <3>1
  <2>5. CASE n + 1 \in places
    <3> DEFINE len == Len(f[n])
               now_ == [i \in 1..(len + 1) |-> IF i = len + 1 THEN n + 1 ELSE at[i]]
    <3>1. /\ f[n + 1] \in Seq(S) /\ Len(f[n + 1]) = len + 1 /\ len \in Nat
          /\ \A i \in 1..len : f[n + 1][i] = f[n][i]
          /\ f[n + 1][len + 1] = s[n + 1]
      BY <2>1, <2>3, <2>5
    <3>2. /\ at \in [1..len -> Upto(n)]
          /\ \A i \in 1..len : f[n][i] = s[at[i]]
          /\ \A i, j \in 1..len : i < j => at[i] < at[j]
          /\ \A p \in Upto(n) : \E i \in 1..len : at[i] = p
      BY <2>2 DEF Stood
    <3>3. Upto(n + 1) = Upto(n) \cup {n + 1} /\ \A p \in Upto(n) : p \in Nat /\ p < n + 1
      BY <1>2, <2>5
    <3> HIDE DEF len, Upto
    <3>4. \A i \in 1..(len + 1) : now_[i] = IF i = len + 1 THEN n + 1 ELSE at[i]
      OBVIOUS
    <3>5. now_ \in [1..(len + 1) -> Upto(n + 1)]
      BY <3>1, <3>2, <3>3
    <3> HIDE DEF now_
    <3>6. \A i \in 1..(len + 1) : f[n + 1][i] = s[now_[i]]
      <4> TAKE i \in 1..(len + 1)
      <4>1. CASE i = len + 1
        BY <3>1, <3>4, <4>1
      <4>2. CASE i # len + 1
        <5>1. i \in 1..len
          BY <3>1, <4>2
        <5> QED
          BY <3>1, <3>2, <3>4, <4>2, <5>1
      <4> QED
        BY <4>1, <4>2
    <3>7. \A i, j \in 1..(len + 1) : i < j => now_[i] < now_[j]
      <4> TAKE i, j \in 1..(len + 1)
      <4> HAVE i < j
      <4>1. i \in 1..len /\ now_[i] = at[i] /\ at[i] \in Upto(n)
        BY <3>1, <3>2, <3>4
      <4>2. CASE j = len + 1
        BY <3>3, <3>4, <4>1, <4>2
      <4>3. CASE j # len + 1
        <5>1. j \in 1..len /\ now_[j] = at[j]
          BY <3>1, <3>4, <4>3
        <5> QED
          BY <3>2, <4>1, <5>1
      <4> QED
        BY <4>2, <4>3
    <3>8. \A p \in Upto(n + 1) : \E i \in 1..(len + 1) : now_[i] = p
      <4> TAKE p \in Upto(n + 1)
      <4>1. CASE p = n + 1
        BY <3>1, <3>4, <4>1
      <4>2. CASE p \in Upto(n)
        <5>1. PICK i \in 1..len : at[i] = p
          BY <3>2, <4>2
        <5>2. i \in 1..(len + 1) /\ i # len + 1
          BY <3>1
        <5> QED
          BY <3>4, <5>1, <5>2
      <4> QED
        BY <3>3, <4>1, <4>2
    <3>9. Stood(f[n + 1], s, Upto(n + 1), now_)
      BY <3>1, <3>5, <3>6, <3>7, <3>8 DEF Stood
    <3> QED
      BY <3>1, <3>9
  <2> QED
    BY <2>4, <2>5
<1>5. ASSUME NEW n \in Nat, n \in T PROVE n + 1 \in T
  <2> HIDE DEF Good
  <2> QED
    BY <1>4, <1>5
<1> HIDE DEF T
<1>6. Len(s) \in T
  BY <1>2, <1>3, <1>5, AllNaturals
<1>7. Good(Len(s))
  <2> HIDE DEF Good
  <2> QED
    BY <1>2, <1>6 DEF T
<1>8. Upto(Len(s)) = places
  BY <1>2
<1> HIDE DEF Upto
<1> QED
  BY <1>1, <1>7, <1>8

\* What a loop keeps is what stands at the places.
LEMMA KeptEntries ==
  ASSUME NEW S, NEW s \in Seq(S), NEW places, places \subseteq DOMAIN s
  PROVE  /\ Kept(s, places) \in Seq(S)
         /\ ToSet(Kept(s, places)) = {s[p] : p \in places}
<1> DEFINE k == Kept(s, places)
<1>1. k \in Seq(S) /\ \E at : Stood(k, s, places, at)
  BY KeptStood
<1> HIDE DEF k
<1>2. PICK at : Stood(k, s, places, at)
  BY <1>1
<1>3. DOMAIN k = 1..Len(k)
  BY <1>1
<1>4. \A i \in DOMAIN k : k[i] \in {s[p] : p \in places}
  BY <1>2, <1>3 DEF Stood
<1>5. \A p \in places : \E i \in DOMAIN k : k[i] = s[p]
  BY <1>2, <1>3 DEF Stood
<1>6. ToSet(k) = {s[p] : p \in places}
  BY <1>4, <1>5 DEF ToSet
<1> QED
  BY <1>1, <1>6 DEF k

\* No two entries carry one ticker.
Ticketed(s) == \A i, j \in DOMAIN s : s[i].ticker = s[j].ticker => i = j

LEMMA KeptTicketed ==
  ASSUME NEW S, NEW s \in Seq(S), NEW places, places \subseteq DOMAIN s,
         \A p, q \in places : s[p].ticker = s[q].ticker => p = q
  PROVE  Ticketed(Kept(s, places))
<1> DEFINE k == Kept(s, places)
<1>1. k \in Seq(S) /\ \E at : Stood(k, s, places, at)
  BY KeptStood
<1> HIDE DEF k
<1>2. PICK at : Stood(k, s, places, at)
  BY <1>1
<1>3. DOMAIN k = 1..Len(k) /\ Len(k) \in Nat
  BY <1>1
<1>4. ASSUME NEW i \in DOMAIN k, NEW j \in DOMAIN k, k[i].ticker = k[j].ticker
      PROVE  i = j
  <2>1. /\ at[i] \in places /\ at[j] \in places
        /\ k[i] = s[at[i]] /\ k[j] = s[at[j]]
        /\ (i < j => at[i] < at[j]) /\ (j < i => at[j] < at[i])
    BY <1>2, <1>3 DEF Stood
  <2>2. at[i] = at[j] /\ at[i] \in Nat
    BY <1>4, <2>1
  <2>3. ~(i < j) /\ ~(j < i)
    BY <2>1, <2>2
  <2> QED
    BY <1>3, <2>3
<1> QED
  BY <1>4 DEF Ticketed, k

LEMMA KeptOfTicketed ==
  ASSUME NEW S, NEW s \in Seq(S), NEW places, places \subseteq DOMAIN s, Ticketed(s)
  PROVE  Ticketed(Kept(s, places))
BY KeptTicketed DEF Ticketed

\* A ticker is kept where it is listed first.
LEMMA UniqueEntries ==
  ASSUME NEW S, NEW s \in Seq(S)
  PROVE  /\ Unique(s) \in Seq(S) /\ ToSet(Unique(s)) \subseteq ToSet(s)
         /\ Ticketed(Unique(s))
<1> DEFINE first == {i \in DOMAIN s : \A j \in 1..(i - 1) : s[j].ticker # s[i].ticker}
<1>1. first \subseteq DOMAIN s /\ DOMAIN s = 1..Len(s) /\ Len(s) \in Nat
  OBVIOUS
<1>2. \A p, q \in first : s[p].ticker = s[q].ticker => p = q
  <2> TAKE p, q \in first
  <2>1. p \in Nat /\ q \in Nat /\ p >= 1 /\ q >= 1
    BY <1>1
  <2>2. p < q => s[p].ticker # s[q].ticker
    BY <2>1
  <2>3. q < p => s[q].ticker # s[p].ticker
    BY <2>1
  <2> QED
    BY <2>1, <2>2, <2>3
<1>3. Unique(s) = Kept(s, first)
  BY DEF Unique
<1> HIDE DEF first
<1>4. Kept(s, first) \in Seq(S) /\ ToSet(Kept(s, first)) = {s[p] : p \in first}
  BY <1>1, KeptEntries
<1>5. Ticketed(Kept(s, first))
  BY <1>1, <1>2, KeptTicketed
<1> QED
  BY <1>1, <1>3, <1>4, <1>5 DEF ToSet

\* One sequence after the other.
FlatTo(seqs, m, f) ==
  f = [i \in 1..m |-> IF i = 1 THEN seqs[i] ELSE f[i - 1] \o seqs[i]]

LEMMA FlatExists ==
  ASSUME NEW seqs, NEW m \in Nat
  PROVE  \E f : FlatTo(seqs, m, f)
<1> DEFINE Joined(f, i) == f \o seqs[i]
           T == {k \in Nat : \E f : FlatTo(seqs, k, f)}
<1>1. 0 \in T
  <2> DEFINE f == [i \in 1..0 |-> <<>>]
  <2>1. FlatTo(seqs, 0, f)
    BY DEF FlatTo
  <2> QED
    BY <2>1
<1>2. ASSUME NEW k \in Nat, k \in T PROVE k + 1 \in T
  <2>1. PICK f : FlatTo(seqs, k, f)
    BY <1>2
  <2>2. \A i \in 1..k : f[i] = IF i = 1 THEN seqs[i] ELSE Joined(f[i - 1], i)
    BY <2>1 DEF FlatTo
  <2> HIDE DEF Joined
  <2> DEFINE last_ == IF k + 1 = 1 THEN seqs[k + 1] ELSE Joined(f[k], k + 1)
             g == [i \in 1..(k + 1) |-> IF i = k + 1 THEN last_ ELSE f[i]]
  <2>3. \A i \in 1..(k + 1) : g[i] = IF i = 1 THEN seqs[i] ELSE Joined(g[i - 1], i)
    BY <2>2
  <2>4. g = [i \in 1..(k + 1) |-> IF i = 1 THEN seqs[i] ELSE Joined(g[i - 1], i)]
    <3>1. g = [i \in 1..(k + 1) |-> g[i]]
      OBVIOUS
    <3> HIDE DEF g
    <3> QED
      BY <2>3, <3>1
  <2>5. FlatTo(seqs, k + 1, g)
    <3> HIDE DEF g
    <3> QED
      BY <2>4 DEF FlatTo, Joined
  <2> QED
    BY <2>5
<1> HIDE DEF T
<1>3. m \in T
  BY <1>1, <1>2, AllNaturals
<1> QED
  BY <1>3 DEF T

\* The entries of a concatenation are the entries of its two parts.
LEMMA JoinedEntries ==
  ASSUME NEW S, NEW x \in Seq(S), NEW y \in Seq(S)
  PROVE  x \o y \in Seq(S) /\ \A e : e \in ToSet(x \o y) <=> e \in ToSet(x) \/ e \in ToSet(y)
<1>1. /\ x \o y \in Seq(S) /\ Len(x) \in Nat /\ Len(y) \in Nat
      /\ DOMAIN (x \o y) = 1..(Len(x) + Len(y)) /\ DOMAIN x = 1..Len(x) /\ DOMAIN y = 1..Len(y)
      /\ \A i \in 1..Len(x) : (x \o y)[i] = x[i]
      /\ \A i \in 1..(Len(x) + Len(y)) : i \notin 1..Len(x) => (x \o y)[i] = y[i - Len(x)]
  OBVIOUS
<1> DEFINE z == x \o y
<1> HIDE DEF z
<1>2. ASSUME NEW e, e \in ToSet(z) PROVE e \in ToSet(x) \/ e \in ToSet(y)
  <2>1. PICK i \in DOMAIN z : e = z[i]
    BY <1>2 DEF ToSet
  <2>2. CASE i \in 1..Len(x)
    BY <1>1, <2>1, <2>2 DEF ToSet, z
  <2>3. CASE i \notin 1..Len(x)
    <3>1. i \in 1..(Len(x) + Len(y))
      BY <1>1, <2>1 DEF z
    <3>2. i - Len(x) \in DOMAIN y
      BY <1>1, <2>3, <3>1
    <3>3. e = y[i - Len(x)]
      BY <1>1, <2>1, <2>3, <3>1 DEF z
    <3> QED
      BY <3>2, <3>3 DEF ToSet
  <2> QED
    BY <2>2, <2>3
<1>3. ASSUME NEW e, e \in ToSet(x) PROVE e \in ToSet(z)
  <2>1. PICK i \in 1..Len(x) : e = x[i]
    BY <1>1, <1>3 DEF ToSet
  <2>2. i \in DOMAIN z /\ z[i] = e
    BY <1>1, <2>1 DEF z
  <2> QED
    BY <2>2 DEF ToSet
<1>4. ASSUME NEW e, e \in ToSet(y) PROVE e \in ToSet(z)
  <2>1. PICK i \in 1..Len(y) : e = y[i]
    BY <1>1, <1>4 DEF ToSet
  <2>2. /\ Len(x) + i \in 1..(Len(x) + Len(y)) /\ Len(x) + i \notin 1..Len(x)
        /\ Len(x) + i - Len(x) = i
    BY <1>1
  <2>3. Len(x) + i \in DOMAIN z /\ z[Len(x) + i] = e
    BY <1>1, <2>1, <2>2 DEF z
  <2> QED
    BY <2>3 DEF ToSet
<1> QED
  BY <1>1, <1>2, <1>3, <1>4 DEF z

LEMMA FlatEntries ==
  ASSUME NEW S, NEW seqs, NEW len \in Nat, DOMAIN seqs = 1..len, seqs \in Seq(Seq(S))
  PROVE  /\ FlattenSeq(seqs) \in Seq(S)
         /\ \A e : e \in ToSet(FlattenSeq(seqs)) <=> \E i \in 1..len : e \in ToSet(seqs[i])
<1>0. Len(seqs) = len /\ \A i \in 1..len : seqs[i] \in Seq(S)
  OBVIOUS
<1>1. CASE len = 0
  <2>1. seqs = <<>> /\ FlattenSeq(seqs) = seqs /\ DOMAIN seqs = {}
    BY <1>0, <1>1 DEF FlattenSeq
  <2>2. FlattenSeq(seqs) \in Seq(S)
    <3>1. <<>> \in Seq(S)
      OBVIOUS
    <3> QED
      BY <2>1, <3>1, Zenon
  <2>3. ToSet(FlattenSeq(seqs)) = {}
    BY <2>1 DEF ToSet
  <2> QED
    BY <1>1, <2>2, <2>3
<1>2. CASE len # 0
  <2> DEFINE f == CHOOSE g : FlatTo(seqs, Len(seqs), g)
  <2>1. FlattenSeq(seqs) = f[Len(seqs)]
    <3>1. Len(seqs) # 0
      BY <1>0, <1>2
    <3> QED
      BY <3>1, Zenon DEF FlattenSeq, FlatTo
  <2>2. FlatTo(seqs, Len(seqs), f)
    <3>1. \E g : FlatTo(seqs, Len(seqs), g)
      BY <1>0, FlatExists
    <3> QED
      BY <3>1, Zenon
  <2> HIDE DEF f
  <2>3. \A i \in 1..len : f[i] = IF i = 1 THEN seqs[i] ELSE f[i - 1] \o seqs[i]
    BY <1>0, <2>2 DEF FlatTo
  <2> DEFINE In(e, n) == \E i \in 1..n : e \in ToSet(seqs[i])
             Joins(n) == f[n] \in Seq(S) /\ \A e : e \in ToSet(f[n]) <=> In(e, n)
             T == {n \in Nat : n + 1 <= len => Joins(n + 1)}
  <2>4. Joins(1)
    <3>1. f[1] = seqs[1] /\ seqs[1] \in Seq(S)
      BY <1>0, <1>2, <2>3
    <3>2. \A e : In(e, 1) <=> e \in ToSet(seqs[1])
      OBVIOUS
    <3> QED
      BY <3>1, <3>2
  <2>5. ASSUME NEW n \in Nat \ {0}, n + 1 <= len, Joins(n) PROVE Joins(n + 1)
    <3>1. f[n + 1] = f[n] \o seqs[n + 1] /\ seqs[n + 1] \in Seq(S)
      <4>1. n + 1 \in 1..len /\ n + 1 # 1 /\ n + 1 - 1 = n
        BY <2>5
      <4> DEFINE m == n + 1
      <4>2. m \in 1..len /\ m # 1 /\ m - 1 = n
        BY <4>1
      <4> HIDE DEF m
      <4>3. f[m] = f[m - 1] \o seqs[m]
        BY <2>3, <4>2
      <4> QED
        BY <1>0, <4>2, <4>3 DEF m
    <3>2. \A e : In(e, n + 1) <=> In(e, n) \/ e \in ToSet(seqs[n + 1])
      <4>1. 1..(n + 1) = 1..n \cup {n + 1}
        OBVIOUS
      <4> QED
        BY <4>1
    <3> HIDE DEF In
    <3>3. f[n] \in Seq(S) /\ \A e : e \in ToSet(f[n]) <=> In(e, n)
      BY <2>5
    <3>4. /\ f[n] \o seqs[n + 1] \in Seq(S)
          /\ \A e : e \in ToSet(f[n] \o seqs[n + 1]) <=>
                     e \in ToSet(f[n]) \/ e \in ToSet(seqs[n + 1])
      BY <3>1, <3>3, JoinedEntries
    <3> QED
      BY <3>1, <3>2, <3>3, <3>4
  <2> HIDE DEF Joins
  <2>6. 0 \in T
    BY <2>4
  <2>7. ASSUME NEW n \in Nat, n \in T PROVE n + 1 \in T
    <3>1. n + 1 + 1 <= len => Joins(n + 1 + 1)
      <4> HAVE n + 1 + 1 <= len
      <4>1. n + 1 <= len /\ n + 1 \in Nat \ {0}
        OBVIOUS
      <4>2. Joins(n + 1)
        BY <2>7, <4>1
      <4> QED
        BY <2>5, <4>1, <4>2
    <3> QED
      BY <3>1
  <2> HIDE DEF T
  <2>8. \A n \in Nat : n \in T
    BY <2>6, <2>7, AllNaturals
  <2>9. Joins(len)
    <3>1. len - 1 \in Nat /\ len - 1 + 1 = len
      BY <1>2
    <3>2. len - 1 \in T
      BY <2>8, <3>1
    <3>3. len - 1 + 1 <= len => Joins(len - 1 + 1)
      BY <3>2 DEF T
    <3> QED
      BY <3>1, <3>3
  <2> QED
    BY <1>0, <2>1, <2>9 DEF Joins, In
<1> QED
  BY <1>1, <1>2

\* What one series lists is on its pages.
LEMMA SeriesEntries ==
  ASSUME NEW S, NEW pages \in Seq(Seq(S)), NEW answered \in Nat, answered <= Len(pages)
  PROVE  /\ SeriesListing(pages, answered) \in Seq(S)
         /\ \A e \in ToSet(SeriesListing(pages, answered)) :
              \E page \in ToSet(pages) : e \in ToSet(page)
<1> DEFINE part == SubSeq(pages, 1, answered)
           flat == FlattenSeq(part)
<1>1. /\ part \in Seq(Seq(S)) /\ DOMAIN part = 1..answered
      /\ \A i \in 1..answered : part[i] = pages[i] /\ i \in DOMAIN pages
  OBVIOUS
<1> HIDE DEF part
<1>2. /\ flat \in Seq(S)
      /\ \A e : e \in ToSet(flat) <=> \E i \in 1..answered : e \in ToSet(part[i])
  BY <1>1, FlatEntries
<1>3. SeriesListing(pages, answered) = Unique(flat)
  BY DEF SeriesListing, part
<1> HIDE DEF flat
<1>4. Unique(flat) \in Seq(S) /\ ToSet(Unique(flat)) \subseteq ToSet(flat)
  BY <1>2, UniqueEntries
<1>5. ASSUME NEW e \in ToSet(Unique(flat)) PROVE \E page \in ToSet(pages) : e \in ToSet(page)
  <2>1. PICK i \in 1..answered : e \in ToSet(part[i])
    BY <1>2, <1>4, <1>5
  <2>2. part[i] \in ToSet(pages)
    BY <1>1 DEF ToSet
  <2> QED
    BY <2>1, <2>2
<1> QED
  BY <1>3, <1>4, <1>5

LEMMA QuotedIs ==
  ASSUME NEW b
  PROVE  \A e : e \in Quoted(b) <=>
                 \E i \in DOMAIN b : \E page \in ToSet(b[i]) : e \in ToSet(page)
BY DEF Quoted

\* The markets a scan prices: readable ones of the board, each ticker once.
LEMMA ListedReadable ==
  ASSUME WeatherStrategyAssumption, exchange \in Exchanges, board \in Boards[exchange],
         NEW answered \in [DOMAIN Series -> 0..Longest],
         \A i \in DOMAIN Series : answered[i] <= Len(board[i])
  PROVE  /\ Listed(answered) \in Seq(RawMarkets)
         /\ ToSet(Listed(answered)) \subseteq Readable(exchange, board)
         /\ Ticketed(Listed(answered))
<1> DEFINE len == Len(Series)
           seqs == [i \in DOMAIN Series |-> SeriesListing(board[i], answered[i])]
           raws == FlattenSeq(seqs)
           unique == Unique(raws)
           hours == EndsAt - now
           listed == IF exchange = "kalshi" THEN KalshiMarkets(unique)
                     ELSE PolymarketMarkets(unique)
           windowed == {i \in DOMAIN listed :
                          IF exchange = "kalshi" THEN InWindow(hours) /\ Liquid(listed[i])
                          ELSE Open(hours)}
<1>1. len \in Nat /\ DOMAIN Series = 1..len /\ DOMAIN board = DOMAIN Series
  <2>1. Series \in Seq(STRING) /\ DOMAIN board = DOMAIN Series
    BY DEF WeatherStrategyAssumption
  <2> QED
    BY <2>1
<1>2. \A i \in DOMAIN Series : board[i] \in Seq(Seq(RawMarkets)) /\ answered[i] \in Nat
  BY <1>1 DEF WeatherStrategyAssumption
<1>3. ASSUME NEW i \in DOMAIN Series
      PROVE  /\ seqs[i] \in Seq(RawMarkets)
             /\ \A e \in ToSet(seqs[i]) : \E page \in ToSet(board[i]) : e \in ToSet(page)
  <2>1. seqs[i] = SeriesListing(board[i], answered[i])
    OBVIOUS
  <2>2. board[i] \in Seq(Seq(RawMarkets)) /\ answered[i] \in Nat /\ answered[i] <= Len(board[i])
    BY <1>2
  <2> QED
    BY <2>1, <2>2, SeriesEntries
<1>4. DOMAIN seqs = 1..len
  BY <1>1
<1>5. seqs \in Seq(Seq(RawMarkets))
  <2>1. seqs = [i \in 1..len |-> seqs[i]]
    BY <1>1
  <2> HIDE DEF seqs
  <2>2. \A i \in 1..len : seqs[i] \in Seq(RawMarkets)
    BY <1>1, <1>3
  <2>3. seqs \in [1..len -> Seq(RawMarkets)]
    BY <2>1, <2>2
  <2> QED
    BY <1>1, <2>3, SeqDef
<1>6. Listed(answered) = Kept(listed, windowed)
  BY DEF Listed
<1> HIDE DEF seqs
<1>7. /\ raws \in Seq(RawMarkets)
      /\ \A e : e \in ToSet(raws) <=> \E i \in 1..len : e \in ToSet(seqs[i])
  BY <1>1, <1>4, <1>5, FlatEntries
<1>8. ToSet(raws) \subseteq Quoted(board)
  BY <1>1, <1>3, <1>7, QuotedIs
<1> HIDE DEF raws
<1>9. /\ unique \in Seq(RawMarkets) /\ ToSet(unique) \subseteq ToSet(raws)
      /\ Ticketed(unique)
  BY <1>7, UniqueEntries
<1> HIDE DEF unique
<1>10. /\ listed \in Seq(RawMarkets) /\ ToSet(listed) \subseteq Readable(exchange, board)
       /\ Ticketed(listed)
  <2>1. \A i \in DOMAIN unique : unique[i] \in Quoted(board)
    BY <1>8, <1>9 DEF ToSet
  <2>2. CASE exchange = "kalshi"
    <3> DEFINE places == {i \in DOMAIN unique : unique[i].legible /\ YesPrice(unique[i]) > 0}
    <3>1. listed = Kept(unique, places) /\ places \subseteq DOMAIN unique
      BY <2>2 DEF KalshiMarkets
    <3>2. \A p \in places : unique[p] \in Readable(exchange, board)
      BY <2>1, <2>2 DEF Readable
    <3> HIDE DEF places, listed
    <3>3. /\ Kept(unique, places) \in Seq(RawMarkets)
          /\ ToSet(Kept(unique, places)) = {unique[p] : p \in places}
      BY <1>9, <3>1, KeptEntries
    <3>4. Ticketed(Kept(unique, places))
      BY <1>9, <3>1, KeptOfTicketed
    <3> QED
      BY <3>1, <3>2, <3>3, <3>4
  <2>3. CASE exchange # "kalshi"
    <3> DEFINE places == {i \in DOMAIN unique : unique[i].legible /\ unique[i].question # "none"}
    <3>1. listed = Kept(unique, places) /\ places \subseteq DOMAIN unique
      BY <2>3 DEF PolymarketMarkets
    <3>2. \A p \in places : unique[p] \in Readable(exchange, board)
      BY <2>1, <2>3 DEF Readable
    <3> HIDE DEF places, listed
    <3>3. /\ Kept(unique, places) \in Seq(RawMarkets)
          /\ ToSet(Kept(unique, places)) = {unique[p] : p \in places}
      BY <1>9, <3>1, KeptEntries
    <3>4. Ticketed(Kept(unique, places))
      BY <1>9, <3>1, KeptOfTicketed
    <3> QED
      BY <3>1, <3>2, <3>3, <3>4
  <2> QED
    BY <2>2, <2>3
<1>11. windowed \subseteq DOMAIN listed
  OBVIOUS
<1> HIDE DEF listed, windowed
<1>12. /\ Kept(listed, windowed) \in Seq(RawMarkets)
       /\ ToSet(Kept(listed, windowed)) = {listed[p] : p \in windowed}
  BY <1>10, <1>11, KeptEntries
<1>13. Ticketed(Kept(listed, windowed))
  BY <1>10, <1>11, KeptOfTicketed
<1> QED
  BY <1>6, <1>10, <1>11, <1>12, <1>13 DEF ToSet

-----------------------------------------------------------------------------
(* What a scan waits for and what it has found *)

\* A day's extreme is a whole degree, or none was read.
LEMMA DailyExtremeIsInt ==
  ASSUME WeatherStrategyAssumption, NEW readings \in HourlySeries \cup {{}}
  PROVE  DailyExtreme(readings) \in Int
<1> DEFINE X == {x \in readings : x.day = TargetDay}
           temps == {r.temp : r \in X}
           Extremes(A) == \E hi, lo \in A : \A y \in A : hi.temp >= y.temp /\ lo.temp <= y.temp
           Good == {A \in SUBSET X : A = {} \/ Extremes(A)}
<1>1. IsFiniteSet(X) /\ \A r \in X : r.temp \in Int
  <2>1. CASE readings = {}
    <3>1. X = {}
      BY <2>1
    <3> QED
      BY <3>1, FS_EmptySet
  <2>2. CASE readings # {}
    <3>1. IsFiniteSet(readings) /\ \A r \in readings : r.temp \in Int
      BY <2>2 DEF WeatherStrategyAssumption
    <3>2. X \subseteq readings
      OBVIOUS
    <3> HIDE DEF X
    <3> QED
      BY <3>1, <3>2, FS_Subset
  <2> QED
    BY <2>1, <2>2
<1>2. DailyExtreme(readings) = IF temps = {} THEN NoReading
                               ELSE IF Metric = "highest" THEN Max(temps) ELSE Min(temps)
  BY DEF DailyExtreme
<1> HIDE DEF X
<1>3. ASSUME NEW A \in SUBSET X, NEW x \in X, A \in Good
      PROVE  A \cup {x} \in Good
  <2>1. CASE A = {}
    <3>1. \A y \in A \cup {x} : y = x
      BY <2>1
    <3>2. x \in A \cup {x} /\ x.temp >= x.temp /\ x.temp <= x.temp
      BY <1>1
    <3> QED
      BY <3>1, <3>2
  <2>2. CASE Extremes(A)
    <3>1. PICK hi, lo \in A : \A y \in A : hi.temp >= y.temp /\ lo.temp <= y.temp
      BY <2>2
    <3> DEFINE high == IF x.temp >= hi.temp THEN x ELSE hi
               low  == IF x.temp <= lo.temp THEN x ELSE lo
    <3>2. high \in A \cup {x} /\ low \in A \cup {x}
      OBVIOUS
    <3>3. \A y \in A \cup {x} : high.temp >= y.temp /\ low.temp <= y.temp
      <4> TAKE y \in A \cup {x}
      <4>1. x.temp \in Int /\ hi.temp \in Int /\ lo.temp \in Int /\ y.temp \in Int
        BY <1>1, <1>3
      <4>2. high.temp >= hi.temp /\ high.temp >= x.temp /\ high.temp \in Int
        BY <4>1
      <4>3. low.temp <= lo.temp /\ low.temp <= x.temp /\ low.temp \in Int
        BY <4>1
      <4>4. y = x \/ (hi.temp >= y.temp /\ lo.temp <= y.temp)
        BY <3>1
      <4> HIDE DEF high, low
      <4> QED
        BY <4>1, <4>2, <4>3, <4>4
    <3> HIDE DEF high, low
    <3>4. Extremes(A \cup {x})
      BY <3>2, <3>3
    <3> HIDE DEF Extremes
    <3> QED
      BY <3>4
  <2> HIDE DEF Extremes
  <2> QED
    BY <1>3, <2>1, <2>2
<1>4. {} \in Good
  OBVIOUS
<1>5. X \in Good
  <2> HIDE DEF Good
  <2> QED
    BY <1>1, <1>3, <1>4, AllSubsets
<1>6. X # {} => Max(temps) \in Int /\ Min(temps) \in Int
  <2> SUFFICES ASSUME X # {} PROVE Max(temps) \in Int /\ Min(temps) \in Int
    OBVIOUS
  <2>1. Extremes(X)
    <3> HIDE DEF Extremes
    <3> QED
      BY <1>5
  <2>2. PICK hi, lo \in X : \A y \in X : hi.temp >= y.temp /\ lo.temp <= y.temp
    BY <2>1
  <2>3. \A t \in temps : hi.temp >= t /\ lo.temp <= t /\ t \in Int
    BY <1>1, <2>2
  <2>4. hi.temp \in temps /\ lo.temp \in temps
    OBVIOUS
  <2> HIDE DEF temps
  <2>5. Max(temps) \in temps
    BY <2>3, <2>4 DEF Max
  <2>6. Min(temps) \in temps
    BY <2>3, <2>4 DEF Min
  <2> QED
    BY <2>3, <2>5, <2>6
<1>7. temps # {} => X # {}
  OBVIOUS
<1> QED
  BY <1>2, <1>6, <1>7 DEF NoReading

\* What one scan has found: signals to evaluate and intents taken.
Found == ToSet(scan.signals) \cup scan.intents

Signals ==
  [ticker : STRING, price : Int, prob : Int, whole : Int, role : {"primary", "adjacent"},
   liquidity : Nat, forecasts : Means]

\* A signal carries the price and the chance of a market the scan priced.
FromMarket(f, raw) ==
  LET members == Members(f.forecasts, bias)
  IN /\ f.ticker = raw.ticker
     /\ f.whole = Whole(members)
     /\ Edge(f.prob, f.whole, f.price) > 0
     /\ IF exchange = "kalshi"
        THEN f.price = YesPrice(raw) /\ f.prob = KalshiProb(members, raw)
        ELSE /\ f.price = BucketPrice(raw) /\ f.prob = BucketProb(members, raw)
             /\ f.liquidity = raw.liquidity
             /\ DOMAIN members # {} /\ Agree(members) /\ Signalled(members, raw)

Priced ==
  /\ scan.signals \in Seq(Signals)
  /\ scan.intents \in SUBSET Signals /\ IsFiniteSet(scan.intents)
  /\ \A f \in Found : \E raw \in Readable(exchange, board) : FromMarket(f, raw)
  /\ \A f, g \in Found : f.ticker = g.ticker => f = g
  /\ \A f \in scan.intents : f.liquidity >= MinLiquidity

\* The markets still to be priced are readable, each ticker once, and none has
\* a signal yet.
Waiting ==
  /\ scan.todo \in Seq(RawMarkets)
  /\ ToSet(scan.todo) \subseteq Readable(exchange, board)
  /\ Ticketed(scan.todo)
  /\ \A f \in Found : \A raw \in ToSet(scan.todo) : f.ticker # raw.ticker
  /\ scan.phase \in {"pricing", "gathering"} => scan.todo # <<>>
  /\ scan.phase # "evaluating" => scan.intents = {}
  /\ scan.phase \in {"idle", "listing"} => scan.signals = <<>>
  /\ \A s \in DOMAIN scan.got : scan.got[s] \in Int

\* A scan without anything found or waiting.
Blank ==
  /\ scan.signals = <<>> /\ scan.intents = {} /\ scan.todo = <<>> /\ scan.got = <<>>
  /\ scan.phase \in {"idle", "listing"}

LEMMA NothingFound == Blank => Priced /\ Waiting
<1> SUFFICES ASSUME Blank PROVE Priced /\ Waiting
  OBVIOUS
<1> USE DEF Blank
<1>1. Found = {}
  BY DEF Found, ToSet
<1>2. <<>> \in Seq(Signals) /\ <<>> \in Seq(RawMarkets) /\ DOMAIN <<>> = {}
  OBVIOUS
<1>3. ToSet(scan.todo) = {} /\ Ticketed(scan.todo) /\ DOMAIN scan.got = {}
  BY <1>2 DEF ToSet, Ticketed
<1>4. Priced
  BY <1>1, <1>2, FS_EmptySet DEF Priced
<1>5. Waiting
  BY <1>1, <1>2, <1>3 DEF Waiting
<1> QED
  BY <1>4, <1>5

LEMMA PricedInit ==
  ASSUME Init
  PROVE  Priced /\ Waiting
BY NothingFound DEF Init, Idle, Blank

\* A step that finds nothing new.
LEMMA PricedKept ==
  ASSUME Priced, UNCHANGED <<exchange, board, bias>>,
         scan.signals' \in Seq(Signals), ToSet(scan.signals') \subseteq ToSet(scan.signals),
         scan.intents' \in SUBSET Found, IsFiniteSet(scan.intents'),
         \A f \in scan.intents' : f.liquidity >= MinLiquidity
  PROVE  Priced' /\ Found' \subseteq Found
<1>1. Found' \subseteq Found
  BY DEF Found
<1>2. Found \subseteq Signals
  <2>1. ToSet(scan.signals) \subseteq Signals
    BY DEF Priced, ToSet
  <2> QED
    BY <2>1 DEF Priced, Found
<1>3. \A f : \A raw : FromMarket(f, raw)' <=> FromMarket(f, raw)
  BY DEF FromMarket
<1>4. Readable(exchange, board)' = Readable(exchange, board)
  OBVIOUS
<1>5. \A f \in Found' : \E raw \in Readable(exchange, board)' : FromMarket(f, raw)'
  BY <1>1, <1>3, <1>4 DEF Priced
<1> QED
  BY <1>1, <1>2, <1>5 DEF Priced

\* The chance of reaching a reading is a share of the whole, and falls.
LEMMA ExceedanceFalls ==
  ASSUME EnsembleAssumption, NEW members, Mixture(members),
         NEW x \in Int, NEW y \in Int, x <= y
  PROVE  /\ Whole(members) \in Nat /\ Whole(members) > 0
         /\ CdfExceedance(members, x) \in Nat /\ CdfExceedance(members, y) \in Nat
         /\ CdfExceedance(members, x) <= Whole(members)
         /\ CdfExceedance(members, y) <= CdfExceedance(members, x)
<1>1. CASE DOMAIN members = {}
  <2>1. Whole(members) = 100 /\ CdfExceedance(members, x) = 0 /\ CdfExceedance(members, y) = 0
    BY <1>1 DEF Whole, CdfExceedance
  <2> QED
    BY <2>1
<1>2. CASE DOMAIN members # {}
  <2> DEFINE total == Total(members)
             p == Below(members, x)
             q == Below(members, y)
  <2>1. total \in Nat /\ total > 0
    BY <1>2, TotalIsNat, TotalPositive
  <2>2. p \in Nat /\ q \in Nat /\ p <= q /\ q <= 100 * total
    BY BelowRises
  <2>3. /\ Whole(members) = 100 * total
        /\ CdfExceedance(members, x) = 100 * total - p
        /\ CdfExceedance(members, y) = 100 * total - q
    BY <1>2 DEF Whole, CdfExceedance
  <2> HIDE DEF total, p, q
  <2> QED
    BY <2>1, <2>2, <2>3
<1> QED
  BY <1>1, <1>2

LEMMA KalshiProbIsInt ==
  ASSUME EnsembleAssumption, NEW members, Mixture(members), NEW raw \in RawMarkets
  PROVE  KalshiProb(members, raw) \in Int
<1>1. raw.low \in Int /\ raw.high \in Int
  BY DEF RawMarkets
<1>2. /\ Whole(members) \in Nat
      /\ CdfExceedance(members, raw.low) \in Nat /\ CdfExceedance(members, raw.high) \in Nat
  BY <1>1, ExceedanceFalls
<1> QED
  BY <1>2 DEF KalshiProb

LEMMA BucketProbIsInt ==
  ASSUME EnsembleAssumption, NEW members, Mixture(members), NEW raw \in RawMarkets
  PROVE  BucketProb(members, raw) \in Int
<1>1. Bucket(raw).low \in Int /\ Bucket(raw).high \in Int
  BY DEF RawMarkets, Bucket, Infinity
<1>2. Below(members, Bucket(raw).low) \in Nat /\ Below(members, Bucket(raw).high) \in Nat
  BY <1>1, BelowRises
<1> QED
  BY <1>2 DEF BucketProb, IntervalProb

LEMMA PricesAreNats ==
  ASSUME NEW raw \in RawMarkets
  PROVE  YesPrice(raw) \in Nat /\ BucketPrice(raw) \in 0..198
<1>1. raw.bid \in 0..99 /\ raw.ask \in 0..99 /\ raw.last \in 0..99
  BY DEF RawMarkets
<1>2. raw.bid \in Nat /\ raw.ask \in Nat /\ raw.last \in Nat /\ raw.last <= 99
  BY <1>1
<1>3. raw.bid + raw.ask \in Nat /\ 2 * raw.last \in 0..198
  BY <1>2
<1> QED
  BY <1>3 DEF YesPrice, BucketPrice

\* A floor of at least one per cent leaves an edge.
LEMMA EdgePositive ==
  ASSUME NEW prob \in Int, NEW price \in Int, NEW whole \in Nat, whole > 0,
         NEW pct \in Nat, pct > 0, EdgeReaches(prob, whole, price, pct)
  PROVE  Edge(prob, whole, price) > 0
<1>1. Edge(prob, whole, price) \in Int /\ Edge(prob, whole, price) >= 2 * pct * whole
  BY DEF Edge, EdgeReaches
<1>2. 2 * pct * whole > 0
  <2>1. \A a, b \in Nat : a > 0 /\ b > 0 => a * b > 0
    OBVIOUS
  <2>2. 2 * pct \in Nat /\ 2 * pct > 0
    OBVIOUS
  <2> QED
    BY <2>1, <2>2
<1>3. 2 * pct * whole \in Int
  OBVIOUS
<1> HIDE DEF Edge
<1> QED
  BY <1>1, <1>2, <1>3

LEMMA ForecastsAreMeans ==
  ASSUME DOMAIN scan.got \subseteq SourcesFor(IsUs), \A s \in DOMAIN scan.got : scan.got[s] \in Int
  PROVE  Forecasts \in Means
<1> DEFINE D == {q \in DOMAIN scan.got : scan.got[q] # NoReading}
<1>1. D \in SUBSET SourcesFor(IsUs)
  OBVIOUS
<1>2. Forecasts \in [D -> Int]
  BY DEF Forecasts
<1> QED
  BY <1>1, <1>2 DEF Means

\* What both exchanges' signals carry.
LEMMA SignalTyped ==
  ASSUME NEW raw \in RawMarkets, NEW price \in Int, NEW prob \in Int, NEW members,
         NEW role \in {"primary", "adjacent"}, NEW forecasts \in Means, Whole(members) \in Nat
  PROVE  Signal(raw, price, prob, members, role, forecasts) \in Signals
BY DEF Signal, Signals, RawMarkets

LEMMA KalshiFinds ==
  ASSUME EnsembleAssumption, WeatherStrategyAssumption, exchange = "kalshi", bias \in Int,
         NEW raw \in RawMarkets, NEW forecasts \in Means
  PROVE  /\ KalshiSignals(raw, forecasts) \in Seq(Signals)
         /\ \A f \in ToSet(KalshiSignals(raw, forecasts)) : FromMarket(f, raw)
         /\ Len(KalshiSignals(raw, forecasts)) <= 1
<1> DEFINE members == Members(forecasts, bias)
           prob == KalshiProb(members, raw)
           whole == Whole(members)
           price == YesPrice(raw)
           f == Signal(raw, price, prob, members, "primary", forecasts)
<1>1. Mixture(members)
  BY MeansMix
<1>2. prob \in Int /\ whole \in Nat /\ whole > 0
  BY <1>1, KalshiProbIsInt, ExceedanceFalls, 0 \in Int, 0 <= 0
<1>3. price \in Int
  BY PricesAreNats
<1>4. f \in Signals
  <2> HIDE DEF members, prob, price
  <2> QED
    BY <1>2, <1>3, SignalTyped DEF whole
<1>5. /\ f.ticker = raw.ticker /\ f.whole = whole /\ f.prob = prob /\ f.price = price
      /\ f.forecasts = forecasts
  BY DEF Signal
<1>6. EdgeReaches(prob, whole, price, MinEdge) => Edge(prob, whole, price) > 0
  <2>1. MinEdge \in Nat /\ MinEdge > 0
    BY DEF WeatherStrategyAssumption
  <2> HIDE DEF prob, whole, price
  <2> QED
    BY <1>2, <1>3, <2>1, EdgePositive
<1>7. \/ KalshiSignals(raw, forecasts) = <<>>
      \/ EdgeReaches(prob, whole, price, MinEdge) /\ KalshiSignals(raw, forecasts) = <<f>>
  BY DEF KalshiSignals
<1>8. EdgeReaches(prob, whole, price, MinEdge) => FromMarket(f, raw)
  <2>1. Members(f.forecasts, bias) = members
    BY <1>5
  <2>2. Edge(f.prob, f.whole, f.price) = Edge(prob, whole, price)
    BY <1>5
  <2> HIDE DEF prob, whole, price, f
  <2> QED
    BY <1>5, <1>6, <2>1, <2>2 DEF FromMarket, prob, whole, price
<1> HIDE DEF f, prob, whole, price
<1>9. CASE KalshiSignals(raw, forecasts) = <<>>
  <2>1. <<>> \in Seq(Signals) /\ ToSet(<<>>) = {} /\ Len(<<>>) = 0
    BY DEF ToSet
  <2> QED
    BY <1>9, <2>1
<1>10. CASE EdgeReaches(prob, whole, price, MinEdge) /\ KalshiSignals(raw, forecasts) = <<f>>
  <2>1. <<f>> \in Seq(Signals) /\ ToSet(<<f>>) = {f} /\ Len(<<f>>) = 1
    BY <1>4 DEF ToSet
  <2> QED
    BY <1>8, <1>10, <2>1
<1> QED
  BY <1>7, <1>9, <1>10

LEMMA EventFinds ==
  ASSUME EnsembleAssumption, WeatherStrategyAssumption, exchange # "kalshi", bias \in Int,
         NEW raws \in Seq(RawMarkets), Ticketed(raws), NEW forecasts \in Means
  PROVE  /\ EventSignals(raws, forecasts) \in Seq(Signals)
         /\ \A f \in ToSet(EventSignals(raws, forecasts)) :
              \E raw \in ToSet(raws) : FromMarket(f, raw)
         /\ \A f, g \in ToSet(EventSignals(raws, forecasts)) : f.ticker = g.ticker => f = g
<1> DEFINE members == Members(forecasts, bias)
           Of(raw) == Signal(raw, BucketPrice(raw), BucketProb(members, raw), members,
                             Role(members, raw), forecasts)
           places == {i \in DOMAIN raws : Signalled(members, raws[i])}
           chosen == Kept(raws, places)
           out == [i \in DOMAIN chosen |-> Of(chosen[i])]
<1>1. Mixture(members)
  BY MeansMix
<1>2. Whole(members) \in Nat /\ Whole(members) > 0
  BY <1>1, ExceedanceFalls, 0 \in Int, 0 <= 0
<1>3. ASSUME NEW raw \in RawMarkets
      PROVE  /\ Of(raw) \in Signals /\ Of(raw).ticker = raw.ticker
             /\ DOMAIN members # {} /\ Agree(members) /\ Signalled(members, raw) =>
                  FromMarket(Of(raw), raw)
  <2> DEFINE prob == BucketProb(members, raw)
             price == BucketPrice(raw)
             whole == Whole(members)
             role == Role(members, raw)
             f == Of(raw)
  <2>1. prob \in Int /\ price \in Int /\ role \in {"primary", "adjacent"}
    <3>1. prob \in Int
      BY <1>1, BucketProbIsInt
    <3>2. price \in Int
      <4>1. price \in 0..198
        BY PricesAreNats
      <4> HIDE DEF price
      <4> QED
        BY <4>1
    <3>3. role \in {"primary", "adjacent"}
      BY DEF Role
    <3> QED
      BY <3>1, <3>2, <3>3
  <2>2. f \in Signals
    <3> HIDE DEF members, prob, price, role
    <3>1. f = Signal(raw, price, prob, members, role, forecasts)
      BY DEF prob, price, role
    <3> HIDE DEF f
    <3> QED
      BY <1>2, <2>1, <3>1, SignalTyped
  <2>3. /\ f.ticker = raw.ticker /\ f.whole = whole /\ f.prob = prob /\ f.price = price
        /\ f.forecasts = forecasts /\ f.liquidity = raw.liquidity
    BY DEF Signal
  <2>4. Signalled(members, raw) => Edge(prob, whole, price) > 0
    <3>1. Signalled(members, raw) => EdgeReaches(prob, whole, price, Floor(role))
      BY DEF Signalled
    <3>2. Floor(role) \in Nat /\ Floor(role) > 0
      BY DEF Floor, WeatherStrategyAssumption
    <3> HIDE DEF prob, whole, price, role
    <3> QED
      BY <1>2, <2>1, <3>1, <3>2, EdgePositive DEF whole
  <2>5. Members(f.forecasts, bias) = members
    BY <2>3
  <2>6. Edge(f.prob, f.whole, f.price) = Edge(prob, whole, price)
    BY <2>3
  <2> HIDE DEF f, prob, whole, price, role, members
  <2>7. DOMAIN members # {} /\ Agree(members) /\ Signalled(members, raw) => FromMarket(f, raw)
    BY <2>3, <2>4, <2>5, <2>6 DEF FromMarket, prob, whole, price
  <2> QED
    BY <2>2, <2>3, <2>7 DEF f
<1>4. \/ EventSignals(raws, forecasts) = <<>>
      \/ /\ DOMAIN members # {} /\ Agree(members) /\ EventSignals(raws, forecasts) = out
  BY DEF EventSignals
<1>5. /\ chosen \in Seq(RawMarkets) /\ ToSet(chosen) = {raws[p] : p \in places}
      /\ Ticketed(chosen)
  <2>1. places \subseteq DOMAIN raws
    OBVIOUS
  <2> HIDE DEF places
  <2> QED
    BY <2>1, KeptEntries, KeptOfTicketed
<1>6. \A i \in DOMAIN chosen :
        chosen[i] \in RawMarkets /\ chosen[i] \in ToSet(raws) /\ Signalled(members, chosen[i])
  <2>1. \A e \in {raws[p] : p \in places} :
          e \in RawMarkets /\ e \in ToSet(raws) /\ Signalled(members, e)
    BY DEF ToSet
  <2> HIDE DEF places, chosen
  <2>2. \A i \in DOMAIN chosen : chosen[i] \in ToSet(chosen)
    BY DEF ToSet
  <2> QED
    BY <1>5, <2>1, <2>2
<1> HIDE DEF chosen, places, Of, members
<1>7. CASE EventSignals(raws, forecasts) = <<>>
  <2>1. <<>> \in Seq(Signals) /\ ToSet(<<>>) = {}
    BY DEF ToSet
  <2> QED
    BY <1>7, <2>1
<1>8. CASE DOMAIN members # {} /\ Agree(members) /\ EventSignals(raws, forecasts) = out
  <2>1. Len(chosen) \in Nat /\ DOMAIN chosen = 1..Len(chosen)
    BY <1>5
  <2>2. out \in Seq(Signals)
    <3>1. \A i \in 1..Len(chosen) : Of(chosen[i]) \in Signals
      BY <1>3, <1>6, <2>1
    <3>2. out \in [1..Len(chosen) -> Signals]
      BY <2>1, <3>1
    <3> QED
      BY <2>1, <3>2, SeqDef
  <2>3. \A f \in ToSet(out) : \E i \in DOMAIN chosen : f = Of(chosen[i])
    BY DEF ToSet
  <2>4. \A f \in ToSet(out) : \E raw \in ToSet(raws) : FromMarket(f, raw)
    BY <1>3, <1>6, <1>8, <2>3
  <2>5. ASSUME NEW f \in ToSet(out), NEW g \in ToSet(out), f.ticker = g.ticker PROVE f = g
    <3>1. PICK i \in DOMAIN chosen : f = Of(chosen[i])
      BY <2>3
    <3>2. PICK j \in DOMAIN chosen : g = Of(chosen[j])
      BY <2>3
    <3>3. chosen[i].ticker = chosen[j].ticker
      BY <1>3, <1>6, <2>5, <3>1, <3>2
    <3>4. i = j
      BY <1>5, <3>3 DEF Ticketed
    <3> QED
      BY <3>1, <3>2, <3>4
  <2> QED
    BY <1>8, <2>2, <2>4, <2>5
<1> QED
  BY <1>4, <1>7, <1>8

\* A step that neither finds nor lists anything.
LEMMA WaitingKept ==
  ASSUME Waiting, UNCHANGED <<exchange, board, bias>>, Found' \subseteq Found,
         scan.todo' = scan.todo, scan.intents' = scan.intents, scan.signals' = scan.signals,
         scan.phase' \in {"pricing", "gathering"}, scan.phase \in {"pricing", "gathering"},
         \A s \in DOMAIN scan.got' : scan.got'[s] \in Int
  PROVE  Waiting'
<1>1. Readable(exchange, board)' = Readable(exchange, board)
  OBVIOUS
<1>2. scan.todo' # <<>> /\ scan.intents' = {}
  BY DEF Waiting
<1>3. \A f \in Found' : \A raw \in ToSet(scan.todo') : f.ticker # raw.ticker
  BY DEF Waiting
<1> QED
  BY <1>1, <1>2, <1>3 DEF Waiting, Ticketed

LEMMA FoundUnchanged ==
  ASSUME Priced, UNCHANGED <<exchange, board, bias>>,
         scan.signals' = scan.signals, scan.intents' = scan.intents
  PROVE  Priced' /\ Found' \subseteq Found
<1>1. /\ scan.signals' \in Seq(Signals) /\ ToSet(scan.signals') \subseteq ToSet(scan.signals)
      /\ scan.intents' \in SUBSET Found /\ IsFiniteSet(scan.intents')
      /\ \A f \in scan.intents' : f.liquidity >= MinLiquidity
  BY DEF Priced, Found
<1> QED
  BY <1>1, PricedKept

LEMMA ScanUnchanged ==
  ASSUME Priced, Waiting, UNCHANGED <<exchange, board, bias, scan>>
  PROVE  Priced' /\ Waiting'
<1>1. Priced' /\ Found' \subseteq Found
  BY FoundUnchanged
<1>2. Readable(exchange, board)' = Readable(exchange, board)
  OBVIOUS
<1> QED
  BY <1>1, <1>2 DEF Waiting, Ticketed

LEMMA ScanIdles ==
  ASSUME scan' = Idle
  PROVE  Priced' /\ Waiting'
<1>1. Blank'
  BY DEF Idle, Blank
<1> QED
  BY <1>1, NothingFound, PTL

\* Kalshi turns to the next market: what it leaves is not among the rest.
LEMMA MarketLeft ==
  ASSUME WeatherStrategyAssumption, Scans, Priced, Waiting, UNCHANGED <<exchange, board, bias>>,
         scan.phase = "gathering", NEW new \in Seq(Signals), Len(new) <= 1,
         \A f \in ToSet(new) : FromMarket(f, Head(scan.todo)),
         NextMarket(scan.signals \o new)
  PROVE  Priced' /\ Waiting'
<1> DEFINE todo == scan.todo
           raw == Head(todo)
           all == scan.signals \o new
<1>1. /\ todo \in Seq(RawMarkets) /\ todo # <<>> /\ Ticketed(todo)
      /\ ToSet(todo) \subseteq Readable(exchange, board)
  BY DEF Waiting
<1>2. /\ Len(todo) \in Nat \ {0} /\ DOMAIN todo = 1..Len(todo) /\ raw = todo[1]
      /\ Tail(todo) \in Seq(RawMarkets) /\ Len(Tail(todo)) = Len(todo) - 1
      /\ DOMAIN Tail(todo) = 1..(Len(todo) - 1)
      /\ \A i \in 1..(Len(todo) - 1) : Tail(todo)[i] = todo[i + 1]
  BY <1>1
<1>3. raw \in ToSet(todo) /\ raw \in Readable(exchange, board)
  <2>1. 1 \in DOMAIN todo
    BY <1>2
  <2>2. raw \in ToSet(todo)
    BY <1>2, <2>1 DEF ToSet
  <2> QED
    BY <1>1, <2>2
<1>4. /\ scan'.phase \in {"evaluating", "pricing"} /\ scan'.todo = Tail(todo)
      /\ scan'.got = <<>> /\ scan'.signals = all /\ scan'.intents = scan.intents
      /\ scan'.phase = "pricing" => Len(todo) # 1
  BY DEF NextMarket, Scans
<1>5. scan.intents = {}
  BY DEF Waiting
<1>6. /\ all \in Seq(Signals)
      /\ \A e : e \in ToSet(all) <=> e \in ToSet(scan.signals) \/ e \in ToSet(new)
  <2>1. scan.signals \in Seq(Signals)
    BY DEF Priced
  <2> QED
    BY <2>1, JoinedEntries
<1>7. \A f, g \in ToSet(new) : f = g
  <2> TAKE f, g \in ToSet(new)
  <2>1. PICK i \in DOMAIN new : f = new[i]
    BY DEF ToSet
  <2>2. PICK j \in DOMAIN new : g = new[j]
    BY DEF ToSet
  <2>3. i = 1 /\ j = 1
    BY <2>1, <2>2
  <2> QED
    BY <2>1, <2>2, <2>3
<1>8. \A f \in ToSet(new) : f.ticker = raw.ticker
  BY DEF FromMarket
<1>9. \A f \in ToSet(scan.signals) : f.ticker # raw.ticker
  BY <1>3 DEF Waiting, Found
<1> HIDE DEF raw, all, todo
<1>10. Found' = ToSet(all)
  BY <1>4, <1>5 DEF Found
<1>11. Priced'
  <2>1. Readable(exchange, board)' = Readable(exchange, board)
    OBVIOUS
  <2>2. \A f, m : FromMarket(f, m)' <=> FromMarket(f, m)
    BY DEF FromMarket
  <2>3. \A f \in Found' : \E m \in Readable(exchange, board)' : FromMarket(f, m)'
    <3>1. \A f \in ToSet(scan.signals) : \E m \in Readable(exchange, board) : FromMarket(f, m)
      BY DEF Priced, Found
    <3>2. \A f \in ToSet(new) : \E m \in Readable(exchange, board) : FromMarket(f, m)
      BY <1>3 DEF raw, todo
    <3> QED
      BY <1>6, <1>10, <2>1, <2>2, <3>1, <3>2
  <2>4. \A f, g \in Found' : f.ticker = g.ticker => f = g
    <3>1. \A f, g \in ToSet(scan.signals) : f.ticker = g.ticker => f = g
      BY DEF Priced, Found
    <3> QED
      BY <1>6, <1>7, <1>8, <1>9, <1>10, <3>1
  <2>5. scan.intents' = {} /\ scan.signals' = all
    BY <1>4, <1>5
  <2> QED
    BY <1>6, <2>3, <2>4, <2>5, FS_EmptySet DEF Priced
<1>12. Waiting'
  <2>1. Readable(exchange, board)' = Readable(exchange, board)
    OBVIOUS
  <2>2. \A m \in ToSet(Tail(todo)) : m \in ToSet(todo) /\ m.ticker # raw.ticker
    <3> TAKE m \in ToSet(Tail(todo))
    <3>1. PICK i \in 1..(Len(todo) - 1) : m = Tail(todo)[i]
      BY <1>2 DEF ToSet
    <3>2. m = todo[i + 1] /\ i + 1 \in DOMAIN todo /\ 1 \in DOMAIN todo /\ i + 1 # 1
      BY <1>2, <3>1
    <3>3. m.ticker # raw.ticker
      BY <1>1, <1>2, <3>2 DEF Ticketed
    <3> QED
      BY <3>2, <3>3 DEF ToSet
  <2>3. Ticketed(Tail(todo))
    <3>1. \A i, j \in 1..(Len(todo) - 1) : todo[i + 1].ticker = todo[j + 1].ticker => i = j
      <4> TAKE i, j \in 1..(Len(todo) - 1)
      <4>1. i + 1 \in DOMAIN todo /\ j + 1 \in DOMAIN todo /\ (i + 1 = j + 1 => i = j)
        BY <1>2
      <4> QED
        BY <1>1, <4>1 DEF Ticketed
    <3> QED
      BY <1>2, <3>1 DEF Ticketed
  <2>4. \A f \in Found' : \A m \in ToSet(Tail(todo)) : f.ticker # m.ticker
    <3>1. \A f \in ToSet(scan.signals) : \A m \in ToSet(todo) : f.ticker # m.ticker
      BY DEF Waiting, Found, todo
    <3> QED
      BY <1>6, <1>8, <1>10, <2>2, <3>1
  <2>5. scan.phase' = "pricing" => Tail(todo) # <<>>
    <3>1. Len(<<>>) = 0
      OBVIOUS
    <3>2. Len(todo) # 1 => Len(Tail(todo)) # 0
      BY <1>2
    <3> QED
      BY <1>4, <3>1, <3>2
  <2>6. /\ scan.phase' \in {"evaluating", "pricing"} /\ scan.todo' = Tail(todo)
        /\ scan.intents' = {} /\ DOMAIN scan.got' = {}
    BY <1>4, <1>5
  <2>7. ToSet(Tail(todo)) \subseteq Readable(exchange, board)
    BY <1>1, <2>2
  <2> QED
    BY <1>2, <2>1, <2>3, <2>4, <2>5, <2>6, <2>7 DEF Waiting, Ticketed
<1> QED
  BY <1>11, <1>12

LEMMA PricedStep ==
  ASSUME EnsembleAssumption, WeatherStrategyAssumption, Typed, Priced, Waiting, [Next]_vars
  PROVE  Priced' /\ Waiting'
<1>0. /\ exchange \in {"kalshi", "polymarket"} /\ exchange \in Exchanges
      /\ board \in Boards[exchange] /\ bias \in Int
  BY DEF Typed, Clocks, WeatherStrategyAssumption
<1>1. CASE PollHalted \/ PollEarly \/ Tick \/ UNCHANGED vars
  BY <1>1, ScanUnchanged DEF PollHalted, PollEarly, Tick, vars
<1>2. CASE BeginScan
  <2>1. Blank'
    BY <1>2 DEF BeginScan, Idle, Blank
  <2> QED
    BY <2>1, NothingFound, PTL
<1>3. CASE List
  <2>1. PICK answered \in [DOMAIN Series -> 0..Longest] :
          /\ \A i \in DOMAIN Series : answered[i] <= Len(board[i])
          /\ IF Listed(answered) = <<>>
             THEN scan' = Idle
             ELSE scan' = [scan EXCEPT !.phase = "pricing", !.todo = Listed(answered)]
    BY <1>3 DEF List
  <2>2. CASE Listed(answered) = <<>>
    BY <2>1, <2>2, ScanIdles
  <2>3. CASE Listed(answered) # <<>>
    <3> DEFINE listed == Listed(answered)
    <3>1. /\ listed \in Seq(RawMarkets) /\ ToSet(listed) \subseteq Readable(exchange, board)
          /\ Ticketed(listed)
      BY <1>0, <2>1, ListedReadable
    <3>2. scan' = [scan EXCEPT !.phase = "pricing", !.todo = listed]
      BY <2>1, <2>3
    <3>3. scan.phase = "listing" /\ UNCHANGED <<exchange, board, bias>>
      BY <1>3 DEF List
    <3> HIDE DEF listed
    <3>4. /\ scan.todo' = listed /\ scan.phase' = "pricing" /\ scan.signals' = scan.signals
          /\ scan.intents' = scan.intents /\ scan.got' = scan.got
      BY <3>2 DEF Typed, Scans
    <3>5. scan.signals = <<>> /\ scan.intents = {}
      BY <3>3 DEF Waiting
    <3>6. Priced'
      BY <3>3, <3>4, FoundUnchanged
    <3>7. Found' = {}
      BY <3>4, <3>5 DEF Found, ToSet
    <3>8. listed # <<>>
      BY <2>3 DEF listed
    <3>9. Readable(exchange, board)' = Readable(exchange, board)
      BY <3>3
    <3>10. Waiting'
      BY <3>1, <3>4, <3>5, <3>7, <3>8, <3>9 DEF Waiting, Ticketed
    <3> QED
      BY <3>6, <3>10
  <2> QED
    BY <2>2, <2>3
<1>4. CASE ListingTimesOut \/ EndScan
  BY <1>4, ScanIdles DEF ListingTimesOut, Raise, EndScan
<1>5. CASE Gather
  <2> DEFINE stale == {s \in SourcesFor(IsUs) : ~Fresh(s)}
             got == [s \in SourcesFor(IsUs) \ stale |-> DailyExtreme(cache[s].readings)]
  <2>1. /\ scan.phase = "pricing" /\ UNCHANGED <<exchange, board, bias>>
        /\ scan' = [scan EXCEPT !.phase = "gathering", !.got = got]
    BY <1>5 DEF Gather
  <2>2. \A s \in SourcesFor(IsUs) \ stale : DailyExtreme(cache[s].readings) \in Int
    <3>1. \A s \in Sources : cache[s].readings \in HourlySeries \cup {{}}
      BY DEF Typed, Cached
    <3> HIDE DEF stale
    <3> QED
      BY <3>1, DailyExtremeIsInt DEF SourcesFor
  <2>3. \A s \in DOMAIN got : got[s] \in Int
    BY <2>2
  <2> HIDE DEF got
  <2>4. /\ scan.phase' = "gathering" /\ scan.got' = got /\ scan.todo' = scan.todo
        /\ scan.signals' = scan.signals /\ scan.intents' = scan.intents
    BY <2>1 DEF Typed, Scans
  <2>5. Priced' /\ Found' \subseteq Found
    BY <2>1, <2>4, FoundUnchanged
  <2>6. Waiting'
    BY <2>1, <2>3, <2>4, <2>5, WaitingKept
  <2> QED
    BY <2>5, <2>6
<1>6. ASSUME NEW f \in flights, NEW readings \in HourlySeries \cup {{}}, Answer(f, readings)
      PROVE  Priced' /\ Waiting'
  <2>1. UNCHANGED <<exchange, board, bias>>
    BY <1>6 DEF Answer
  <2>2. CASE ~f.awaited
    BY <1>6, <2>1, <2>2, ScanUnchanged DEF Answer
  <2>3. CASE f.awaited
    <3> DEFINE got == [s \in DOMAIN scan.got \cup {f.source} |->
                         IF s = f.source THEN DailyExtreme(readings) ELSE scan.got[s]]
    <3>1. scan' = [scan EXCEPT !.got = got]
      BY <1>6, <2>3 DEF Answer
    <3>2. \A s \in DOMAIN got : got[s] \in Int
      BY DailyExtremeIsInt DEF Waiting
    <3>3. scan.phase = "gathering"
      BY <2>3 DEF Typed, Fetches
    <3> HIDE DEF got
    <3>4. /\ scan.phase' = "gathering" /\ scan.got' = got /\ scan.todo' = scan.todo
          /\ scan.signals' = scan.signals /\ scan.intents' = scan.intents
      BY <3>1, <3>3 DEF Typed, Scans
    <3>5. Priced' /\ Found' \subseteq Found
      BY <2>1, <3>4, FoundUnchanged
    <3>6. Waiting'
      BY <2>1, <3>2, <3>3, <3>4, <3>5, WaitingKept
    <3> QED
      BY <3>5, <3>6
  <2> QED
    BY <2>2, <2>3
<1>7. ASSUME NEW f \in flights, AnswerRaises(f)
      PROVE  Priced' /\ Waiting'
  <2>1. UNCHANGED <<exchange, board, bias>>
    BY <1>7 DEF AnswerRaises
  <2>2. CASE ~f.awaited
    BY <1>7, <2>1, <2>2, ScanUnchanged DEF AnswerRaises
  <2>3. CASE f.awaited /\ exchange = "kalshi"
    <3>1. NextMarket(scan.signals) /\ scan.phase = "gathering"
      <4>1. NextMarket(scan.signals)
        BY <1>7, <2>3 DEF AnswerRaises, GatherRaises
      <4> QED
        BY <2>3, <4>1 DEF Typed, Fetches
    <3>2. scan.signals \o <<>> = scan.signals
      <4>1. scan.signals \in Seq(Signals)
        BY DEF Priced
      <4> QED
        BY <4>1
    <3>3. <<>> \in Seq(Signals) /\ Len(<<>>) <= 1 /\ ToSet(<<>>) = {}
      BY DEF ToSet
    <3>4. NextMarket(scan.signals \o <<>>)
      BY <3>1, <3>2
    <3> QED
      BY <2>1, <3>1, <3>3, <3>4, MarketLeft DEF Typed
  <2>4. CASE f.awaited /\ exchange # "kalshi"
    <3>1. scan' = Idle
      BY <1>7, <2>4 DEF AnswerRaises, GatherRaises, Raise
    <3> QED
      BY <2>1, <3>1, ScanIdles
  <2> QED
    BY <2>2, <2>3, <2>4
<1>8. CASE FetchEnds
  BY <1>6, <1>7, <1>8 DEF FetchEnds
<1>9. CASE Price
  <2>1. scan.phase = "gathering" /\ UNCHANGED <<exchange, board, bias>>
    BY <1>9 DEF Price
  <2>2. Forecasts \in Means
    BY ForecastsAreMeans DEF Waiting, Typed, Scans
  <2>3. CASE exchange = "kalshi"
    <3> DEFINE raw == Head(scan.todo)
               new == KalshiSignals(raw, Forecasts)
    <3>1. raw \in RawMarkets
      BY <2>1 DEF Waiting
    <3>2. /\ new \in Seq(Signals) /\ Len(new) <= 1
          /\ \A f \in ToSet(new) : FromMarket(f, raw)
      BY <1>0, <2>2, <2>3, <3>1, KalshiFinds
    <3>3. NextMarket(scan.signals \o new)
      BY <1>9, <2>3 DEF Price
    <3> HIDE DEF new
    <3> QED
      BY <2>1, <3>2, <3>3, MarketLeft DEF Typed
  <2>4. CASE exchange # "kalshi"
    <3> DEFINE new == EventSignals(scan.todo, Forecasts)
    <3>1. /\ scan.todo \in Seq(RawMarkets) /\ Ticketed(scan.todo) /\ scan.intents = {}
          /\ ToSet(scan.todo) \subseteq Readable(exchange, board)
      BY <2>1 DEF Waiting
    <3>2. /\ new \in Seq(Signals)
          /\ \A f \in ToSet(new) : \E raw \in ToSet(scan.todo) : FromMarket(f, raw)
          /\ \A f, g \in ToSet(new) : f.ticker = g.ticker => f = g
      BY <1>0, <2>2, <2>4, <3>1, EventFinds
    <3>3. scan' = [scan EXCEPT !.phase = "evaluating", !.todo = <<>>, !.got = <<>>,
                               !.signals = new]
      BY <1>9, <2>4 DEF Price
    <3> HIDE DEF new
    <3>4. /\ scan.phase' = "evaluating" /\ scan.got' = <<>> /\ scan.todo' = <<>>
          /\ scan.signals' = new /\ scan.intents' = {}
      BY <3>1, <3>3 DEF Typed, Scans
    <3>5. Found' = ToSet(new)
      BY <3>4 DEF Found
    <3>6. Readable(exchange, board)' = Readable(exchange, board)
      BY <2>1
    <3>7. \A f, m : FromMarket(f, m)' <=> FromMarket(f, m)
      BY <2>1 DEF FromMarket
    <3>8. \A f \in Found' : \E m \in Readable(exchange, board)' : FromMarket(f, m)'
      BY <3>1, <3>2, <3>5, <3>6, <3>7
    <3>9. Priced'
      BY <3>2, <3>4, <3>5, <3>8, FS_EmptySet DEF Priced
    <3>10. <<>> \in Seq(RawMarkets) /\ DOMAIN <<>> = {} /\ ToSet(<<>>) = {} /\ Ticketed(<<>>)
      BY DEF ToSet, Ticketed
    <3>11. Waiting'
      BY <3>4, <3>10 DEF Waiting, Ticketed
    <3> QED
      BY <3>9, <3>11
  <2> QED
    BY <2>3, <2>4
<1>10. CASE Evaluate
  <2> DEFINE head == Head(scan.signals)
  <2>1. /\ scan.phase = "evaluating" /\ scan.signals # <<>>
        /\ UNCHANGED <<exchange, board, bias>>
        /\ scan' = [scan EXCEPT !.signals = Tail(@),
                                !.intents = IF Accepts(head) THEN @ \cup {head} ELSE @]
    BY <1>10 DEF Evaluate
  <2>2. /\ scan.signals' = Tail(scan.signals) /\ scan.phase' = "evaluating"
        /\ scan.todo' = scan.todo /\ scan.got' = scan.got
        /\ scan.intents' = IF Accepts(head) THEN scan.intents \cup {head} ELSE scan.intents
    BY <2>1 DEF Typed, Scans
  <2>3. scan.signals \in Seq(Signals)
    BY DEF Priced
  <2>4. /\ Tail(scan.signals) \in Seq(Signals)
        /\ \A i \in DOMAIN Tail(scan.signals) :
             i + 1 \in DOMAIN scan.signals /\ Tail(scan.signals)[i] = scan.signals[i + 1]
        /\ 1 \in DOMAIN scan.signals /\ head = scan.signals[1]
    BY <2>1, <2>3
  <2>5. ToSet(Tail(scan.signals)) \subseteq ToSet(scan.signals) /\ head \in ToSet(scan.signals)
    BY <2>4 DEF ToSet
  <2>6. Accepts(head) => head.liquidity >= MinLiquidity
    BY DEF Accepts
  <2> HIDE DEF head
  <2>7. IsFiniteSet(scan.intents')
    <3>1. IsFiniteSet(scan.intents)
      BY DEF Priced
    <3>2. IsFiniteSet(scan.intents \cup {head})
      BY <3>1, FS_AddElement
    <3> QED
      BY <2>2, <3>1, <3>2
  <2>8. scan.intents' \in SUBSET Found /\ \A f \in scan.intents' : f.liquidity >= MinLiquidity
    BY <2>2, <2>5, <2>6 DEF Priced, Found
  <2>9. scan.signals' \in Seq(Signals) /\ ToSet(scan.signals') \subseteq ToSet(scan.signals)
    BY <2>2, <2>4, <2>5
  <2>10. Priced' /\ Found' \subseteq Found
    BY <2>1, <2>7, <2>8, <2>9, PricedKept
  <2>11. Readable(exchange, board)' = Readable(exchange, board)
    BY <2>1
  <2>12. Waiting'
    BY <2>2, <2>10, <2>11 DEF Waiting, Ticketed
  <2> QED
    BY <2>10, <2>12
<1> QED
  BY <1>1, <1>2, <1>3, <1>4, <1>5, <1>8, <1>9, <1>10 DEF Next

LEMMA PricedAlways ==
  ASSUME EnsembleAssumption, WeatherStrategyAssumption
  PROVE  Spec => [](Typed /\ Priced /\ Waiting)
<1>1. Init => Typed /\ Priced /\ Waiting
  BY TypedInit, PricedInit
<1>2. Typed /\ Priced /\ Waiting /\ [Next]_vars => (Typed /\ Priced /\ Waiting)'
  <2>1. Typed /\ [Next]_vars => Typed'
    BY ClocksStep, CachedStep, ScansFetchesStep DEF Typed
  <2> QED
    BY <2>1, PricedStep
<1> QED
  BY <1>1, <1>2, PTL DEF Spec

-----------------------------------------------------------------------------
(* What the signals of one gather cost *)

LEMMA EntriesFinite ==
  ASSUME NEW S, NEW s \in Seq(S)
  PROVE  IsFiniteSet(ToSet(s))
<1>1. IsFiniteSet(1..Len(s))
  BY FS_Interval, 1 \in Int, Len(s) \in Int
<1>2. s \in [1..Len(s) -> ToSet(s)] /\ DOMAIN s = 1..Len(s)
  BY DEF ToSet
<1>3. s \in Surjection(1..Len(s), ToSet(s))
  BY <1>2 DEF Surjection, ToSet
<1> QED
  BY <1>1, <1>3, FS_Surjection

\* The share of the whole a market stands for lies between two points of it.
From(members, raw) ==
  IF exchange = "kalshi"
  THEN IF Side(raw) = "below" THEN 0 ELSE Whole(members) - CdfExceedance(members, raw.low)
  ELSE Below(members, Bucket(raw).low)

Upto(members, raw) ==
  IF exchange = "kalshi"
  THEN CASE Side(raw) = "below" -> Whole(members) - CdfExceedance(members, raw.low)
         [] Side(raw) = "range" -> Whole(members) - CdfExceedance(members, raw.high)
         [] OTHER -> Whole(members)
  ELSE Below(members, Bucket(raw).high)

\* A signal's price is below what its share is worth.
LEMMA SignalCheap ==
  ASSUME EnsembleAssumption, NEW raw \in RawMarkets, NEW f \in Signals, bias \in Int,
         FromMarket(f, raw)
  PROVE  LET members == Members(f.forecasts, bias)
         IN /\ From(members, raw) \in Nat /\ Upto(members, raw) \in Nat
            /\ From(members, raw) < Upto(members, raw) /\ Upto(members, raw) <= Whole(members)
            /\ Whole(members) * f.price < 200 * (Upto(members, raw) - From(members, raw))
<1> DEFINE members == Members(f.forecasts, bias)
           whole == Whole(members)
           from == From(members, raw)
           upto == Upto(members, raw)
<1>1. Mixture(members)
  BY MeansMix DEF Signals
<1>2. whole \in Nat /\ whole > 0
  BY <1>1, ExceedanceFalls, 0 \in Int, 0 <= 0
<1>3. f.prob \in Int /\ f.price \in Nat
  <2>1. f.price = YesPrice(raw) \/ f.price = BucketPrice(raw)
    BY DEF FromMarket
  <2>2. YesPrice(raw) \in Nat /\ BucketPrice(raw) \in Nat
    <3>1. \A n \in 0..198 : n \in Nat
      OBVIOUS
    <3> QED
      BY <3>1, PricesAreNats
  <2> QED
    BY <2>1, <2>2 DEF Signals
<1>4. raw.low \in Int /\ raw.high \in Int
  BY DEF RawMarkets
<1>5. /\ from \in Nat /\ upto \in Nat /\ upto <= whole
      /\ f.prob = upto - from \/ f.prob = 0
  <2>1. CASE exchange = "kalshi"
    <3> DEFINE high == CdfExceedance(members, raw.high)
               low == CdfExceedance(members, raw.low)
    <3>1. high \in Nat /\ low \in Nat /\ high <= whole /\ low <= whole
      BY <1>1, <1>4, ExceedanceFalls
    <3>2. f.prob = CASE Side(raw) = "below" -> whole - low
                     [] Side(raw) = "range" -> IF low > high THEN low - high ELSE 0
                     [] OTHER -> low
      BY <2>1 DEF FromMarket, KalshiProb
    <3>3. /\ from = IF Side(raw) = "below" THEN 0 ELSE whole - low
          /\ upto = CASE Side(raw) = "below" -> whole - low
                      [] Side(raw) = "range" -> whole - high
                      [] OTHER -> whole
      BY <2>1 DEF From, Upto
    <3> HIDE DEF high, low, whole, from, upto
    <3>4. CASE Side(raw) = "below"
      BY <1>2, <3>1, <3>2, <3>3, <3>4
    <3>5. CASE Side(raw) = "range"
      BY <1>2, <3>1, <3>2, <3>3, <3>5
    <3>6. CASE Side(raw) \notin {"below", "range"}
      BY <1>2, <3>1, <3>2, <3>3, <3>6
    <3> QED
      BY <3>4, <3>5, <3>6
  <2>2. CASE exchange # "kalshi"
    <3> DEFINE p == Below(members, Bucket(raw).low)
               q == Below(members, Bucket(raw).high)
    <3>1. Bucket(raw).low \in Int /\ Bucket(raw).high \in Int
      BY <1>4 DEF Bucket, Infinity
    <3>2. p \in Nat /\ q \in Nat /\ q <= 100 * Total(members)
      BY <1>1, <3>1, BelowRises
    <3>3. DOMAIN members # {} /\ f.prob = q - p
      BY <2>2 DEF FromMarket, BucketProb, IntervalProb
    <3>4. from = p /\ upto = q /\ whole = 100 * Total(members)
      BY <2>2, <3>3 DEF From, Upto, Whole
    <3> HIDE DEF p, q, from, upto, whole, members
    <3> QED
      BY <3>2, <3>3, <3>4
  <2> QED
    BY <2>1, <2>2
<1>6. 200 * f.prob - f.price * whole > 0
  BY DEF FromMarket, Edge
<1> HIDE DEF whole, from, upto
<1>7. f.price * whole \in Nat /\ f.price * whole = whole * f.price
  BY <1>2, <1>3
<1>8. f.prob = upto - from /\ f.prob > 0
  BY <1>3, <1>5, <1>6, <1>7
<1>9. from < upto /\ whole * f.price < 200 * (upto - from)
  BY <1>3, <1>5, <1>6, <1>7, <1>8
<1> QED
  BY <1>5, <1>9 DEF whole, from, upto

\* Markets that exclude each other stand for shares that do not overlap.
LEMMA SharesApart ==
  ASSUME EnsembleAssumption, exchange \in {"kalshi", "polymarket"}, NEW members, Mixture(members), NEW a \in RawMarkets,
         NEW b \in RawMarkets, Precedes(exchange, a, b)
  PROVE  Upto(members, a) <= From(members, b)
<1>1. a.low \in Int /\ a.high \in Int /\ b.low \in Int /\ b.high \in Int
  BY DEF RawMarkets
<1>2. CASE exchange = "kalshi"
  <2> DEFINE end == IF a.question = "below" THEN a.low ELSE a.high
             p == CdfExceedance(members, end)
             q == CdfExceedance(members, b.low)
  <2>1. /\ Side(a) = a.question /\ a.question \in {"range", "below"}
        /\ Side(b) # "below" /\ end <= b.low
    BY <1>2 DEF Precedes, Side
  <2>2. end \in Int
    BY <1>1
  <2>3. p \in Nat /\ q \in Nat /\ q <= p /\ Whole(members) \in Nat
    <3> HIDE DEF end
    <3> QED
      BY <1>1, <2>1, <2>2, ExceedanceFalls
  <2>4. Upto(members, a) = Whole(members) - p
    BY <1>2, <2>1 DEF Upto
  <2>5. From(members, b) = Whole(members) - q
    BY <1>2, <2>1 DEF From
  <2> HIDE DEF p, q
  <2> QED
    BY <2>3, <2>4, <2>5
<1>3. CASE exchange # "kalshi"
  <2>1. Bucket(a).high \in Int /\ Bucket(b).low \in Int
    BY <1>1 DEF Bucket, Infinity
  <2>2. Bucket(a).high <= Bucket(b).low
    <3>1. exchange = "polymarket"
      BY <1>3
    <3>2. /\ a.question \in {"range", "below"} /\ b.question # "below"
          /\ a.high < b.low
      BY <3>1 DEF Precedes
    <3>3. Bucket(a).high = a.high + 1 /\ Bucket(b).low = b.low
      BY <3>2 DEF Bucket
    <3> QED
      BY <1>1, <3>2, <3>3
  <2>3. Below(members, Bucket(a).high) <= Below(members, Bucket(b).low)
    BY <2>1, <2>2, BelowRises
  <2> QED
    BY <1>3, <2>3 DEF Upto, From
<1> QED
  BY <1>2, <1>3

\* The market a signal came from.
MarketOf(f) == CHOOSE raw \in Readable(exchange, board) : FromMarket(f, raw)

LEMMA ReadableRaw ==
  ASSUME WeatherStrategyAssumption, exchange \in Exchanges, board \in Boards[exchange]
  PROVE  Readable(exchange, board) \subseteq RawMarkets
<1>1. \A i \in DOMAIN board : board[i] \in Seq(Seq(RawMarkets))
  BY DEF WeatherStrategyAssumption
<1>2. \A i \in DOMAIN board : \A page \in ToSet(board[i]) : ToSet(page) \subseteq RawMarkets
  <2> TAKE i \in DOMAIN board
  <2> TAKE page \in ToSet(board[i])
  <2>1. page \in Seq(RawMarkets)
    BY <1>1 DEF ToSet
  <2> QED
    BY <2>1 DEF ToSet
<1>3. Quoted(board) \subseteq RawMarkets
  BY <1>2, QuotedIs
<1> QED
  BY <1>3 DEF Readable

LEMMA FoundFinite ==
  ASSUME Priced
  PROVE  Found \subseteq Signals /\ IsFiniteSet(Found)
<1>1. /\ scan.signals \in Seq(Signals) /\ scan.intents \subseteq Signals
      /\ IsFiniteSet(scan.intents)
  BY DEF Priced
<1>2. IsFiniteSet(ToSet(scan.signals))
  BY <1>1, EntriesFinite
<1>3. IsFiniteSet(ToSet(scan.signals) \cup scan.intents)
  BY <1>1, <1>2, FS_Union
<1>4. ToSet(scan.signals) \subseteq Signals
  BY <1>1 DEF ToSet
<1> QED
  BY <1>1, <1>3, <1>4 DEF Found

\* All that was priced from the same forecasts costs less than the dollar: the
\* shares of the whole lie side by side in it, and each price is below its own.
LEMMA PortfolioCheap ==
  ASSUME EnsembleAssumption, WeatherStrategyAssumption, Exclusive, Typed, Priced
  PROVE  PortfolioBelowOne
<1> SUFFICES ASSUME NEW forecasts \in {f.forecasts : f \in Found}
             PROVE  SumFunction([f \in {g \in Found : g.forecasts = forecasts} |-> f.price]) < 200
  BY DEF PortfolioBelowOne, Found
<1> DEFINE G == {g \in Found : g.forecasts = forecasts}
           members == Members(forecasts, bias)
           whole == Whole(members)
           price == [g \in G |-> g.price]
           from == [g \in G |-> From(members, MarketOf(g))]
           upto == [g \in G |-> Upto(members, MarketOf(g))]
           length == [g \in G |-> upto[g] - from[g]]
           cost == [g \in G |-> whole * price[g]]
           worth == [g \in G |-> 200 * length[g]]
           gain == [g \in G |-> worth[g] - cost[g]]
           Sum_(f) == SumFunctionOnSet(f, G)
<1>1. Found \subseteq Signals /\ IsFiniteSet(Found)
  BY FoundFinite
<1>2. G \subseteq Signals /\ G \subseteq Found /\ IsFiniteSet(G) /\ G # {}
  <2>1. G \subseteq Found /\ G # {}
    OBVIOUS
  <2> HIDE DEF G
  <2> QED
    BY <1>1, <2>1, FS_Subset
<1>3. /\ exchange \in Exchanges /\ exchange \in {"kalshi", "polymarket"}
      /\ board \in Boards[exchange] /\ bias \in Int
  BY DEF Typed, Clocks, WeatherStrategyAssumption
<1>4. forecasts \in Means
  BY <1>1 DEF Signals
<1>5. Mixture(members) /\ whole \in Nat /\ whole > 0
  BY <1>3, <1>4, MeansMix, ExceedanceFalls, 0 \in Int, 0 <= 0
<1>6. \A g \in G : MarketOf(g) \in Readable(exchange, board) /\ FromMarket(g, MarketOf(g))
  BY <1>2 DEF MarketOf, Priced
<1>7. Readable(exchange, board) \subseteq RawMarkets
  BY <1>3, ReadableRaw
<1>8. ASSUME NEW g \in G
      PROVE  /\ from[g] \in Nat /\ upto[g] \in Nat /\ from[g] < upto[g] /\ upto[g] <= whole
             /\ whole * price[g] < 200 * length[g] /\ length[g] = upto[g] - from[g]
             /\ price[g] \in Int
  <2>1. g.forecasts = forecasts /\ g \in Signals
    BY <1>2
  <2>2. MarketOf(g) \in RawMarkets /\ FromMarket(g, MarketOf(g))
    BY <1>6, <1>7
  <2>3. Members(g.forecasts, bias) = members
    BY <2>1
  <2>4. /\ From(members, MarketOf(g)) \in Nat /\ Upto(members, MarketOf(g)) \in Nat
        /\ From(members, MarketOf(g)) < Upto(members, MarketOf(g))
        /\ Upto(members, MarketOf(g)) <= whole
        /\ whole * g.price < 200 * (Upto(members, MarketOf(g)) - From(members, MarketOf(g)))
    <3> HIDE DEF members
    <3> QED
      BY <1>3, <2>1, <2>2, <2>3, SignalCheap
  <2>5. /\ from[g] = From(members, MarketOf(g)) /\ upto[g] = Upto(members, MarketOf(g))
        /\ length[g] = upto[g] - from[g] /\ price[g] = g.price /\ g.price \in Int
    BY <2>1 DEF Signals
  <2> HIDE DEF from, upto, length, price, whole, members, G
  <2> QED
    BY <2>4, <2>5
<1>9. ASSUME NEW g \in G, NEW h \in G, g # h
      PROVE  upto[g] <= from[h] \/ upto[h] <= from[g]
  <2>1. g.ticker # h.ticker
    BY <1>2, <1>9 DEF Priced
  <2>2. MarketOf(g).ticker # MarketOf(h).ticker
    BY <1>6, <2>1 DEF FromMarket
  <2>3. \/ Precedes(exchange, MarketOf(g), MarketOf(h))
        \/ Precedes(exchange, MarketOf(h), MarketOf(g))
    BY <1>3, <1>6, <2>2 DEF Exclusive
  <2>4. MarketOf(g) \in RawMarkets /\ MarketOf(h) \in RawMarkets
    BY <1>6, <1>7
  <2>5. \/ Upto(members, MarketOf(g)) <= From(members, MarketOf(h))
        \/ Upto(members, MarketOf(h)) <= From(members, MarketOf(g))
    <3> HIDE DEF members
    <3> QED
      BY <1>3, <1>5, <2>3, <2>4, SharesApart
  <2> QED
    BY <2>5
<1>10. \A g \in G : /\ length[g] \in Int /\ length[g] > 0
                    /\ cost[g] = whole * price[g] /\ worth[g] = 200 * length[g]
                    /\ gain[g] = worth[g] - cost[g] /\ price[g] \in Int
                    /\ cost[g] < worth[g] /\ cost[g] \in Int /\ worth[g] \in Int
  <2> TAKE g \in G
  <2>1. cost[g] = whole * price[g] /\ worth[g] = 200 * length[g] /\ gain[g] = worth[g] - cost[g]
    OBVIOUS
  <2> HIDE DEF from, upto, length, price, whole, cost, worth, gain, G
  <2>2. whole * price[g] \in Int
    BY <1>5, <1>8
  <2> QED
    BY <1>8, <2>1, <2>2
<1> HIDE DEF from, upto, length, price, cost, worth, gain, whole, members, G
<1>11. Sum_(length) <= whole
  <2>1. /\ \A g \in G : /\ from[g] \in Nat /\ upto[g] \in Nat /\ from[g] < upto[g]
                        /\ length[g] = upto[g] - from[g]
        /\ \A g \in G : upto[g] <= whole
    BY <1>8
  <2> QED
    BY <1>2, <1>5, <1>9, <2>1, SumApart
<1>12. Sum_(cost) = whole * Sum_(price) /\ Sum_(price) \in Int
  <2>1. \A g \in G : price[g] \in Int /\ cost[g] = whole * price[g]
    BY <1>10
  <2>2. Sum_(price) \in Int
    BY <1>2, <2>1, SumInt
  <2>3. whole \in Int
    BY <1>5
  <2>4. Sum_(cost) = whole * Sum_(price)
    BY <1>2, <2>1, <2>3, SumScaled
  <2> QED
    BY <2>2, <2>4
<1>13. Sum_(worth) = 200 * Sum_(length) /\ Sum_(length) \in Int
  <2>1. \A g \in G : length[g] \in Int /\ worth[g] = 200 * length[g]
    BY <1>10
  <2>2. Sum_(length) \in Int
    BY <1>2, <2>1, SumInt
  <2>3. Sum_(worth) = 200 * Sum_(length)
    BY <1>2, <2>1, SumScaled, 200 \in Int
  <2> QED
    BY <2>2, <2>3
<1>14. Sum_(gain) > 0 /\ Sum_(gain) \in Int
  <2>1. \A g \in G : gain[g] \in Nat /\ gain[g] > 0
    BY <1>10
  <2>2. PICK g \in G : TRUE
    BY <1>2
  <2>3. gain[g] <= Sum_(gain)
    BY <1>2, <2>1, <2>2, TermOfSum
  <2>4. Sum_(gain) \in Nat
    BY <1>2, <2>1, SumNat
  <2> HIDE DEF Sum_
  <2> QED
    BY <2>1, <2>2, <2>3, <2>4
<1>15. Sum_(worth) = Sum_(cost) + Sum_(gain)
  <2>1. \A g \in G : cost[g] \in Int /\ gain[g] \in Int /\ worth[g] = cost[g] + gain[g]
    BY <1>10
  <2> QED
    BY <1>2, <2>1, SumDifference
<1> DEFINE total == Sum_(price)
           all == Sum_(length)
           w == Sum_(worth)
           c == Sum_(cost)
           n == Sum_(gain)
<1>16. total < 200
  <2>1. /\ all <= whole /\ c = whole * total /\ total \in Int /\ all \in Int /\ w = 200 * all
        /\ n > 0 /\ n \in Int /\ w = c + n /\ whole \in Nat /\ whole > 0
    BY <1>5, <1>11, <1>12, <1>13, <1>14, <1>15
  <2> HIDE DEF total, all, w, c, n
  <2>2. whole * total < 200 * whole
    <3>1. w <= 200 * whole /\ w \in Int /\ 200 * whole \in Int
      BY <2>1
    <3>2. c \in Int
      BY <2>1
    <3>3. c < 200 * whole
      <4>1. w = c + n /\ n > 0 /\ n \in Int
        BY <2>1
      <4> QED
        BY <3>1, <3>2, <4>1
    <3> QED
      BY <2>1, <3>3
  <2>3. \A a, b \in Nat : a * (200 + b) >= 200 * a
    OBVIOUS
  <2> SUFFICES ASSUME total >= 200 PROVE FALSE
    BY <2>1
  <2>4. total - 200 \in Nat /\ 200 + (total - 200) = total
    BY <2>1
  <2>5. whole * total >= 200 * whole
    BY <2>1, <2>3, <2>4
  <2>6. whole * total \in Int /\ 200 * whole \in Int
    BY <2>1
  <2> QED
    BY <2>2, <2>5, <2>6
<1>17. SumFunction([f \in G |-> f.price]) = total
  BY DEF SumFunction, price
<1> QED
  BY <1>16, <1>17 DEF G

\* The signals of one scan, priced from the same forecasts, cost less than the
\* one dollar that at most one of them pays, for every mixture of models, bias
\* and board: the markets' sides and half-open buckets give each outcome its
\* own share of the mixture (_scan_kalshi, _parse_bucket, evaluate).
THEOREM PortfolioBelowOneHolds ==
  ASSUME EnsembleAssumption, WeatherStrategyAssumption, Exclusive
  PROVE  Spec => []PortfolioBelowOne
<1>1. Typed /\ Priced /\ Waiting => PortfolioBelowOne
  BY PortfolioCheap
<1> QED
  BY <1>1, PricedAlways, PTL

-----------------------------------------------------------------------------
(* What the backtest trades *)

\* Closing an event leaves its questions as they are.
LEMMA ClosedBucket ==
  ASSUME NEW raw \in RawMarkets, NEW result
  PROVE  /\ Closed(raw, result).ticker = raw.ticker
         /\ Bucket(Closed(raw, result)) = Bucket(raw)
         /\ InBucket(Bucket(raw), result) => BucketPrice(Closed(raw, result)) = 200
<1> DEFINE price  == IF InBucket(Bucket(raw), result) THEN 100 ELSE 0
           closed == [raw EXCEPT !.last = price]
<1>1. Closed(raw, result) = closed
  BY DEF Closed
<1>2. InBucket(Bucket(raw), result) => price = 100
  OBVIOUS
<1> HIDE DEF price
<1>3. /\ closed.last = price /\ closed.ticker = raw.ticker /\ closed.question = raw.question
      /\ closed.low = raw.low /\ closed.high = raw.high
  BY DEF RawMarkets
<1> HIDE DEF closed
<1>4. closed.ticker = raw.ticker /\ Bucket(closed) = Bucket(raw)
  BY <1>3 DEF Bucket
<1>5. price = 100 => BucketPrice(closed) = 200
  BY <1>3 DEF BucketPrice
<1> QED
  BY <1>1, <1>2, <1>4, <1>5

\* A price of a dollar leaves no edge.
LEMMA NothingAtADollar ==
  ASSUME EnsembleAssumption, WeatherStrategyAssumption,
         NEW members, Mixture(members), DOMAIN members # {}, NEW raw \in RawMarkets,
         NEW closed, Bucket(closed) = Bucket(raw), BucketPrice(closed) = 200
  PROVE  ~Signalled(members, closed)
<1> DEFINE low   == Below(members, Bucket(raw).low)
           high  == Below(members, Bucket(raw).high)
           prob  == BucketProb(members, closed)
           whole == Whole(members)
           pct   == Floor(Role(members, closed))
<1>1. Bucket(raw).low \in Int /\ Bucket(raw).high \in Int
  <2>1. raw.low \in Int /\ raw.high \in Int
    BY DEF RawMarkets
  <2> QED
    BY <2>1 DEF Bucket, Infinity
<1>2. low \in Nat /\ high \in Nat /\ high <= whole
  <2>1. low \in Nat
    BY <1>1, BelowRises
  <2>2. high \in Nat /\ high <= 100 * Total(members)
    BY <1>1, BelowRises
  <2> QED
    BY <2>1, <2>2 DEF Whole
<1>3. whole \in Nat /\ whole > 0
  BY ExceedanceFalls, 0 \in Int, 0 <= 0
<1>4. prob = high - low
  BY DEF BucketProb, IntervalProb
<1>5. pct \in Nat /\ pct > 0
  BY DEF Floor, WeatherStrategyAssumption
<1> SUFFICES ASSUME EdgeReaches(prob, whole, 200, pct) PROVE FALSE
  BY DEF Signalled
<1> HIDE DEF low, high, prob, whole, pct
<1>6. prob \in Int /\ prob <= whole
  BY <1>2, <1>3, <1>4
<1>7. Edge(prob, whole, 200) > 0
  BY <1>3, <1>5, <1>6, EdgePositive
<1> QED
  BY <1>3, <1>6, <1>7 DEF Edge

\* The buckets of a closed record are what the scanner reads of the event.
ClosedReadable(result) == {Closed(raw, result) : raw \in Readable(exchange, board)}

LEMMA RecordedReadable ==
  ASSUME WeatherStrategyAssumption, exchange = "polymarket", exchange \in Exchanges,
         board \in Boards[exchange], NEW i \in DOMAIN board, NEW result, NEW liquidity,
         NEW record, record = FlattenEvent(FlattenSeq(board[i]), result, liquidity)
  PROVE  ToSet(record.buckets) \subseteq ClosedReadable(result)
<1> SUFFICES ASSUME NEW closed \in ToSet(record.buckets)
             PROVE  \E raw \in Readable(exchange, board) : closed = Closed(raw, result)
  BY DEF ClosedReadable
<1> DEFINE raws    == FlattenSeq(board[i])
           places  == {p \in DOMAIN raws : raws[p].legible /\ raws[p].question # "none"}
           markets == Kept(raws, places)
           buckets == [k \in DOMAIN markets |-> Closed(markets[k], result)]
<1>1. closed \in ToSet(buckets)
  BY DEF FlattenEvent, PolymarketMarkets
<1>2. board[i] \in Seq(Seq(RawMarkets))
  BY DEF WeatherStrategyAssumption
<1>3. /\ raws \in Seq(RawMarkets)
      /\ \A e : e \in ToSet(raws) <=> \E k \in 1..Len(board[i]) : e \in ToSet(board[i][k])
  <2>1. DOMAIN board[i] = 1..Len(board[i]) /\ Len(board[i]) \in Nat
    BY <1>2
  <2> QED
    BY <1>2, <2>1, FlatEntries
<1>4. ToSet(raws) \subseteq Quoted(board)
  <2> SUFFICES ASSUME NEW e \in ToSet(raws) PROVE e \in Quoted(board)
    OBVIOUS
  <2>1. PICK k \in DOMAIN board[i] : e \in ToSet(board[i][k])
    BY <1>2, <1>3
  <2>2. board[i][k] \in ToSet(board[i])
    BY <2>1 DEF ToSet
  <2> QED
    BY <2>1, <2>2, QuotedIs
<1> HIDE DEF raws
<1>5. markets \in Seq(RawMarkets) /\ ToSet(markets) = {raws[p] : p \in places}
  <2>1. places \subseteq DOMAIN raws
    OBVIOUS
  <2> HIDE DEF places
  <2> QED
    BY <1>3, <2>1, KeptEntries
<1> HIDE DEF markets
<1>6. PICK k \in DOMAIN markets : closed = Closed(markets[k], result)
  BY <1>1 DEF ToSet
<1>7. markets[k] \in ToSet(markets)
  BY DEF ToSet
<1>8. PICK p \in places : markets[k] = raws[p]
  BY <1>5, <1>7
<1>9. raws[p] \in Quoted(board)
  BY <1>4 DEF ToSet
<1>10. raws[p] \in Readable(exchange, board)
  BY <1>8, <1>9 DEF Readable
<1> QED
  BY <1>6, <1>8, <1>10

\* No reading pays two buckets of an event.
LEMMA OneBucketPays ==
  ASSUME Exclusive, exchange = "polymarket", exchange \in Exchanges, board \in Boards[exchange],
         NEW a \in Readable(exchange, board), NEW c \in Readable(exchange, board),
         a \in RawMarkets, c \in RawMarkets, NEW reading \in Int,
         InBucket(Bucket(a), reading), InBucket(Bucket(c), reading)
  PROVE  a.ticker = c.ticker
<1>1. ASSUME NEW x \in RawMarkets, NEW y \in RawMarkets, Precedes("polymarket", x, y)
      PROVE  ~(InBucket(Bucket(x), reading) /\ InBucket(Bucket(y), reading))
  <2>1. x.high \in Int /\ y.low \in Int
    BY DEF RawMarkets
  <2>2. /\ x.question \in {"range", "below"} /\ y.question # "below" /\ x.high < y.low
    BY <1>1 DEF Precedes
  <2>3. Bucket(x).high = x.high + 1 /\ Bucket(y).low = y.low
    BY <2>2 DEF Bucket
  <2> QED
    BY <2>1, <2>2, <2>3 DEF InBucket
<1>2. a.ticker # c.ticker => Precedes(exchange, a, c) \/ Precedes(exchange, c, a)
  BY DEF Exclusive
<1> QED
  BY <1>1, <1>2

\* A trade is one of a signal at some as-of time.
LEMMA TradeOfSignal ==
  ASSUME NEW record, NEW archive, NEW actual, NEW priceAt,
         NEW trade \in ReplayTrades(record, archive, actual, priceAt)
  PROVE  \E t \in AsOfs : \E closed \in SignalsFor(record, archive[t]) :
           trade.market = closed /\ trade.won = InBucket(Bucket(closed), actual)
<1> DEFINE Fill(raw) == IF raw.ticker \in DOMAIN priceAt THEN priceAt[raw.ticker]
                        ELSE BucketPrice(raw)
           Traded(t) == {raw \in SignalsFor(record, archive[t]) :
                           ReplayAccepts(record) /\ 0 < Fill(raw) /\ Fill(raw) < 200}
           Won(raw)  == InBucket(Bucket(raw), actual)
           Booked(t) == {[market |-> raw, asOf |-> t, fill |-> Fill(raw), won |-> Won(raw)] :
                           raw \in Traded(t)}
<1>1. trade \in UNION {Booked(t) : t \in AsOfs}
  BY Zenon DEF ReplayTrades
<1> HIDE DEF Fill, Won
<1>2. PICK t \in AsOfs : trade \in Booked(t)
  BY <1>1
<1>3. PICK closed \in Traded(t) :
        trade = [market |-> closed, asOf |-> t, fill |-> Fill(closed), won |-> Won(closed)]
  BY <1>2
<1>4. closed \in SignalsFor(record, archive[t])
  OBVIOUS
<1>5. trade.market = closed /\ trade.won = Won(closed)
  BY <1>3
<1> QED
  BY <1>4, <1>5 DEF Won

LEMMA ReplayLoses ==
  ASSUME EnsembleAssumption, WeatherStrategyAssumption, ReplayAssumption, Exclusive, Typed
  PROVE  HindsightNeverPays
<1> SUFFICES ASSUME exchange = "polymarket", NEW i \in DOMAIN board, NEW result \in Readings,
                    NEW liquidity \in {0, MinLiquidity}, NEW archive \in [AsOfs -> Answers],
                    NEW actual \in Readings \cup {NoReading}, NEW priceAt
             PROVE  NothingWon(ReplayTrades(FlattenEvent(FlattenSeq(board[i]), result, liquidity),
                                            archive, actual, priceAt), result, actual)
  BY Zenon DEF HindsightNeverPays
<1> DEFINE record == FlattenEvent(FlattenSeq(board[i]), result, liquidity)
           trades == ReplayTrades(record, archive, actual, priceAt)
<1>1. exchange \in Exchanges /\ board \in Boards[exchange]
  BY DEF Typed, Clocks
<1>2. actual \in Int
  <2>1. NoReading \in Int
    BY DEF NoReading
  <2>2. \A reading \in Readings : reading \in Int
    BY DEF ReplayAssumption
  <2> QED
    BY <2>1, <2>2
<1>3. ToSet(record.buckets) \subseteq ClosedReadable(result)
  <2>1. record = FlattenEvent(FlattenSeq(board[i]), result, liquidity)
    OBVIOUS
  <2> HIDE DEF record
  <2> QED
    BY <1>1, <2>1, RecordedReadable
<1> HIDE DEF record
<1>4. ASSUME NEW trade \in trades
      PROVE  \E raw \in Readable(exchange, board) :
               /\ raw \in RawMarkets /\ trade.market.ticker = raw.ticker
               /\ Bucket(trade.market) = Bucket(raw) /\ ~InBucket(Bucket(raw), result)
               /\ trade.won = InBucket(Bucket(raw), actual)
  <2>1. PICK t \in AsOfs : \E closed \in SignalsFor(record, archive[t]) :
          trade.market = closed /\ trade.won = InBucket(Bucket(closed), actual)
    BY TradeOfSignal
  <2> PICK closed \in SignalsFor(record, archive[t]) :
        trade.market = closed /\ trade.won = InBucket(Bucket(closed), actual)
    BY <2>1
  <2> DEFINE members == Members(archive[t], 0)
  <2>2. /\ closed \in ToSet(record.buckets) /\ DOMAIN members # {}
        /\ Signalled(members, closed)
    BY DEF SignalsFor
  <2>3. PICK raw \in Readable(exchange, board) : closed = Closed(raw, result)
    BY <1>3, <2>2 DEF ClosedReadable
  <2>4. raw \in RawMarkets
    BY <1>1, ReadableRaw
  <2>5. /\ closed.ticker = raw.ticker /\ Bucket(closed) = Bucket(raw)
        /\ InBucket(Bucket(raw), result) => BucketPrice(closed) = 200
    BY <2>3, <2>4, ClosedBucket
  <2>6. Mixture(members)
    <3>1. PICK D \in SUBSET SourcesFor(IsUs) : archive[t] \in [D -> Readings]
      BY DEF Answers
    <3>2. archive[t] \in [D -> Int]
      BY <3>1 DEF ReplayAssumption
    <3>3. archive[t] \in Means
      BY <3>2 DEF Means
    <3> QED
      BY <3>3, MeansMix, 0 \in Int
  <2>7. ~InBucket(Bucket(raw), result)
    <3> SUFFICES ASSUME InBucket(Bucket(raw), result) PROVE FALSE
      OBVIOUS
    <3>1. BucketPrice(closed) = 200 /\ Bucket(closed) = Bucket(raw)
      BY <2>5
    <3> HIDE DEF members
    <3> QED
      <4>1. \A m, c : Mixture(m) /\ DOMAIN m # {} /\ Bucket(c) = Bucket(raw) /\ BucketPrice(c) = 200
              => ~Signalled(m, c)
        BY <2>4, NothingAtADollar
      <4> QED
        BY <4>1, <2>2, <2>6, <3>1
  <2> QED
    BY <2>3, <2>4, <2>5, <2>7
<1> HIDE DEF trades
<1>5. ASSUME NEW trade \in trades
      PROVE  /\ ~InBucket(Bucket(trade.market), result)
             /\ trade.won => actual # result
  <2>1. PICK raw \in Readable(exchange, board) :
          /\ Bucket(trade.market) = Bucket(raw) /\ ~InBucket(Bucket(raw), result)
          /\ trade.won = InBucket(Bucket(raw), actual)
    BY <1>4
  <2> QED
    BY <2>1
<1>6. ASSUME NEW trade \in trades, NEW other \in trades, trade.won, other.won
      PROVE  trade.market.ticker = other.market.ticker
  <2>1. PICK a \in Readable(exchange, board) :
          /\ a \in RawMarkets /\ trade.market.ticker = a.ticker
          /\ InBucket(Bucket(a), actual)
    BY <1>4, <1>6
  <2>2. PICK c \in Readable(exchange, board) :
          /\ c \in RawMarkets /\ other.market.ticker = c.ticker
          /\ InBucket(Bucket(c), actual)
    BY <1>4, <1>6
  <2> QED
    BY <1>1, <1>2, <2>1, <2>2, OneBucketPays
<1>7. NothingWon(trades, result, actual)
  BY <1>5, <1>6 DEF NothingWon
<1> QED
  BY <1>7 DEF trades, record

\* Whatever the archives and the exchange answer, for every event, mixture, set
\* of edges, as-of times and fills, on an exchange none of whose readings pays
\* two buckets: the backtest trades no bucket the exchange paid, so it books a
\* win only where the measured reading contradicts the exchange, and on one
\* market at most (adapters/weather.py signals_for and settle, runner.py run).
\* No reachable state is needed but for the board.
THEOREM HindsightNeverPaysHolds ==
  ASSUME EnsembleAssumption, WeatherStrategyAssumption, ReplayAssumption, Exclusive
  PROVE  Spec => []HindsightNeverPays
<1>1. Typed => HindsightNeverPays
  BY ReplayLoses
<1> QED
  BY <1>1, PricedAlways, PTL
=============================================================================
