-------------------------- MODULE WeatherStrategy --------------------------
(***************************************************************************)
(* One instance of the weather strategy (strategies/weather/strategy.py)   *)
(* in its strategy_loop (main.py): when it scans, the listing, the         *)
(* forecasts gathered through the client's cache (strategies/weather/      *)
(* noaa.py), the signals and the intents, for the markets of one city and  *)
(* day.                                                                    *)
(*                                                                         *)
(* On Kalshi the markets are priced one after the other, each with its own *)
(* gather over the models, and errors are swallowed. On Polymarket one     *)
(* gather serves all buckets of the event, and an error leaves the scan.   *)
(* A gather that raises leaves its other fetches in flight: they still     *)
(* fill the cache. Time is a tick of market_scan_interval_sec.             *)
(***************************************************************************)
EXTENDS WeatherMarkets

CONSTANTS
  Exchanges,          \* subset of {"kalshi", "polymarket"}
  Boards,             \* exchange -> the boards it may have, each the pages of each series
  Series,             \* the series, or Gamma's tags, in the order they are asked
  Metric,             \* "highest" or "lowest", of every market of the board
  IsUs,               \* whether the station lies in the US
  HourlySeries,       \* what a model may answer: sets of [day, temp]
  TargetDay,          \* the day the markets are about
  Biases,             \* the city's per_city_bias_f
  MinEdge, AdjacentMinEdge, MaxEdge, MinProb,   \* per cent
  TradeAdjacent,      \* trade_adjacent_buckets
  MinLiquidity, MinVolume, MaxSpread,
  MinHours, MaxHours, \* the window before the markets' end, in ticks
  EndsAt,             \* when the markets end
  Interval,           \* scan_interval_sec
  ScanOnRun,          \* scan_on_model_update
  RunTimes,           \* when GFS runs are published
  Ttl,                \* the forecast cache's time to live
  MaxNow,             \* bound on time
  MaxFlights          \* bound on the fetches in flight at once

ASSUME WeatherStrategyAssumption ==
  /\ Exchanges \subseteq {"kalshi", "polymarket"}
  /\ 0 \in RunTimes /\ RunTimes \subseteq Nat /\ Interval \in Nat \ {0}
  /\ {MinEdge, AdjacentMinEdge} \subseteq Nat \ {0} /\ MinLiquidity \in Nat
  /\ EndsAt \in Nat /\ MaxNow \in Nat /\ Biases \subseteq Int
  /\ \A h \in HourlySeries : IsFiniteSet(h) /\ \A r \in h : r.temp \in Int
  /\ Series \in Seq(STRING)
  /\ \A e \in Exchanges : \A b \in Boards[e] :
       DOMAIN b = DOMAIN Series /\ \A i \in DOMAIN b : b[i] \in Seq(Seq(RawMarkets))

VARIABLES
  exchange, board, bias,
  now,        \* the clock
  nextPoll,   \* when strategy_loop comes round again
  last,       \* _last_scan_at, Never before the first scan
  seen,       \* _last_run_boundary_seen
  scan,       \* the scan under way
  cache,      \* model -> [at, readings], at = Never when absent
  flights,    \* fetches in flight: [source, at, awaited]
  begun,      \* history: when the last scan began
  paced       \* history: [early: runs that caused an early scan, hasty,
              \*           raised: the last scan did, sound: when the last scan
              \*           before it that did not raise began]

vars == <<exchange, board, bias, now, nextPoll, last, seen, scan, cache,
          flights, begun, paced>>

Never == -1

Idle == [phase |-> "idle", todo |-> <<>>, got |-> <<>>, signals |-> <<>>,
         intents |-> {}]

\* A Kalshi signal or a bucket's, with the forecasts it was priced from.
Signal(raw, price, prob, members, role, forecasts) ==
  [ticker |-> raw.ticker, price |-> price, prob |-> prob,
   whole |-> Whole(members), role |-> role,
   liquidity |-> IF exchange = "kalshi" THEN 0 ELSE raw.liquidity,
   forecasts |-> forecasts]

\* Edges are per cents of a dollar, scaled by 2 * whole.
Edge(prob, whole, price) == 200 * prob - price * whole
EdgeReaches(prob, whole, price, pct) == Edge(prob, whole, price) >= 2 * pct * whole
EdgeExceeds(prob, whole, price, pct) == Edge(prob, whole, price) > 2 * pct * whole

Init ==
  /\ exchange \in Exchanges
  /\ board \in Boards[exchange]
  /\ bias \in Biases
  /\ now = 0
  /\ nextPoll = 0
  /\ last = Never
  /\ seen = Never
  /\ scan = Idle
  /\ cache = [s \in Sources |-> [at |-> Never, readings |-> {}]]
  /\ flights = {}
  /\ begun = Never
  /\ paced = [early |-> {}, hasty |-> FALSE, raised |-> FALSE, sound |-> Never]

-----------------------------------------------------------------------------
(* When to scan. *)

\* Mutation: a run is found only after its own hour.
LatestRunLate(t) == IF t = 0 THEN 0 ELSE Max({r \in RunTimes : r < t})

LatestRun(t) == Max({r \in RunTimes : r <= t})

DueByInterval == last = Never \/ now - last >= Interval

DueByRun ==
  /\ ~DueByInterval
  /\ ScanOnRun
  /\ LatestRun(now) > last
  /\ LatestRun(now) # seen

\* Mutation: the run that caused the scan is not remembered.
RunForgotten == UNCHANGED seen

RememberRun == seen' = IF DueByRun THEN LatestRun(now) ELSE seen

\* History: a scan is early when it begins less than an interval after the last
\* one that did not raise. It is hasty when no run came in between, or that run
\* has caused an early scan already.
LastSound == IF paced.raised THEN paced.sound ELSE begun
Early == LastSound # Never /\ now - LastSound < Interval

NotePace ==
  paced' = [early  |-> IF Early THEN paced.early \cup {LatestRun(now)} ELSE paced.early,
            hasty  |-> \/ paced.hasty
                       \/ Early /\ (LatestRun(now) <= LastSound \/ LatestRun(now) \in paced.early),
            raised |-> FALSE,
            sound  |-> LastSound]

Sleep == nextPoll' = now + 1

\* strategy_loop with the risk manager halted or the balance low.
PollHalted ==
  /\ scan.phase = "idle" /\ now >= nextPoll
  /\ Sleep
  /\ UNCHANGED <<exchange, board, bias, now, last, seen, scan, cache, flights,
                 begun, paced>>

\* scan() returns no signals at once.
PollEarly ==
  /\ scan.phase = "idle" /\ now >= nextPoll
  /\ ~DueByInterval /\ ~DueByRun
  /\ Sleep
  /\ UNCHANGED <<exchange, board, bias, now, last, seen, scan, cache, flights,
                 begun, paced>>

\* Kalshi stamps the scan before it asks for the listing.
BeginScan ==
  /\ scan.phase = "idle" /\ now >= nextPoll
  /\ DueByInterval \/ DueByRun
  /\ RememberRun
  /\ last' = IF exchange = "kalshi" THEN now ELSE last
  /\ scan' = [Idle EXCEPT !.phase = "listing"]
  /\ begun' = now
  /\ NotePace
  /\ UNCHANGED <<exchange, board, bias, now, nextPoll, cache, flights>>

\* The scan ends without an exception: Polymarket stamps it now.
Stamped == IF exchange = "polymarket" THEN now ELSE last

\* scan() raises: strategy_loop logs it and sleeps. The scan is not stamped, so
\* one that was due by the interval is due again at the next poll.
Raise ==
  /\ scan' = Idle
  /\ Sleep
  /\ paced' = [paced EXCEPT !.raised = TRUE]
  /\ UNCHANGED last

-----------------------------------------------------------------------------
(* The listing. *)

Open(hours) == hours > 0 /\ hours <= MaxHours
InWindow(hours) == MinHours <= hours /\ hours <= MaxHours
Liquid(raw) ==
  /\ Spread(raw) # NoSpread /\ Spread(raw) <= MaxSpread
  /\ raw.volume >= MinVolume

\* The markets a scan goes on to price, from the pages that answered.
Listed(answered) ==
  LET raws  == FlattenSeq([i \in DOMAIN Series |-> SeriesListing(board[i], answered[i])])
      unique == Unique(raws)
      hours  == EndsAt - now
      listed == IF exchange = "kalshi" THEN KalshiMarkets(unique)
                ELSE PolymarketMarkets(unique)
  IN Kept(listed, {i \in DOMAIN listed :
                     IF exchange = "kalshi" THEN InWindow(hours) /\ Liquid(listed[i])
                     ELSE Open(hours)})

\* The pages of the longest series.
Longest == Max({0} \cup {Len(board[i]) : i \in DOMAIN board})

\* A page that fails ends its series and keeps the pages before it.
List ==
  /\ scan.phase = "listing"
  /\ \E answered \in [DOMAIN Series -> 0..Longest] :
       /\ \A i \in DOMAIN Series : answered[i] <= Len(board[i])
       /\ IF Listed(answered) = <<>>
          THEN /\ scan' = Idle /\ Sleep /\ last' = Stamped
          ELSE /\ scan' = [scan EXCEPT !.phase = "pricing", !.todo = Listed(answered)]
               /\ UNCHANGED <<nextPoll, last>>
  /\ UNCHANGED <<exchange, board, bias, now, seen, cache, flights, begun, paced>>

\* Gamma's request times out, which _get does not catch.
ListingTimesOut ==
  /\ scan.phase = "listing"
  /\ exchange = "polymarket"
  /\ Raise
  /\ UNCHANGED <<exchange, board, bias, now, seen, cache, flights, begun>>

-----------------------------------------------------------------------------
(* The forecasts. *)

NoReading == -1000

\* get_daily_extreme: the day's highest or lowest hourly reading.
DailyExtreme(readings) ==
  LET inDay == {r.temp : r \in {x \in readings : x.day = TargetDay}}
  IN IF inDay = {} THEN NoReading
     ELSE IF Metric = "highest" THEN Max(inDay) ELSE Min(inDay)

Fresh(s) == cache[s].at # Never /\ now - cache[s].at < Ttl

\* fetch_member_forecasts: one fetch per model whose cache entry has expired;
\* the entry will carry the time of asking.
Gather ==
  /\ scan.phase = "pricing"
  /\ LET stale == {s \in SourcesFor(IsUs) : ~Fresh(s)}
     IN /\ flights' = flights \cup
             [source : stale, at : {now}, awaited : {TRUE}]
        /\ scan' = [scan EXCEPT
             !.phase = "gathering",
             !.got   = [s \in SourcesFor(IsUs) \ stale |-> DailyExtreme(cache[s].readings)]]
  /\ Cardinality(flights') <= MaxFlights
  /\ UNCHANGED <<exchange, board, bias, now, nextPoll, last, seen, cache, begun,
                 paced>>

\* A model answers, or {}: it failed, refused, or had nothing. Only an answer
\* with readings is cached.
Answer(f, readings) ==
  /\ flights' = flights \ {f}
  /\ cache' = IF readings = {} THEN cache
              ELSE [cache EXCEPT ![f.source] = [at |-> f.at, readings |-> readings]]
  /\ scan' = IF f.awaited
             THEN [scan EXCEPT !.got = [s \in DOMAIN @ \cup {f.source} |->
                     IF s = f.source THEN DailyExtreme(readings) ELSE @[s]]]
             ELSE scan
  /\ UNCHANGED <<exchange, board, bias, now, nextPoll, last, seen, begun, paced>>

\* Kalshi turns to the next market.
NextMarket(signals) ==
  scan' = [scan EXCEPT !.phase   = IF Len(scan.todo) = 1 THEN "evaluating" ELSE "pricing",
                       !.todo    = Tail(@),
                       !.got     = <<>>,
                       !.signals = signals]

\* Kalshi skips the market whose gather raises, Polymarket's scan is over.
GatherRaises ==
  IF exchange = "kalshi"
  THEN NextMarket(scan.signals) /\ UNCHANGED <<nextPoll, last, paced>>
  ELSE Raise

\* Mutation: the other fetches are still taken for awaited after a raise.
RaisesAlone(f) ==
  /\ flights' = flights \ {f}
  /\ IF f.awaited THEN GatherRaises ELSE UNCHANGED <<scan, nextPoll, last, paced>>
  /\ UNCHANGED <<exchange, board, bias, now, seen, cache, begun>>

\* An answer that does not parse raises out of its gather, whose other fetches
\* go on unawaited. Nobody hears the one of a gather that has raised before.
AnswerRaises(f) ==
  /\ IF f.awaited
     THEN /\ flights' = {[g EXCEPT !.awaited = FALSE] : g \in flights \ {f}}
          /\ GatherRaises
     ELSE /\ flights' = flights \ {f}
          /\ UNCHANGED <<scan, nextPoll, last, paced>>
  /\ UNCHANGED <<exchange, board, bias, now, seen, cache, begun>>

FetchEnds == \E f \in flights :
  \/ AnswerRaises(f)
  \/ \E readings \in HourlySeries \cup {{}} : Answer(f, readings)

-----------------------------------------------------------------------------
(* Signals. *)

Forecasts == [s \in {q \in DOMAIN scan.got : scan.got[q] # NoReading} |-> scan.got[s]]

\* A Kalshi market is a signal when its edge lies in [MinEdge, MaxEdge].
KalshiSignals(raw, forecasts) ==
  LET members == Members(forecasts, bias)
      prob    == KalshiProb(members, raw)
      whole   == Whole(members)
      price   == YesPrice(raw)
  IN IF /\ DOMAIN forecasts # {}
        /\ EdgeReaches(prob, whole, price, MinEdge)
        /\ ~EdgeExceeds(prob, whole, price, MaxEdge)
     THEN <<Signal(raw, price, prob, members, "primary", forecasts)>>
     ELSE <<>>

\* The bucket with the point estimate is primary, the others adjacent.
Role(members, raw) ==
  IF PointIn(members, Bucket(raw).low, Bucket(raw).high) THEN "primary" ELSE "adjacent"

Floor(role) == IF role = "primary" THEN MinEdge ELSE AdjacentMinEdge

BucketProb(members, raw) == IntervalProb(members, Bucket(raw).low, Bucket(raw).high)

\* A bucket is a signal when its role is traded and its edge clears the floor.
Signalled(members, raw) ==
  LET role == Role(members, raw)
  IN /\ role = "primary" \/ TradeAdjacent
     /\ EdgeReaches(BucketProb(members, raw), Whole(members), BucketPrice(raw), Floor(role))

EventSignals(raws, forecasts) ==
  LET members == Members(forecasts, bias)
      Of(raw) == Signal(raw, BucketPrice(raw), BucketProb(members, raw), members,
                        Role(members, raw), forecasts)
      chosen  == Kept(raws, {i \in DOMAIN raws : Signalled(members, raws[i])})
  IN IF DOMAIN members = {} \/ ~Agree(members) THEN <<>>
     ELSE [i \in DOMAIN chosen |-> Of(chosen[i])]

\* Every model of the gather has answered.
Price ==
  /\ scan.phase = "gathering"
  /\ DOMAIN scan.got = SourcesFor(IsUs)
  /\ IF exchange = "kalshi"
     THEN /\ NextMarket(scan.signals \o KalshiSignals(Head(scan.todo), Forecasts))
          /\ UNCHANGED last
     ELSE /\ scan' = [scan EXCEPT !.phase = "evaluating", !.todo = <<>>, !.got = <<>>,
                                  !.signals = EventSignals(scan.todo, Forecasts)]
          /\ last' = now
  /\ UNCHANGED <<exchange, board, bias, now, nextPoll, seen, cache, flights, begun,
                 paced>>

\* evaluate(): the gates of a signal.
Accepts(signal) ==
  /\ EdgeReaches(signal.prob, signal.whole, signal.price, Floor(signal.role))
  /\ 100 * signal.prob >= MinProb * signal.whole
  /\ ~EdgeExceeds(signal.prob, signal.whole, signal.price, MaxEdge)
  /\ signal.liquidity >= MinLiquidity
  /\ InWindow(EndsAt - now)

\* strategy_loop takes the signals in order; the accepted are submitted.
Evaluate ==
  /\ scan.phase = "evaluating"
  /\ scan.signals # <<>>
  /\ scan' = [scan EXCEPT !.signals = Tail(@),
                          !.intents = IF Accepts(Head(scan.signals))
                                      THEN @ \cup {Head(scan.signals)} ELSE @]
  /\ UNCHANGED <<exchange, board, bias, now, nextPoll, last, seen, cache, flights,
                 begun, paced>>

EndScan ==
  /\ scan.phase = "evaluating"
  /\ scan.signals = <<>>
  /\ scan' = Idle
  /\ Sleep
  /\ UNCHANGED <<exchange, board, bias, now, last, seen, cache, flights, begun,
                 paced>>

Tick ==
  /\ now < MaxNow
  /\ now' = now + 1
  /\ UNCHANGED <<exchange, board, bias, nextPoll, last, seen, scan, cache, flights,
                 begun, paced>>

Next ==
  \/ PollHalted \/ PollEarly \/ BeginScan
  \/ List \/ ListingTimesOut
  \/ Gather \/ FetchEnds \/ Price
  \/ Evaluate \/ EndScan
  \/ Tick

Spec == Init /\ [][Next]_vars

-----------------------------------------------------------------------------
(* Properties. *)

Phases == {"idle", "listing", "pricing", "gathering", "evaluating"}

\* The machine stays in its types, and a fetch is awaited by a gather only.
TypeOK ==
  /\ exchange \in Exchanges /\ board \in Boards[exchange] /\ bias \in Biases
  /\ now \in 0..MaxNow /\ nextPoll \in 0..MaxNow + 1
  /\ last \in Never..now /\ begun \in Never..now
  /\ seen \in RunTimes \cup {Never}
  /\ scan.phase \in Phases
  /\ DOMAIN scan.got \subseteq SourcesFor(IsUs)
  /\ scan.phase # "evaluating" => exchange = "kalshi" \/ scan.signals = <<>>
  /\ \A s \in Sources : /\ cache[s].at \in Never..now
                        /\ cache[s].at # Never => cache[s].readings \in HourlySeries
  /\ \A f \in flights : f.awaited => scan.phase = "gathering" /\ f.source \notin DOMAIN scan.got
  /\ paced.early \subseteq RunTimes /\ {paced.hasty, paced.raised} \subseteq BOOLEAN
  /\ paced.sound \in Never..begun

\* Between two scans no model run is left unused: when strategy_loop comes
\* round and does not scan, a scan has begun since the latest run, or (on
\* Polymarket, which stamps a scan at its end) one was under way when the run
\* was published (_should_scan_now).
RunScanned ==
  scan.phase = "idle" /\ ScanOnRun /\ ~DueByInterval /\ ~DueByRun =>
    \A r \in RunTimes : r <= now =>
      r <= begun \/ (exchange = "polymarket" /\ r <= last)

\* A scan begins an interval after the last one that did not raise, or is the
\* first for a model run that came in between. So a scan that raises is not
\* begun again for the same run, while one that was due by the interval, and
\* that Polymarket leaves unstamped when it raises, is repeated at every poll
\* (_should_scan_now, _scan_polymarket, _last_run_boundary_seen).
ScanPaced == ~paced.hasty

\* What the exchange quotes on a board, and what the scanner can read of it.
Quoted(b) == UNION {UNION {ToSet(page) : page \in ToSet(b[i])} : i \in DOMAIN b}

Readable(e, b) ==
  {raw \in Quoted(b) : raw.legible /\ (e = "polymarket" => raw.question # "none")}

\* Every reading that pays a is below every reading that pays b, as their
\* questions put it: Polymarket's ranges include their upper degree.
Precedes(e, a, b) ==
  /\ a.question \in {"range", "below"} /\ b.question # "below"
  /\ e = "polymarket" => a.high < b.low
  /\ e = "kalshi" => (IF a.question = "range" THEN a.high ELSE a.low) <= b.low

\* The exchange's promise: no reading pays two of its markets.
Exclusive ==
  \A e \in Exchanges : \A b \in Boards[e] : \A a, c \in Readable(e, b) :
    a.ticker # c.ticker => Precedes(e, a, c) \/ Precedes(e, c, a)

\* The signals of one scan are bets on outcomes that exclude each other, so
\* buying all that were priced from the same forecasts costs less than the one
\* dollar at most one of them pays (_scan_kalshi's sides, _parse_bucket's
\* half-open buckets). Kalshi asks for forecasts anew for every market.
PortfolioBelowOne ==
  LET found == ToSet(scan.signals) \cup scan.intents
  IN \A forecasts \in {f.forecasts : f \in found} :
       SumFunction([f \in {g \in found : g.forecasts = forecasts} |-> f.price]) < 200
=============================================================================
