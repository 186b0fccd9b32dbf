--------------------------- MODULE WeatherMarkets ---------------------------
(***************************************************************************)
(* What the exchanges list and how the scanners read it: Kalshi's binary   *)
(* markets (strategies/weather/kalshi_markets.py) and Polymarket's event   *)
(* of buckets (strategies/weather/markets.py), for one city and day.       *)
(*                                                                         *)
(* A raw market is one record for both exchanges: its ticker, what its     *)
(* question says, the book in cents (0 where nothing rests), the last      *)
(* trade, traded volume, liquidity, and "legible": the ticker, the city    *)
(* and the unit parse and are tradeable. Prices read are in half cents.    *)
(***************************************************************************)
EXTENDS Integers, Sequences, SequencesExt, Ensemble

\* question: "range" (70 to 72), "below" (<, or below, under ...), "above", or
\* "none" when it states no direction
RawMarkets == [ticker : STRING, question : {"range", "below", "above", "none"},
               low : Int, high : Int, bid : 0..99, ask : 0..99, last : 0..99,
               volume : Nat, liquidity : Nat, legible : BOOLEAN]

\* Mutation: every market is read as "at least the threshold" (the behaviour
\* before Fix B).
AlwaysAbove(raw) == "above"

\* ">=" unless the question is a range or says below.
Side(raw) == IF raw.question \in {"range", "below"} THEN raw.question ELSE "above"

TwoSided(raw) == raw.bid > 0 /\ raw.ask > 0 /\ raw.ask >= raw.bid

\* The midpoint of a two-sided book, else the last trade, in half cents.
YesPrice(raw) == IF TwoSided(raw) THEN raw.bid + raw.ask ELSE 2 * raw.last

NoSpread == -1   \* spread is None: no two-sided book

Spread(raw) == IF TwoSided(raw) THEN raw.ask - raw.bid ELSE NoSpread

\* A loop over s that keeps what stands at some places.
Kept(s, places) ==
  LET kept[i \in 0..Len(s)] ==
        IF i = 0 THEN <<>>
        ELSE IF i \in places THEN Append(kept[i - 1], s[i]) ELSE kept[i - 1]
  IN kept[Len(s)]

\* Each ticker once, where it is listed first.
Unique(raws) ==
  Kept(raws, {i \in DOMAIN raws : \A j \in 1..(i - 1) : raws[j].ticker # raws[i].ticker})

\* One series' pages up to the one that failed.
SeriesListing(pages, answered) == Unique(FlattenSeq(SubSeq(pages, 1, answered)))

\* fetch_active_weather: unparsed, untradeable and unpriced markets are skipped.
KalshiMarkets(raws) ==
  Kept(raws, {i \in DOMAIN raws : raws[i].legible /\ YesPrice(raws[i]) > 0})

\* The chance of YES, respecting the side of the question, out of Whole.
KalshiProb(members, raw) ==
  LET high   == CdfExceedance(members, raw.high)
      exceed == CdfExceedance(members, raw.low)
  IN CASE Side(raw) = "below" -> Whole(members) - exceed
       [] Side(raw) = "range" -> IF exceed > high THEN exceed - high ELSE 0
       [] OTHER -> exceed

\* A bucket is half-open: the upper whole degree belongs to it.
Bucket(raw) ==
  CASE raw.question = "range" -> [low |-> raw.low, high |-> raw.high + 1]
    [] raw.question = "below" -> [low |-> -Infinity, high |-> raw.high + 1]
    [] OTHER -> [low |-> raw.low, high |-> Infinity]

\* _parse_event: a market whose question, unit or YES price does not parse is
\* skipped. outcomePrices is the last price, and may be 0 or 1.
PolymarketMarkets(raws) ==
  Kept(raws, {i \in DOMAIN raws : raws[i].legible /\ raws[i].question # "none"})

BucketPrice(raw) == 2 * raw.last

InBucket(bucket, reading) == bucket.low <= reading /\ reading < bucket.high
=============================================================================
