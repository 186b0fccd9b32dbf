------------------------------- MODULE Replay -------------------------------
(***************************************************************************)
(* The backtest of the weather strategy (backtesting/runner.py,            *)
(* adapters/weather.py, data_loader.py): which buckets of a closed event   *)
(* it trades, at which as-of times, at which fill, and what each trade     *)
(* pays.                                                                   *)
(*                                                                         *)
(* Three sources answer it, which need not agree: the exchange lists the   *)
(* closed event with its final prices, 1 for the bucket it paid and 0 for  *)
(* the others; the archive of forecasts, asked for every model at every    *)
(* as-of time; and the archive of what was measured, which settles the     *)
(* trades.                                                                 *)
(***************************************************************************)
EXTENDS WeatherStrategy

CONSTANTS
  Offsets,          \* as_of_offsets_hours
  ReplayStart,      \* the start of the backtest
  ReplayDeviation,  \* the deviation at which the adapter's own min_agreement is
  Readings,         \* what an archive or the exchange may take the day's extreme for
  Fills             \* the price a token may have had, the same at all as-of times

ASSUME ReplayAssumption == Readings \subseteq Int

\* A bucket after the exchange has settled the event on a reading.
Closed(raw, result) ==
  [raw EXCEPT !.last = IF InBucket(Bucket(raw), result) THEN 100 ELSE 0]

\* _flatten_event: one record per event, with the liquidity that is left.
FlattenEvent(raws, result, liquidity) ==
  [buckets   |-> LET markets == PolymarketMarkets(raws)
                 IN [i \in DOMAIN markets |-> Closed(markets[i], result)],
   liquidity |-> liquidity]

\* Mutation: an edge of either sign counts.
SignalsOfEitherSign(record, forecasts) ==
  LET members == Members(forecasts, 0)
  IN {raw \in ToSet(record.buckets) :
        /\ DOMAIN members # {}
        /\ AgreeWithin(members, ReplayDeviation)
        /\ LET edge == Edge(BucketProb(members, raw), Whole(members), BucketPrice(raw))
           IN (IF edge < 0 THEN -edge ELSE edge)
                >= 2 * Floor(Role(members, raw)) * Whole(members)}

\* signals_for: the live rule, with the adapter's own agreement gate and without
\* the bias, at the prices of the closed event.
SignalsFor(record, forecasts) ==
  LET members == Members(forecasts, 0)
  IN {raw \in ToSet(record.buckets) :
        /\ DOMAIN members # {}
        /\ AgreeWithin(members, ReplayDeviation)
        /\ Signalled(members, raw)}

\* The adapter's evaluate: the floor of the role again, and the liquidity of
\* the closed event.
ReplayAccepts(record) == record.liquidity >= MinLiquidity

AsOfs == {t \in {EndsAt - offset : offset \in Offsets} : t >= ReplayStart}

\* run: a market without a resolution is skipped. The fill is the token's price
\* at the as-of time, else the closed event's, and one of 0 or 1 is skipped. A
\* trade is won when the measured reading lies in its bucket.
ReplayTrades(record, archive, actual, priceAt) ==
  LET Fill(raw) == IF raw.ticker \in DOMAIN priceAt THEN priceAt[raw.ticker]
                   ELSE BucketPrice(raw)
      Traded(t) == {raw \in SignalsFor(record, archive[t]) :
                      ReplayAccepts(record) /\ 0 < Fill(raw) /\ Fill(raw) < 200}
  IN IF actual = NoReading THEN {}
     ELSE UNION {{[market |-> raw, asOf |-> t, fill |-> Fill(raw),
                   won |-> InBucket(Bucket(raw), actual)] : raw \in Traded(t)} : t \in AsOfs}

-----------------------------------------------------------------------------
(* Property. *)

\* What the archive of forecasts may answer at an as-of time: a reading or
\* nothing for every model that is asked, NOAA's included.
Answers == UNION {[D -> Readings] : D \in SUBSET SourcesFor(IsUs)}

\* The bucket the exchange paid is not traded, and a win is a dispute between the
\* exchange and the archive about one market.
NothingWon(trades, result, actual) ==
  LET won == {trade \in trades : trade.won}
  IN /\ \A trade \in trades : ~InBucket(Bucket(trade.market), result)
     /\ actual = result => won = {}
     /\ \A trade, other \in won : trade.market.ticker = other.market.ticker

\* The replay measures its edge against a price that knows the outcome, yet it
\* never profits from that: the bucket the exchange paid is never traded, at no
\* as-of time and no fill. A win is booked only where the measured reading
\* contradicts the exchange, and then on one market (signals_for, settle, run).
\* The replay reads no state of the strategy: it is looked at before it starts.
HindsightNeverPays ==
  exchange = "polymarket" /\ begun = Never /\ now = 0 =>
    \A i \in DOMAIN board, result \in Readings, liquidity \in {0, MinLiquidity} :
      LET record  == FlattenEvent(FlattenSeq(board[i]), result, liquidity)
          tickers == {raw.ticker : raw \in ToSet(record.buckets)}
      IN \A archive \in [AsOfs -> Answers], actual \in Readings \cup {NoReading},
            priceAt \in UNION {[known -> Fills] : known \in SUBSET tickers} :
           NothingWon(ReplayTrades(record, archive, actual, priceAt), result, actual)
=============================================================================
