------------------------------ MODULE Ensemble ------------------------------
(***************************************************************************)
(* The probability a set of model forecasts gives a temperature interval   *)
(* (strategies/weather/ensemble.py): a weighted mixture of one             *)
(* distribution per forecast model.                                        *)
(*                                                                         *)
(* A "reading" is a whole degree Fahrenheit. The Gaussian is abstracted to *)
(* a table Cdf of per cents, so that a probability is an integer out of    *)
(* Whole: 100 times the weight of the models that answered. Celsius cities *)
(* and their conversion are left out.                                      *)
(***************************************************************************)
EXTENDS Integers, FiniteSets, FiniteSetsExt, Functions

CONSTANTS
  Sources,       \* the configured forecast models (_weights)
  Weight,        \* Sources -> Int; a weight of 0 or less drops the model
  UsOnly,        \* the models that only cover stations in the US
  Reach,         \* half-width of the table: beyond it a probability is 0 or 1
  Cdf,           \* Sources -> [-Reach..Reach -> 0..100], P(reading < mean + d)
  MinBias,       \* min_bias_apply_f
  MaxDeviation   \* the deviation at which the agreement score is min_agreement

ASSUME EnsembleAssumption ==
  /\ IsFiniteSet(Sources) /\ UsOnly \subseteq Sources /\ Weight \in [Sources -> Int]
  /\ Reach \in Nat /\ MinBias \in Nat /\ MaxDeviation \in Nat
  /\ Cdf \in [Sources -> [-Reach..Reach -> 0..100]]
  /\ \A s \in Sources : \A d, e \in -Reach..Reach : d <= e => Cdf[s][d] <= Cdf[s][e]

\* math.inf and -math.inf, for the open ends of a bucket
Infinity == 1000

\* A city's bias counts from min_bias_apply_f on.
BiasApplied(bias) == IF bias >= MinBias \/ -bias >= MinBias THEN bias ELSE 0

\* NOAA covers no station outside the US.
SourcesFor(isUs) == IF isUs THEN Sources ELSE Sources \ UsOnly

\* Forecasts are a partial function from the models that answered to a mean;
\* a model without weight is dropped and the bias taken off the rest.
Members(forecasts, bias) ==
  [s \in {q \in DOMAIN forecasts : Weight[q] > 0} |-> forecasts[s] - BiasApplied(bias)]

Total(members) == SumFunctionOnSet(Weight, DOMAIN members)

\* Without any member the client takes the exceedance to be 0, out of 100.
Whole(members) == IF DOMAIN members = {} THEN 100 ELSE 100 * Total(members)

\* P(reading < x) under one model, in per cent.
NormCdf(s, d) == IF d > Reach THEN 100 ELSE IF d < -Reach THEN 0 ELSE Cdf[s][d]

Below(members, x) ==
  SumFunction([s \in DOMAIN members |-> Weight[s] * NormCdf(s, x - members[s])])

\* P(reading >= x), out of Whole.
CdfExceedance(members, x) ==
  IF DOMAIN members = {} THEN 0 ELSE Whole(members) - Below(members, x)

\* P(low <= reading < high), out of Whole.
IntervalProb(members, low, high) == Below(members, high) - Below(members, low)

\* Total times the weighted mean of the models.
PointTimesTotal(members) ==
  SumFunction([s \in DOMAIN members |-> Weight[s] * members[s]])

PointIn(members, low, high) ==
  /\ low * Total(members) <= PointTimesTotal(members)
  /\ PointTimesTotal(members) < high * Total(members)

\* exp(-spread / scale) reaches min_agreement while the weighted standard
\* deviation of the means is at most "deviation".
AgreeWithin(members, deviation) ==
  LET squares == SumFunction([s \in DOMAIN members |-> Weight[s] * members[s] * members[s]])
      total   == Total(members)
  IN total * squares - PointTimesTotal(members) * PointTimesTotal(members)
       <= deviation * deviation * total * total

Agree(members) == AgreeWithin(members, MaxDeviation)
=============================================================================
