----------------------------- MODULE Statistics -----------------------------
(***************************************************************************)
(* What a baseline is made of: the values of the windows of the training   *)
(* period, their statistics, and the judgement of a value by them.  A      *)
(* number of the code is an integer here, in units of 1/Scale; what would  *)
(* be a quotient or a root is compared by its multiple or its square.      *)
(***************************************************************************)
EXTENDS Integers, SequencesExt

CONSTANTS
    Measured,        \* the values of events, one of them not a number
    NotANumber,
    Aggregation,     \* the functions of metrics
    SampleWindow, TrainingPeriod,
    MinSamples,
    Asked,           \* the values that are judged
    Sensitivities,
    Scale,           \* a multiple of every number of events in a window
    Tenths,          \* ewmaAlpha, in tenths
    MaxMeasured,     \* bounds on the events, the time and the anomalies
    MaxStatTime,
    MaxDetected

VARIABLES
    measured,        \* the events of the metric: when, and with which value
    aggregation,
    stats,           \* the statistics, or none yet
    detected,        \* anomaliesDetected
    statTime

statVars == <<measured, aggregation, stats, detected, statTime>>

NoStats == [sampleCount |-> -1]

Total(values) == FoldLeft(LAMBDA n, v : n + v, 0, values)
Smaller(a, b) == IF a < b THEN a ELSE b
Larger(a, b) == IF a > b THEN a ELSE b

StatInit ==
    /\ measured = <<>> /\ aggregation \in Aggregation
    /\ stats = NoStats /\ detected = 0 /\ statTime = 0

-----------------------------------------------------------------------------
(* collectValues, aggregateWindows, aggregate *)

Aggregate(values, fn) ==
    CASE fn = "count" -> Scale * Len(values)
      [] fn = "sum" -> Scale * Total(values)
      [] fn = "avg" -> (Scale * Total(values)) \div Len(values)
      [] fn = "min" -> Scale * FoldLeft(Smaller, Head(values), values)
      [] fn = "max" -> Scale * FoldLeft(Larger, Head(values), values)

\* The windows begin with the training period; one without a value does not count, also
\* when events are counted.
AggregateWindows(events, from, fn) ==
    LET Window(k) == SelectSeq(events, LAMBDA e : (e.at - from) \div SampleWindow = k)
        Values(k) == LET inWindow == Window(k)
                         valued == IF fn = "count" THEN inWindow
                                   ELSE SelectSeq(inWindow, LAMBDA e : e.value # NotANumber)
                     IN  [i \in DOMAIN valued |-> valued[i].value]
        windows == SetToSortSeq({k \in 0..TrainingPeriod \div SampleWindow : Values(k) # <<>>}, <)
    IN  [i \in DOMAIN windows |-> Aggregate(Values(windows[i]), fn)]

CollectValues(fn) ==
    LET from == statTime - TrainingPeriod
    IN  AggregateWindows(SelectSeq(measured, LAMBDA e : from <= e.at), from, fn)

-----------------------------------------------------------------------------
(* The statistics *)

Sorted(values) == SortSeq(values, <)

\* computePercentile, a hundred times.
Percentile(sorted, p) ==
    IF sorted = <<>> THEN 0
    ELSE LET index == p * (Len(sorted) - 1)
             lower == sorted[index \div 100 + 1]
             upper == IF index % 100 = 0 THEN lower ELSE sorted[index \div 100 + 2]
         IN  100 * lower + (index % 100) * (upper - lower)

StandardPercentiles == {5, 25, 75, 95, 99}

\* computeEWMA of the first n values, 10 ^ (n - 1) times
Ewma(values, n) ==
    LET upTo[k \in 0..n] ==
            IF k = 0 THEN 0 ELSE IF k = 1 THEN values[1]
            ELSE Tenths * values[k] * 10 ^ (k - 2) + (10 - Tenths) * upTo[k - 1]
    IN  upTo[n]

\* computeBaselineStats: the mean by its sum, the variance by `spread`, which is the square
\* of sampleCount times it.
ComputeBaselineStats(values) ==
    LET n == Len(values)
        sorted == Sorted(values)
        sum == Total(values)
    IN  [ sampleCount |-> n, sum |-> sum,
          spread |-> n * Total([i \in 1..n |-> values[i] * values[i]]) - sum * sum,
          percentiles |-> [p \in StandardPercentiles |-> Percentile(sorted, p)],
          median |-> Percentile(sorted, 50),
          min |-> IF n = 0 THEN 0 ELSE sorted[1], max |-> IF n = 0 THEN 0 ELSE sorted[n],
          ewma |-> Ewma(values, n) ]

-----------------------------------------------------------------------------
(* checkAnomaly *)

\* The distance of a value from the mean, times sampleCount.
Distance(value, s) == s.sampleCount * Scale * value - s.sum

\* |zScore| >= k; without deviation, it is 0 or infinite.
Deviates(value, s, k) ==
    LET d == Distance(value, s)
    IN  IF s.spread = 0 THEN d # 0 ELSE d * d >= k * k * s.spread

ClassifyAnomaly(value, s) ==
    CASE Deviates(value, s, 4) -> 4
      [] ~Deviates(value, s, 4) /\ Deviates(value, s, 3) -> 3
      [] ~Deviates(value, s, 3) /\ Deviates(value, s, 2) -> 2
      [] OTHER -> 1

Comparisons == {"above", "below", "outside", "above_percentile", "below_percentile"}

IsAnomaly(value, s, comparison, sensitivity) ==
    LET d == Distance(value, s)
        far == d * d > sensitivity * sensitivity * s.spread
    IN  CASE comparison = "above" -> d > 0 /\ far
          [] comparison = "below" -> d < 0 /\ far
          [] comparison = "outside" -> far
          [] comparison = "above_percentile" ->
                sensitivity \in DOMAIN s.percentiles /\ 100 * Scale * value > s.percentiles[sensitivity]
          [] comparison = "below_percentile" ->
                sensitivity \in DOMAIN s.percentiles /\ 100 * Scale * value < s.percentiles[sensitivity]

-----------------------------------------------------------------------------
(* The steps *)

Measure(value) ==
    /\ Len(measured) < MaxMeasured
    /\ measured' = Append(measured, [at |-> statTime, value |-> value])
    /\ UNCHANGED <<aggregation, stats, detected, statTime>>

StatTick ==
    /\ statTime < MaxStatTime /\ statTime' = statTime + 1
    /\ UNCHANGED <<measured, aggregation, stats, detected>>

ComputeStats ==
    /\ stats' = ComputeBaselineStats(CollectValues(aggregation))
    /\ UNCHANGED <<measured, aggregation, detected, statTime>>

\* BaselineStore.checkAnomaly, which answers undefined without enough samples.
CheckAnomaly(value, comparison, sensitivity) ==
    /\ stats.sampleCount >= MinSamples
    /\ detected < MaxDetected
    /\ detected' = detected + (IF IsAnomaly(value, stats, comparison, sensitivity) THEN 1 ELSE 0)
    /\ UNCHANGED <<measured, aggregation, stats, statTime>>

StatNext ==
    \/ \E value \in Measured : Measure(value)
    \/ StatTick
    \/ ComputeStats
    \/ \E value \in Asked, comparison \in Comparisons, sensitivity \in Sensitivities :
         CheckAnomaly(value, comparison, sensitivity)

StatSpec == StatInit /\ [][StatNext]_statVars

-----------------------------------------------------------------------------
(* Properties *)

Values == CollectValues(aggregation)

\* Each event of the training period is in one window, also those at its ends.
WindowsPartition ==
    LET inPeriod == SelectSeq(measured, LAMBDA e : statTime - TrainingPeriod <= e.at)
        numbers == SelectSeq(inPeriod, LAMBDA e : e.value # NotANumber)
    IN  /\ aggregation = "count" => Total(Values) = Scale * Len(inPeriod)
        /\ aggregation = "sum" => Total(Values) = Scale * Total([i \in DOMAIN numbers |-> numbers[i].value])

\* The statistics of the values that there are now: a percentile has its share of the
\* values on each side and lies between those below and above it, the average that forgets
\* lies between the extremes, and there is no deviation only without a difference.
StatisticsSound ==
    LET values == Values
        s == ComputeBaselineStats(values)
        n == Len(values)
        all == [p \in StandardPercentiles \cup {50} |-> IF p = 50 THEN s.median ELSE s.percentiles[p]]
    IN  n > 0 =>
        /\ \A p \in DOMAIN all :
              /\ 100 * Cardinality({i \in 1..n : 100 * values[i] <= all[p]}) > p * (n - 1)
              /\ 100 * Cardinality({i \in 1..n : 100 * values[i] >= all[p]}) > (100 - p) * (n - 1)
              /\ 100 * s.min <= all[p] /\ all[p] <= 100 * s.max
              /\ \A q \in DOMAIN all : p <= q => all[p] <= all[q]
        /\ s.min * 10 ^ (n - 1) <= s.ewma /\ s.ewma <= s.max * 10 ^ (n - 1)
        /\ s.spread >= 0
        /\ s.spread = 0 <=> \A i, j \in 1..n : values[i] = values[j]

\* A value is outside when it is above or below, never both; who asks for more deviation
\* finds no more anomalies; and an anomaly of k deviations is at least of that severity.
JudgementSound ==
    stats.sampleCount >= MinSamples =>
        \A value \in Asked, k \in Sensitivities :
            LET Is(comparison) == IsAnomaly(value, stats, comparison, k)
            IN  /\ Is("outside") = (Is("above") \/ Is("below"))
                /\ ~(Is("above") /\ Is("below")) /\ ~(Is("above_percentile") /\ Is("below_percentile"))
                /\ k \in 2..4 /\ Is("outside") => ClassifyAnomaly(value, stats) >= k
                /\ \A l \in Sensitivities : l <= k /\ Is("outside") =>
                      IsAnomaly(value, stats, "outside", l)

BaselineSound == WindowsPartition /\ StatisticsSound /\ JudgementSound

\* What docs/reference/11-dsl-conditions.md says of abovePercentile and belowPercentile: a
\* value beyond every sample exceeds each percentile, or is below it.
PercentileDetects ==
    stats.sampleCount >= MinSamples =>
        \A value \in Asked, p \in Sensitivities \cap 1..99 :
            /\ Scale * value > stats.max => IsAnomaly(value, stats, "above_percentile", p)
            /\ Scale * value < stats.min => IsAnomaly(value, stats, "below_percentile", p)
=============================================================================
