-------------------------------- MODULE Eta --------------------------------
(***************************************************************************)
(* The time model, with no state: what is learned from delivered orders    *)
(* (eta.service.ts, recompute) and what a new order is promised            *)
(* (dispatch.algo.ts: summarize, prepMinutes, queueMinutes, quoteEta), and *)
(* the settings both read (normalizeDispatch).                             *)
(*                                                                         *)
(* Durations are in hundredths of a minute, ratios in percent, distances   *)
(* in whole kilometres; a saved setting is a number, or Absent or Junk.    *)
(***************************************************************************)
EXTENDS Integers, Sequences, FiniteSetsExt, SequencesExt

CONSTANTS
  MinSamples,     \* MIN_SAMPLES: a statistic is trusted from here on
  Saved,          \* settings.dispatchConfig, as stored
  AvgPrepMinutes  \* settings.avgPrepMinutes

Absent == -1   \* no such key, null or ""
Junk   == -2   \* not a number, or a negative one
NoTime == -1   \* a timestamp that is null
NoKm   == -1   \* no distance known

----------------------------------------------------------------------------
(* Settings.                                                               *)

Defaults == [prepStep |-> 2, prepStepCap |-> 10, kitchenParallel |-> 3, queuePerOrder |-> 4,
             accept |-> 2, handoff |-> 4, kmph |-> 15, rangeWidth |-> 10, delayAlert |-> 5]

ASSUME EtaAssumption ==
  /\ MinSamples \in Nat \ {0} /\ AvgPrepMinutes \in Nat \ {0}
  /\ Saved \in [DOMAIN Defaults -> Nat \cup {Absent, Junk}]

\* Limits that keep the arithmetic sane.
Floors == [Defaults EXCEPT !.prepStep = 0, !.prepStepCap = 0, !.kitchenParallel = 1,
             !.queuePerOrder = 0, !.accept = 0, !.handoff = 0, !.kmph = 3,
             !.rangeWidth = 0, !.delayAlert = 0]

\* normalizeDispatch.
cfg == [k \in DOMAIN Defaults |->
          IF Saved[k] \in {Absent, Junk} THEN Defaults[k] ELSE Max({Floors[k], Saved[k]})]

----------------------------------------------------------------------------
(* What is learned.                                                        *)

Bands == {"breakfast", "lunch", "evening", "dinner", "late"}

HourBand(h) ==
  CASE h \in 6..10  -> "breakfast"
    [] h \in 11..14 -> "lunch"
    [] h \in 15..18 -> "evening"
    [] h \in 19..22 -> "dinner"
    [] OTHER        -> "late"

Parts == {"accept", "prep_ratio", "handoff", "speed"}

\* What counts as a measurement rather than a forgotten tap.
Honest == [accept |-> 0..6000, prep_ratio |-> 20..500, handoff |-> 0..9000, speed |-> 50..3000]

Between(a, b) == IF NoTime \in {a, b} THEN NoTime ELSE 100 * (b - a)

\* One delivery's measure of one part, if it can be measured.
Measure(d, part) ==
  CASE part = "accept"  -> Between(d.placed, d.accepted)
    [] part = "handoff" -> Between(d.ready, d.picked)
    [] part = "prep_ratio" ->
         IF d.estimate <= 0 \/ Between(d.accepted, d.ready) = NoTime THEN NoTime
         ELSE Between(d.accepted, d.ready) \div d.estimate
    [] part = "speed" ->
         IF d.km < 1 \/ d.stops > 1 \/ Between(d.picked, d.delivered) = NoTime THEN NoTime
         ELSE Between(d.picked, d.delivered) \div d.km

\* Rows of a band whose measure of the part is kept, with that measure.
Samples(rows, band, part) ==
  [i \in {j \in DOMAIN rows : HourBand(rows[j].hour) = band /\ Measure(rows[j], part) \in Honest[part]}
     |-> Measure(rows[i], part)]

\* How many values come before the i-th row's once they are sorted.
Rank(v, i) == Cardinality({j \in DOMAIN v : v[j] < v[i] \/ (v[j] = v[i] /\ j < i)})

Sorted(v, k) == v[CHOOSE i \in DOMAIN v : Rank(v, i) = k]

\* summarize's q: linear interpolation between the neighbours in order.
Quantile(v, tenths) ==
  LET i  == (Cardinality(DOMAIN v) - 1) * tenths
      lo == Sorted(v, i \div 10)
      hi == Sorted(v, (i + 9) \div 10)
  IN  lo + ((hi - lo) * (i % 10)) \div 10

Summarize(v) ==
  [median |-> Quantile(v, 5), p80 |-> Quantile(v, 8), n |-> Cardinality(DOMAIN v)]

NoStat == [median |-> 0, p80 |-> 0, n |-> 0]

\* recompute replaces the rows of eta_stats, in one transaction.
Learned(rows) ==
  {[band |-> bp[1], part |-> bp[2], stat |-> Summarize(Samples(rows, bp[1], bp[2]))] :
     bp \in {sampled \in Bands \X Parts : DOMAIN Samples(rows, sampled[1], sampled[2]) # {}}}

\* statsFor: one band of the table.
StatsFor(table, band) ==
  [p \in Parts |->
     LET own == {r \in table : r.band = band /\ r.part = p}
     IN  IF own = {} THEN NoStat ELSE (CHOOSE r \in own : TRUE).stat]

Trusted(s) == s.n >= MinSamples

----------------------------------------------------------------------------
(* What is promised.                                                       *)

Stage(median, p80) == [median |-> median, p80 |-> p80]

\* A learned statistic, once trusted; the fallback until then.
Known(s, fallback) == IF Trusted(s) THEN Stage(s.median, s.p80) ELSE fallback

\* prepMinutes: the slowest item, and a little for every further unit.
PrepMinutes(items) ==
  IF items = <<>> THEN AvgPrepMinutes
  ELSE LET own == {IF items[i].prep > 0 THEN items[i].prep ELSE AvgPrepMinutes : i \in DOMAIN items}
           units == SumFunction([i \in DOMAIN items |-> Max({1, items[i].quantity})])
       IN  Max(own) + Min({cfg.prepStepCap, (units - 1) * cfg.prepStep})

\* The orders beyond what the kitchen cooks at once, this one among them.
QueueMinutes(cooking) == Max({0, cooking - cfg.kitchenParallel + 1}) * cfg.queuePerOrder

\* The stages of an order's way, each with its usual and its slow time.
StagesOf(prep, km, pickup, stats) ==
  LET ratio == Known(stats.prep_ratio, Stage(100, 120))
      speed == Known(stats.speed, Stage(6000 \div cfg.kmph, (7500 \div cfg.kmph)))
      way   == IF pickup THEN 0 ELSE IF km = NoKm THEN 3 ELSE km
  IN  <<Known(stats.accept, Stage(100 * cfg.accept, 200 * cfg.accept)),
        Stage(prep * ratio.median, prep * ratio.p80),
        IF pickup THEN Stage(0, 0)
        ELSE Known(stats.handoff, Stage(100 * cfg.handoff, 200 * cfg.handoff)),
        Stage(way * speed.median, way * speed.p80)>>

Usual(stages) == stages[1].median + stages[2].median + stages[3].median + stages[4].median

Spread(s) == Max({0, s.p80 - s.median})

RoundDown5(t) == Max({5, 5 * (t \div 500)})

\* The high end without the spreads of the stages.
BugHighEnd(t, stages) == 5 * ((t + 499) \div 500)

\* roundUp5 of t and the root of the spreads' squares: the least multiple of 5
\* minutes that far above t; the root is at most the sum of the spreads.
HighEnd(t, stages) ==
  LET slow(i) == Spread(stages[i])
      squares == slow(1) * slow(1) + slow(2) * slow(2) + slow(3) * slow(3) + slow(4) * slow(4)
      covers(m) == 500 * m >= t /\ (500 * m - t) * (500 * m - t) >= squares
      least == (t + 499) \div 500
      most  == (t + slow(1) + slow(2) + slow(3) + slow(4) + 499) \div 500
  IN  5 * CHOOSE m \in least..most : covers(m) /\ \A n \in least..(m - 1) : ~ covers(n)

\* quoteEta: the range, in minutes; its high end is the promise.
Quote(prep, cooking, km, pickup, stats) ==
  LET stages == StagesOf(prep, km, pickup, stats)
      low    == Usual(stages) + 100 * QueueMinutes(cooking)
      from   == RoundDown5(low)
  IN  [min |-> from,
       max |-> Max({HighEnd(low, stages), from + cfg.rangeWidth})]
             \* maxMin - minMin < minRangeWidthMin widens the range
=============================================================================
