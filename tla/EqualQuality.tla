------------------------------ MODULE EqualQuality ------------------------------
(***************************************************************************)
(* analysis/frontier.py and analysis/equal_quality.py: what the report says *)
(* of a baseline against the presets of the treatment at the same quality.  *)
(* A cell is [config, trace, seed], and value[c] its [quality, metric],     *)
(* where the metric is one that a frontier is built on (latency, or in the  *)
(* per-metric reading any other).  Means over the same seeds are their sums *)
(* here, and a reading is a fraction; the request bootstrap is left out.    *)
(***************************************************************************)
EXTENDS Integers, FiniteSets, FiniteSetsExt, SequencesExt

CONSTANTS
  System,        \* System[t]: the system that template t's configurations belong to
  Treatment,     \* the system whose presets are compared with the others
  Tolerance,     \* how far apart two qualities may be and count as equal
  NoReading

Points == [quality : Int, metric : Int]

ASSUME ReadingAssumption ==
  Tolerance \in Nat /\ NoReading \notin [low : Points, high : Points, weight : Nat, above : BOOLEAN]

-----------------------------------------------------------------------------
(* The frontier *)

\* As good in quality and in the metric, and not the same point.
Dominates(a, b) == a.quality >= b.quality /\ a.metric <= b.metric /\ a # b

\* The points that no other dominates, by increasing quality.
Frontier(points) ==
  LET best == {p \in points : ~\E o \in points : Dominates(o, p)}
      places == 1 .. Cardinality(best)
  IN  CHOOSE front \in [places -> best] : \A m, n \in places : m < n => front[m].quality < front[n].quality

-----------------------------------------------------------------------------
(* The point of a frontier at a quality *)

\* Mutant: a baseline above the whole frontier is read at its high end, however far above.
AlwaysTheEnd(quality, front, tolerance) ==
  LET higher == {n \in DOMAIN front : front[n].quality > quality}
      At(low, high, weight) == [low |-> low, high |-> high, weight |-> weight, above |-> FALSE]
  IN  IF quality <= front[1].quality
      THEN [At(front[1], front[1], 0) EXCEPT !.above = front[1].quality - quality > tolerance]
      ELSE IF higher = {} THEN At(Last(front), Last(front), 0)
      ELSE At(front[Min(higher) - 1], front[Min(higher)], quality - front[Min(higher) - 1].quality)

\* Between two points, the weight their distance in quality; below the frontier its low end, above when that is more
\* than the tolerance better; past its high end, that end, when the tolerance covers it.
PositionAt(quality, front, tolerance) ==
  LET higher == {n \in DOMAIN front : front[n].quality > quality}
      At(low, high, weight) == [low |-> low, high |-> high, weight |-> weight, above |-> FALSE]
  IN  IF quality <= front[1].quality
      THEN [At(front[1], front[1], 0) EXCEPT !.above = front[1].quality - quality > tolerance]
      ELSE IF higher = {}
      THEN IF quality - Last(front).quality <= tolerance THEN At(Last(front), Last(front), 0) ELSE NoReading
      ELSE At(front[Min(higher) - 1], front[Min(higher)], quality - front[Min(higher) - 1].quality)

\* A field read there, as <<numerator, denominator>>.
Read(pos, field) ==
  LET gap == IF pos.low = pos.high THEN 1 ELSE pos.high.quality - pos.low.quality
  IN  <<pos.low[field] * gap + (pos.high[field] - pos.low[field]) * pos.weight, gap>>

AtMost(fraction, n) == fraction[1] <= n * fraction[2]

-----------------------------------------------------------------------------
(* The comparison *)

SystemOf(c) == System[c.config.template]

Configs(cells, trace) == {c.config : c \in {d \in cells : d.trace = trace}}

SeedsOf(cells, trace, config) == {c.seed : c \in {d \in cells : d.trace = trace /\ d.config = config}}

\* Mutant: a preset is compared over the seeds that it has.
AnySeed(cells, trace, base) ==
  {p \in Configs(cells, trace) :
     /\ System[p.template] = Treatment
     /\ SeedsOf(cells, trace, base) \cap SeedsOf(cells, trace, p) # {}}

\* The presets that have every seed of the baseline; the others are excluded.
Eligible(cells, trace, base) ==
  {p \in Configs(cells, trace) :
     System[p.template] = Treatment /\ SeedsOf(cells, trace, base) \subseteq SeedsOf(cells, trace, p)}

\* The baselines with a row: comparable, in a group that is not an ablation.
Baselines(cells, trace) ==
  {b \in Configs(cells, trace) : System[b.template] # Treatment /\ Eligible(cells, trace, b) # {}}

Cell(config, trace, seed) == [config |-> config, trace |-> trace, seed |-> seed]

Total(value, config, trace, seeds, field) == MapThenSumSet(LAMBDA s : value[Cell(config, trace, s)][field], seeds)

\* A configuration over some seeds.
Point(value, config, trace, seeds) ==
  [quality |-> Total(value, config, trace, seeds, "quality"), metric |-> Total(value, config, trace, seeds, "metric")]

\* The reading of a row over some of its seeds: the means over all of them, or one seed's own.
Reading(value, presets, base, trace, seeds) ==
  PositionAt(Point(value, base, trace, seeds).quality,
             Frontier({Point(value, p, trace, seeds) : p \in presets}),
             Tolerance * Cardinality(seeds))

-----------------------------------------------------------------------------
(* Properties *)

\* What a reading owes the baseline, given every preset with a cell on each of its seeds.
FairReading(value, among, base, trace, seeds, presets) ==
  LET at == Point(value, base, trace, seeds)
      others == {Point(value, p, trace, seeds) : p \in among}
      near == Tolerance * Cardinality(seeds)
      reading == Reading(value, presets, base, trace, seeds)
  IN  IF reading = NoReading THEN \A o \in others : o.quality < at.quality - near
      ELSE LET quality == Read(reading, "quality")
               metric == Read(reading, "metric")
           IN  /\ \E o \in others : o.quality >= at.quality - near
               /\ quality[1] >= (at.quality - near) * quality[2]
               /\ reading.above <=> ~AtMost(quality, at.quality + near)
               /\ \A o \in others :
                    /\ o.quality >= at.quality /\ o.metric <= at.metric => AtMost(metric, at.metric)
                    /\ reading.above => AtMost(metric, o.metric)

\* A row, whatever the presets measure, over all seeds and on each seed alone.  Only differences from the baseline's
\* values on a seed count, so that those are 0.
FairRow(base, trace, seeds, presets, among, Values) ==
  LET of == {Cell(p, trace, s) : p \in presets, s \in seeds}
      own == {Cell(base, trace, s) : s \in seeds}
      With(measured) == [c \in of \cup own |-> IF c \in of THEN measured[c] ELSE [quality |-> 0, metric |-> 0]]
  IN  \A measured \in [of -> Values] : \A over \in {seeds} \cup {{s} : s \in seeds} :
        FairReading(With(measured), among, base, trace, over, presets)

\* Whether every row of these cells is fair.
Fair(cells, trace, Values) ==
  \A b \in Baselines(cells, trace) :
    LET seeds == SeedsOf(cells, trace, b)
        presets == Eligible(cells, trace, b)
        among == {p \in Configs(cells, trace) :
                    System[p.template] = Treatment /\ \A s \in seeds : Cell(p, trace, s) \in cells}
    IN  presets \subseteq among /\ FairRow(b, trace, seeds, presets, among, Values)
=============================================================================
