------------------------------- MODULE ArmGate -------------------------------
(***************************************************************************)
(* gates/arm.py for the lines of a RouteBalance round: the gate recomputes  *)
(* from the decision lines, the configuration and the fleet's prices what   *)
(* the scheduler (ScheduleRound) must have done, with arithmetic of its     *)
(* own.  Terms are fractions, as in ScheduleRound; "bitwise" is equality.   *)
(* The round's limits are RoundCollector's; that every request has one line *)
(* is CellRun's.                                                            *)
(***************************************************************************)
EXTENDS ScheduleRound

\* The decision line of a request: the request as sent, its estimates and the evidence of its dispatch.
Line(r) == [request |-> [prompt_tokens |-> request[r].prompt_tokens, max_tokens |-> request[r].max_tokens,
                         budget_cost |-> request[r].budget],
            lengths |-> request[r].length, feature_tokens |-> Longest(request[r].length),
            round_size |-> RoundSize, evidence |-> decided[r]]

LinesOf(S) == {Line(r) : r \in S}

Equal(x, y) == x.num * y.den = y.num * x.den

OneMinus(x, scale) == [num |-> scale + 1 - x, den |-> scale + 1]

CandidatesOf(line) == DOMAIN line.evidence.scored

Latencies(line) == {line.evidence.scored[i].lat : i \in CandidatesOf(line)}

LineCost(line, i, tokens) == line.request.prompt_tokens * Price[Tier[i]].cost_in + tokens * Price[Tier[i]].cost_out

\* The expected length of the model that instance i serves.
LengthOn(line, i) == line.lengths[Model[Tier[i]]]

PredictedCost(line, i) == LineCost(line, i, LengthOn(line, i))

Whole(tokens) == Max({1, tokens})

Ran(line) == cfg.admission /\ line.request.budget_cost # 0

\* The candidates that the budget filter must have kept, and whether it admitted any.
Admission(line) ==
  LET cap == line.request.max_tokens
      fits == {i \in Instances : LineCost(line, i, Min({LengthOn(line, i), cap})) <= line.request.budget_cost}
      cheapest == Min({LineCost(line, i, cap) : i \in Instances})
  IN  IF fits # {} THEN <<fits, TRUE>> ELSE <<{i \in Instances : LineCost(line, i, cap) = cheapest}, FALSE>>

CandidatesFit(line) == <<CandidatesOf(line), line.evidence.admitted_all>> =
                       IF Ran(line) THEN Admission(line) ELSE <<Instances, TRUE>>

ScoresFit(line) ==
  LET e == line.evidence
  IN  /\ \A i \in CandidatesOf(line) : e.scored[i].score = Score(e.scored[i].terms)
      /\ e.instance \in CandidatesOf(line)
      /\ \A i \in CandidatesOf(line) : e.scored[i].score <= e.scored[e.instance].score

CostTermsFit(line) ==
  LET costs == {PredictedCost(line, i) : i \in CandidatesOf(line)}
  IN  \A c_ref \in IF cfg.over = "round" THEN {s.c_max : s \in line.evidence.scales} ELSE {Max(costs)} :
        /\ Max(costs) <= c_ref
        /\ \A i \in CandidatesOf(line) :
             Equal(line.evidence.scored[i].terms.cost, OneMinus(PredictedCost(line, i), c_ref))

\* fixed_ref: the terms times the latencies are one reference, and no term exceeds 1; else 1 - latency / the largest.
LatencyTermsFit(line) ==
  LET scored == line.evidence.scored
      ref(i) == [scored[i].terms.latency EXCEPT !.num = @ * scored[i].lat]
  IN  IF cfg.normalization = "fixed_ref"
      THEN /\ \A i \in CandidatesOf(line) : 0 < ref(i).num
           /\ \A i \in CandidatesOf(line) : scored[i].terms.latency.num <= scored[i].terms.latency.den
           /\ \A i, j \in CandidatesOf(line) : ref(i) = ref(j)
      ELSE \A l_max \in IF cfg.over = "round" THEN {s.l_max : s \in line.evidence.scales} ELSE {Max(Latencies(line))} :
             /\ Max(Latencies(line)) <= l_max
             /\ \A i \in CandidatesOf(line) : Equal(scored[i].terms.latency, OneMinus(scored[i].lat, l_max))

LengthsFit(line) == Models \subseteq DOMAIN line.lengths /\ \A x \in Range(line.lengths) : x >= 0

\* The key, times the number of models in the line; with LPT off the largest length is written.
KeyOf(line) ==
  LET models == DOMAIN line.lengths
      all == Range(line.lengths)
  IN  IF cfg.lpt = "mean" THEN SumFunction(line.lengths)
      ELSE Cardinality(models) * (IF cfg.lpt = "min" THEN Min(all) ELSE Max(all))

TokensFit(line) ==
  /\ line.feature_tokens = Whole(Max(Range(line.lengths)))
  /\ line.evidence.tokens = IF cfg.pending = "own_length" THEN Whole(LengthOn(line, line.evidence.instance))
                            ELSE Whole(line.evidence.lpt_key \div Cardinality(DOMAIN line.lengths))

LineFits(line) ==
  /\ LengthsFit(line)
  /\ CandidatesFit(line)
  /\ ScoresFit(line)
  /\ Cardinality(line.evidence.scales) = IF cfg.over = "round" THEN 1 ELSE 0
  /\ CostTermsFit(line)
  /\ LatencyTermsFit(line)
  /\ line.evidence.lpt_key = KeyOf(line)
  /\ TokensFit(line)

Until(lines, line) == {m \in lines : m.evidence.round_pos <= line.evidence.round_pos}

\* One quality range and cost maximum, and a latency maximum that runs over the round in the order of the decisions.
ScalesFit(lines) ==
  LET shared == {[s EXCEPT !.l_max = 0] : s \in UNION {m.evidence.scales : m \in lines}}
  IN  /\ Cardinality(shared) = 1
      /\ \A m \in lines : \A s \in m.evidence.scales : s.l_max = Max(UNION {Latencies(n) : n \in Until(lines, m)})
      /\ Cardinality(lines) = RoundSize =>
           \A s \in shared : s.c_max = Max({PredictedCost(m, i) : m \in lines, i \in Instances})

RoundFitsConfig(lines) ==
  /\ cfg.over = "round" => ScalesFit(lines)
  /\ \A m \in lines : m.evidence.round_pos < m.round_size
  /\ \A m, n \in lines : m.evidence.round_pos = n.evidence.round_pos => m = n
  /\ cfg.lpt # "off" =>
       \A m, n \in lines : m.evidence.round_pos < n.evidence.round_pos => n.evidence.lpt_key <= m.evidence.lpt_key

\* The gate raises no false alarm: whatever the loads, the budgets and the ties, it accepts the lines of a round, and
\* those of a round of which only the first requests were dispatched.  Learned heads under fixed_ref are left out: a
\* head may predict more for the idle instance than for the loaded one, and the gate refuses the term above 1.
GateAcceptsEveryRound ==
  Decided # {} /\ ~(cfg.latency.source = "xgboost" /\ cfg.normalization = "fixed_ref") =>
    RoundFitsConfig(LinesOf(Decided)) /\ \A line \in LinesOf(Decided) : LineFits(line)
=============================================================================
