---------------------------- MODULE ScheduleRound ----------------------------
(***************************************************************************)
(* routebalance/schedule/assign.py (schedule_round), score.py and budget.py *)
(* for one round: requests are taken longest first, each is scored on every *)
(* instance of the fleet, and its pick counts in the states that the next   *)
(* one is scored with.                                                      *)
(*                                                                          *)
(* Numbers are integers in units of EPS (so EPS = 1), and a score is        *)
(* multiplied by the common denominator of its three terms: the order of    *)
(* the scores, which decides, is that of exact arithmetic.  Floating-point  *)
(* rounding is abstracted.  Instances are numbered in fleet order, requests *)
(* in the order of their arrival.                                           *)
(***************************************************************************)
EXTENDS LatencyModel, Knn

CONSTANTS
  Fleet,             \* how many instances
  Tier,              \* Tier[i]: the tier (model and GPU) of instance i
  Price,             \* Price[t]: the tier's cost_in and cost_out
  RoundSize,         \* how many requests
  Profiles,          \* what a request may be: its prompt, prompt_tokens, budget, max_tokens
  States,            \* the states an instance may be in when the round's loads are read
  Configs            \* the configurations: weights, normalization, over, lpt, pending, admission, estimator, latency

Instances == 1 .. Fleet
Requests == 1 .. RoundSize
Tiers == {Tier[i] : i \in Instances}
Models == {Model[t] : t \in Tiers}

ASSUME RoundAssumption ==
  /\ Fleet \in Nat \ {0}
  /\ RoundSize \in Nat \ {0}
  /\ \A t \in Tiers : Price[t].cost_in \in Nat /\ Price[t].cost_out \in Nat \ {0}
  /\ \A p \in Profiles :
       /\ p.prompt \in DOMAIN Distance
       /\ p.prompt_tokens \in Nat \ {0} /\ p.max_tokens \in Nat \ {0} /\ p.budget \in Nat
  /\ States \subseteq Loads
  /\ \A c \in Configs :
       /\ c.w_quality \in Nat /\ c.w_cost \in Nat /\ c.w_latency \in Nat
       /\ c.estimator.index \in DOMAIN Indexes

ASSUME LatencyAssumption == TablesOK(Tiers)

VARIABLES
  cfg,             \* the configuration
  request,         \* request[r]: the round's requests, each with its estimates, quality[m] and length[m]
  state,           \* states: the instances' states, this round's picks included
  last_assigned,   \* last_assigned: when an instance last won a request (0: never)
  l_run,           \* l_run: the largest latency scored so far in the round
  decided          \* decisions: the requests decided, each with its instance and the evidence for it

vars == <<cfg, request, state, last_assigned, l_run, decided>>

Decided == DOMAIN decided

-----------------------------------------------------------------------------
(* assign.py: the order *)

Lengths(r) == Range(request[r].length)

Estimated(r) == DOMAIN request[r].length

\* lpt_key, over every estimated model, in the fleet or not; times their number (a mean is a fraction).
LptKey(r, lpt) ==
  CASE lpt = "min"  -> Cardinality(Estimated(r)) * Min(Lengths(r))
    [] lpt = "mean" -> SumFunction(request[r].length)
    [] OTHER        -> Cardinality(Estimated(r)) * Max(Lengths(r))

\* The next request: the longest, the earliest of equals; with LPT off, the earliest.
Before(q, r) ==
  IF cfg.lpt = "off" THEN q < r
  ELSE \/ LptKey(q, cfg.lpt) > LptKey(r, cfg.lpt)
       \/ LptKey(q, cfg.lpt) = LptKey(r, cfg.lpt) /\ q < r

IsNext(r) == r \notin Decided /\ \A q \in Requests \ (Decided \cup {r}) : Before(r, q)

-----------------------------------------------------------------------------
(* budget.py *)

Cost(t, r, tokens) == request[r].prompt_tokens * Price[t].cost_in + tokens * Price[t].cost_out

\* Mutant: the affordable tokens are rounded up.
AffordableUp(t, r) ==
  LET remaining == request[r].budget - request[r].prompt_tokens * Price[t].cost_in
  IN  IF remaining <= 0 THEN 1 ELSE (remaining + Price[t].cost_out - 1) \div Price[t].cost_out

Affordable(t, r) ==
  LET remaining == request[r].budget - request[r].prompt_tokens * Price[t].cost_in
  IN  IF remaining <= 0 THEN 1 ELSE Max({1, remaining \div Price[t].cost_out})

\* What the chosen instance is asked for; a budget of 0 is no budget.
Clamp(t, r) ==
  IF request[r].budget = 0 THEN request[r].max_tokens ELSE Min({request[r].max_tokens, Affordable(t, r)})

\* The admission filter (assign.py, _admitted and _worst_case).
OwnLength(t, r) == request[r].length[Model[t]]

Expected(t, r) == Min({OwnLength(t, r), request[r].max_tokens})

Admitted(r) == {i \in Instances : Cost(Tier[i], r, Expected(Tier[i], r)) <= request[r].budget}

WorstCase(i, r) == Cost(Tier[i], r, request[r].max_tokens)

Cheapest(r) == {i \in Instances : \A j \in Instances : WorstCase(i, r) <= WorstCase(j, r)}

FilterRuns(r) == cfg.admission /\ request[r].budget > 0

\* Mutant: a budget that admits no candidate is ignored.
CandidatesOfAll(r) == IF FilterRuns(r) /\ Admitted(r) # {} THEN Admitted(r) ELSE Instances

Candidates(r) ==
  IF ~FilterRuns(r) THEN Instances
  ELSE IF Admitted(r) # {} THEN Admitted(r) ELSE Cheapest(r)

-----------------------------------------------------------------------------
(* score.py *)

Quality(i, r) == request[r].quality[Model[Tier[i]]]

CostOf(i, r) == Cost(Tier[i], r, OwnLength(Tier[i], r))

LatencyIn(i, r, s) == Latency(cfg.latency, Tier[i], s, request[r].length, request[r].prompt_tokens)

LatencyOf(i, r) == LatencyIn(i, r, state[i])

Idle == [running |-> 0, waiting |-> 0, pending |-> 0]

Unloaded(i, r) == LatencyIn(i, r, Idle)

\* Mutant: the running maximum of the round leaves this request's candidates out.
LRunLate(r) == l_run

\* The running maximum of the round, this request's candidates included.
LRun(r) == Max({l_run} \cup {LatencyOf(i, r) : i \in Candidates(r)})

\* What the scales are taken over: the request's own candidates, or the round and the whole fleet (D137).
Own(r) == {r} \X Candidates(r)

\* Mutant: the scales of the round leave out what the budget filters of its requests rejected.
ScopeAdmitted(r) == IF cfg.over = "round" THEN UNION {Own(q) : q \in Requests} ELSE Own(r)

Scope(r) == IF cfg.over = "round" THEN Requests \X Instances ELSE Own(r)

Scales(r) ==
  LET qualities == {Quality(x[2], x[1]) : x \in Scope(r)}
  IN  [q_min |-> Min(qualities),
       q_max |-> Max(qualities),
       c_max |-> Max({CostOf(x[2], x[1]) : x \in Scope(r)}),
       l_max |-> IF cfg.over = "round" THEN LRun(r) ELSE Max({LatencyOf(x[2], r) : x \in Own(r)})]

\* score() refuses scales that do not cover a candidate.
Covers(s, r) ==
  \A i \in Candidates(r) :
    /\ s.q_min <= Quality(i, r) /\ Quality(i, r) <= s.q_max
    /\ CostOf(i, r) <= s.c_max
    /\ LatencyOf(i, r) <= s.l_max

\* _check: it refuses a candidate whose latency, or reference latency, is not positive.
Positive(r) ==
  \A i \in Candidates(r) : LatencyOf(i, r) > 0 /\ (cfg.normalization = "fixed_ref" => Unloaded(i, r) > 0)

\* Mutant: the cost term grows with the cost.
TermsCostUp(i, r, s) ==
  LET Dq == s.q_max - s.q_min + 1
      Dc == s.c_max + 1
      Dl == s.l_max + 1
  IN  [quality |-> [num |-> Quality(i, r) - s.q_min, den |-> Dq],
       cost    |-> [num |-> CostOf(i, r), den |-> Dc],
       latency |-> [num |-> Dl - LatencyOf(i, r), den |-> Dl]]

\* The three terms of candidate i, each as a numerator over a denominator that all candidates share.
Terms(i, r, s) ==
  LET Dq == s.q_max - s.q_min + 1
      Dc == s.c_max + 1
      Dl == s.l_max + 1
      lats == Product([l \in {LatencyOf(j, r) : j \in Candidates(r)} |-> l])
      ref == Min({Unloaded(j, r) : j \in Candidates(r)})
  IN  [quality |-> [num |-> Quality(i, r) - s.q_min, den |-> Dq],
       cost    |-> [num |-> Dc - CostOf(i, r), den |-> Dc],
       latency |-> IF cfg.normalization = "fixed_ref"
                   THEN [num |-> ref * (lats \div LatencyOf(i, r)), den |-> lats]
                   ELSE [num |-> Dl - LatencyOf(i, r), den |-> Dl]]

Score(t) ==
    cfg.w_quality * t.quality.num * t.cost.den * t.latency.den
  + cfg.w_cost * t.cost.num * t.quality.den * t.latency.den
  + cfg.w_latency * t.latency.num * t.quality.den * t.cost.den

\* score(): each candidate with its latency, its terms and its score.
Scored(r) ==
  LET s == Scales(r)
  IN  [i \in Candidates(r) |-> LET t == Terms(i, r, s) IN [lat |-> LatencyOf(i, r), terms |-> t, score |-> Score(t)]]

QueueDepth(i) == state[i].running + state[i].waiting

\* Mutant: ties go to the least recently assigned instance before the shorter queue.
PreferredByAge(i, j, scored) ==
  \/ scored[i].score > scored[j].score
  \/ /\ scored[i].score = scored[j].score
     /\ \/ last_assigned[i] < last_assigned[j]
        \/ /\ last_assigned[i] = last_assigned[j]
           /\ \/ QueueDepth(i) < QueueDepth(j)
              \/ QueueDepth(i) = QueueDepth(j) /\ i <= j

\* pick(): the highest score, then the shorter queue, then the least recently assigned, then fleet order.
Preferred(i, j, scored) ==
  \/ scored[i].score > scored[j].score
  \/ /\ scored[i].score = scored[j].score
     /\ \/ QueueDepth(i) < QueueDepth(j)
        \/ /\ QueueDepth(i) = QueueDepth(j)
           /\ \/ last_assigned[i] < last_assigned[j]
              \/ last_assigned[i] = last_assigned[j] /\ i <= j

Pick(r, scored) == CHOOSE i \in Candidates(r) : \A j \in Candidates(r) : Preferred(i, j, scored)

-----------------------------------------------------------------------------
(* schedule_round *)

\* The requests of a round, as they come from the estimator.
Arriving(e) ==
  UNION {{[prompt_tokens |-> p.prompt_tokens, budget |-> p.budget, max_tokens |-> p.max_tokens,
           quality |-> x.quality, length |-> x.length] : x \in Estimates(e, p.prompt)} : p \in Profiles}

Init ==
  /\ cfg \in {c \in Configs : LatencyOK(c.latency) /\ EstimatorLoads(c.estimator, Models)}
  /\ request \in [Requests -> Arriving(cfg.estimator)]
  /\ state \in [Instances -> States]
  /\ last_assigned = [i \in Instances |-> 0]
  /\ l_run = 0
  /\ decided = <<>>

\* Mutant: no lower bound (v3).
DecodeTokensFromZero(i, r) ==
  IF cfg.pending = "own_length" THEN OwnLength(Tier[i], r)
  ELSE LptKey(r, cfg.lpt) \div Cardinality(Estimated(r))

\* The decode tokens recorded for the pick: whole tokens, at least 1.
DecodeTokens(i, r) ==
  IF cfg.pending = "own_length" THEN Max({1, OwnLength(Tier[i], r)})
  ELSE Max({1, LptKey(r, cfg.lpt) \div Cardinality(Estimated(r))})

\* The pick counts in the states that later requests are scored with.
Counted(i, tokens) == [state EXCEPT ![i].waiting = @ + 1, ![i].pending = @ + tokens]

Decide(r) ==
  /\ \A q \in Requests : Models \subseteq Estimated(q)
  /\ IsNext(r)
  /\ Positive(r)
  /\ Covers(Scales(r), r)
  /\ l_run' = IF cfg.over = "round" THEN LRun(r) ELSE l_run
  /\ LET scored == Scored(r)
         i == Pick(r, scored)
         tokens == DecodeTokens(i, r)
     IN  /\ state' = Counted(i, tokens)
         /\ last_assigned' = [last_assigned EXCEPT ![i] = Cardinality(Decided) + 1]
         /\ decided' = [q \in Decided \cup {r} |->
                          IF q = r THEN [instance |-> i, tokens |-> tokens, max_tokens |-> Clamp(Tier[i], r),
                                         round_pos |-> Cardinality(Decided), lpt_key |-> LptKey(r, cfg.lpt),
                                         admitted_all |-> FilterRuns(r) => Admitted(r) # {}, scored |-> scored,
                                         scales |-> IF cfg.over = "round" THEN {Scales(r)} ELSE {}]
                          ELSE decided[q]]
  /\ UNCHANGED <<cfg, request>>

Next == \E r \in Requests : Decide(r)

Spec == Init /\ [][Next]_vars

-----------------------------------------------------------------------------

TypeOK ==
  /\ cfg \in Configs
  /\ \A r \in Requests : request[r] \in Arriving(cfg.estimator)
  /\ state \in [Instances -> Loads]
  /\ last_assigned \in [Instances -> 0 .. RoundSize]
  /\ l_run \in Nat
  /\ Decided \subseteq Requests
  /\ \A r \in Decided : decided[r].instance \in Instances /\ decided[r].max_tokens \in Nat \ {0}

\* schedule_round and score() refuse no request, which would fail the round, but where an expected length of 0 is the
\* whole latency: an estimator that loads has an estimate for every model of the fleet, the scales cover all of the
\* candidates, whatever the filter keeps and however the latencies grow with the picks, and the latencies are positive
\* unless an empty answer is expected, no prefill is configured and the envelope is one that does not count at least
\* one token.
NeverRefused ==
  /\ TypeOK
  /\ \A r \in Requests : Models \subseteq Estimated(r)
  /\ \A r \in Requests :
       IsNext(r) =>
         /\ Covers(Scales(r), r)
         /\ ~Positive(r) =>
              /\ ~cfg.latency.prefill
              /\ cfg.latency.envelope # "queue_aware"
              /\ \E i \in Candidates(r) : OwnLength(Tier[i], r) = 0

\* The instance that a step picks, for the properties of a step.
Step(r, i) == r \notin Decided /\ decided' # decided /\ r \in DOMAIN decided' /\ decided'[r].instance = i

Weighted(w, better) == w > 0 /\ better

\* The pick is never beaten on every count: no other candidate is as good in quality, cost and current latency and
\* better in one that has a weight, under either normalization and either scale.
NoBetterCandidate ==
  [][\A r \in Requests, i \in Instances :
       Step(r, i) =>
         ~\E j \in Candidates(r) :
            /\ Quality(j, r) >= Quality(i, r)
            /\ CostOf(j, r) <= CostOf(i, r)
            /\ LatencyOf(j, r) <= LatencyOf(i, r)
            /\ \/ Weighted(cfg.w_quality, Quality(j, r) > Quality(i, r))
               \/ Weighted(cfg.w_cost, CostOf(j, r) < CostOf(i, r))
               \/ Weighted(cfg.w_latency, LatencyOf(j, r) < LatencyOf(i, r))]_vars

\* Of two instances of one tier, one with a longer queue and at least as much pending work is never picked: the picks
\* of a round spread over the tier although all of its requests are scored from one reading of the loads.  Learned
\* heads promise no such thing: they may predict less for more work.
ShorterTwinWins ==
  [][\A r \in Requests, i, j \in Instances :
       Step(r, i) /\ cfg.latency.source # "xgboost" /\ Tier[i] = Tier[j] /\ state[j].pending <= state[i].pending
         /\ state[j].running = state[i].running
         => state[j].waiting >= state[i].waiting]_vars

\* With the admission filter a pick's expected cost is within the budget, unless no candidate's is, and then no
\* candidate's worst case is cheaper; and what the engine is asked for never costs more than the budget, but for the
\* one token that is always asked for.
BudgetHolds ==
  \A r \in Decided :
    request[r].budget > 0 =>
      LET i == decided[r].instance
      IN  /\ cfg.admission =>
               IF decided[r].admitted_all
               THEN Cost(Tier[i], r, Expected(Tier[i], r)) <= request[r].budget
               ELSE \A j \in Instances : WorstCase(i, r) <= WorstCase(j, r)
          /\ decided[r].max_tokens = 1 \/ Cost(Tier[i], r, decided[r].max_tokens) <= request[r].budget
=============================================================================
