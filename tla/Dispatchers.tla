----------------------------- MODULE Dispatchers -----------------------------
(***************************************************************************)
(* The dispatchers of routebalance/baselines/dispatch.py: which of the      *)
(* router's candidates one takes, given their counts, and what it keeps     *)
(* from one choice to the next.  An instance is its place in the fleet      *)
(* file, so the order of the integers is the candidates' order.  A          *)
(* dispatcher's memory is a record; a choice is a pair of the instance and  *)
(* the memory after it, and a drawing dispatcher has several.               *)
(***************************************************************************)
EXTENDS Integers, SequencesExt, FiniteSetsExt, Functions

CONSTANTS
  ModelOf,          \* the model of each instance, in fleet order
  Window,           \* latency_window: samples kept per instance
  TimeoutSample     \* TIMEOUT_SAMPLE_S

ASSUME DispatchAssumption ==
  /\ ModelOf \in Seq(STRING) /\ Len(ModelOf) > 0
  /\ Window \in Nat \ {0}
  /\ TimeoutSample \in Nat \ {0}

Fleet == 1 .. Len(ModelOf)

Models == Range(ModelOf)

Types == {"round_robin", "po2", "least_outstanding", "random", "lowest_latency"}

\* build_dispatcher, for every applied configuration: rotations at their first candidate, no instance assigned yet,
\* no samples.
Built ==
  [next |-> [m \in Models |-> 0],
   assigned |-> [i \in Fleet |-> 0],
   samples |-> [i \in Fleet |-> <<>>]]

InFleetOrder(C) == CHOOSE seq \in [1 .. Cardinality(C) -> C] : \A j, k \in DOMAIN seq : j < k => seq[j] < seq[k]

-----------------------------------------------------------------------------

\* Mutant: one counter for the whole fleet.
RoundRobinShared(d, C) ==
  LET n == d.next[ModelOf[1]]
  IN  {<<InFleetOrder(C)[(n % Cardinality(C)) + 1], [d EXCEPT !.next[ModelOf[1]] = n + 1]>>}

\* One rotation per model, keyed by the first candidate's.
RoundRobin(d, C) ==
  LET key == ModelOf[Min(C)]
      k == d.next[key] % Cardinality(C)
  IN  {<<InFleetOrder(C)[k + 1], [d EXCEPT !.next[key] = k + 1]>>}

\* Mutant: the least recently assigned candidate, and the shorter queue only among those.
LeastRecent(d, C, queue) ==
  LET better(i, j) == \/ d.assigned[i] < d.assigned[j]
                      \/ d.assigned[i] = d.assigned[j] /\ queue[i] <= queue[j]
      i == Min({x \in C : \A j \in C : better(x, j)})
  IN  {<<i, [d EXCEPT !.assigned[i] = Max(Range(d.assigned)) + 1]>>}

\* The lowest count; the least recently assigned among equals; then fleet order.
LeastOutstanding(d, C, queue) ==
  LET better(i, j) == \/ queue[i] < queue[j]
                      \/ queue[i] = queue[j] /\ d.assigned[i] <= d.assigned[j]
      i == Min({x \in C : \A j \in C : better(x, j)})
  IN  {<<i, [d EXCEPT !.assigned[i] = Max(Range(d.assigned)) + 1]>>}

\* Two distinct candidates in the order drawn; a single one is taken without drawing.
Draws(C) ==
  IF Cardinality(C) < 2 THEN {InFleetOrder(C)}
  ELSE {pair \in C \X C : pair[1] # pair[2]}

\* Mutant: the longer queue of the two.
Longer(pair, queue) == IF queue[pair[1]] >= queue[Last(pair)] THEN pair[1] ELSE Last(pair)

Shorter(pair, queue) == IF queue[pair[1]] <= queue[Last(pair)] THEN pair[1] ELSE Last(pair)

Add(samples, i, sample) ==
  [samples EXCEPT ![i] = LET s == Append(@, sample)
                         IN  IF Len(s) > Window THEN Tail(s) ELSE s]

\* Once any candidate has a sample, those without one get 0.0.
ZerosAdded(samples, C) ==
  IF \A i \in C : samples[i] = <<>> THEN samples
  ELSE [i \in DOMAIN samples |-> IF i \in C /\ samples[i] = <<>> THEN <<0>> ELSE samples[i]]

SumOf(s) == LET sum[k \in 0 .. Len(s)] == IF k = 0 THEN 0 ELSE sum[k - 1] + s[k] IN sum[Len(s)]

\* The mean of i's samples is at most that of j's; without samples it is 0.
NoSlower(samples, i, j) ==
  \/ SumOf(samples[i]) = 0
  \/ SumOf(samples[i]) * Len(samples[j]) <= SumOf(samples[j]) * Len(samples[i])

LowestLatency(d, C) ==
  LET kept == ZerosAdded(d.samples, C)
      tied == {i \in C : \A j \in C : NoSlower(kept, i, j)}
  IN  {<<i, [d EXCEPT !.samples = kept]>> : i \in tied}

-----------------------------------------------------------------------------

\* probe_set, and what choose_probed and choose then compare: power of two draws its pair, every other dispatcher
\* compares every candidate.
Comparisons(type, C) == IF type = "po2" THEN Draws(C) ELSE {InFleetOrder(C)}

\* choose, choose_probed: the possible choices from one comparison.
Picks(type, d, compared, queue) ==
  LET C == ToSet(compared)
  IN  CASE type = "round_robin" -> RoundRobin(d, C)
        [] type = "least_outstanding" -> LeastOutstanding(d, C, queue)
        [] type = "po2" -> {<<Shorter(compared, queue), d>>}
        [] type = "random" -> {<<i, d>> : i \in C}
        [] type = "lowest_latency" -> LowestLatency(d, C)

\* observe_completion, with the end-to-end seconds per output token; observe_timeout.
ObserveCompletion(type, d, i, sample) ==
  IF type = "lowest_latency" THEN [d EXCEPT !.samples = Add(@, i, sample)] ELSE d

ObserveTimeout(type, d, i) == ObserveCompletion(type, d, i, TimeoutSample)
=============================================================================
