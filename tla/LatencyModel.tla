----------------------------- MODULE LatencyModel -----------------------------
(***************************************************************************)
(* routebalance/estimate/latency.py: the latency of a request on an         *)
(* instance, from a source of the time per output token (TPOT), an envelope *)
(* and the prompt's prefill.  Times and lengths are integers; the tables of *)
(* a run are chosen so that every division is exact.  A state is what the   *)
(* view knows of an instance: running, waiting and pending decode tokens;   *)
(* lengths are the request's expected lengths, of every estimated model.    *)
(***************************************************************************)
EXTENDS SchedulerConfig

CONSTANTS
  Model,           \* Model[t]: the model that tier t serves
  Slots,           \* max_num_seqs, the batch capacity of an instance
  ConstantTPOT,    \* the constant source: a time per tier
  CurveTPOT,       \* the curve source: per tier the calibrated points [b, ms]
  Booster(_, _, _),   \* the learned source (external): its prediction for a tier in a state, for an expected length
  PrefillLine      \* per tier [intercept, per_token]

\* What the view may know of an instance.
Loads == [running : Nat, waiting : Nat, pending : Nat]

ASSUME TableAssumption ==
  /\ Slots \in Nat
  /\ \A t \in DOMAIN ConstantTPOT : ConstantTPOT[t] \in Int
  /\ \A t \in DOMAIN CurveTPOT : CurveTPOT[t] \in Seq([b : Int, ms : Int])
  /\ \A t \in DOMAIN PrefillLine : PrefillLine[t] \in [intercept : Int, per_token : Int]

\* ProfiledCurveTPOT: batch sizes increase, and a time never falls with the batch (D47).
CurveOK(points) ==
  /\ points # <<>> /\ points[1].b >= 1
  /\ \A k \in 1 .. Len(points) : points[k].ms >= 1
  /\ \A j, k \in 1 .. Len(points) : j < k => points[j].b < points[k].b /\ points[j].ms <= points[k].ms

\* load_latency_model and its tables: the tables that are served.
TablesOK(tiers) ==
  /\ Slots >= 1
  /\ tiers \subseteq DOMAIN ConstantTPOT /\ \A t \in tiers : ConstantTPOT[t] >= 1
  /\ tiers \subseteq DOMAIN CurveTPOT /\ \A t \in tiers : CurveOK(CurveTPOT[t])
  /\ tiers \subseteq DOMAIN PrefillLine
  /\ \A t \in tiers : PrefillLine[t].intercept >= 1 /\ PrefillLine[t].per_token >= 1

\* Linear between the points, clamped to the first and the last.
OnCurve(points, b) ==
  LET below == {k \in 1 .. Len(points) : points[k].b <= b}
  IN  CASE below = {} -> points[1].ms
        [] below = 1 .. Len(points) -> points[Len(points)].ms
        [] OTHER -> LET p == points[Max(below)]
                        q == points[Max(below) + 1]
                    IN  p.ms + ((q.ms - p.ms) * (b - p.b)) \div (q.b - p.b)

\* The time per token of a batch of b; the constant source is a flat curve.
TPOTAt(source, t, b) == IF source = "constant" THEN ConstantTPOT[t] ELSE OnCurve(CurveTPOT[t], b)

\* tpots(): the constant, or the head, never below 1 ms per token.
TPOT(source, t, s, longest) == IF source = "constant" THEN ConstantTPOT[t] ELSE Max({1, Booster(t, s, longest)})

PendingPerSlot(s) == s.pending \div Max({s.running, 1})

QueueAware(tpot, s, length) ==
  IF s.running < Slots /\ s.waiting = 0 THEN Max({1, length}) * tpot ELSE (PendingPerSlot(s) + Max({1, length})) * tpot

BatchAware(source, t, s, length) ==
  LET b == s.running + s.waiting
  IN  IF b < Slots THEN TPOTAt(source, t, b + 1) * length ELSE TPOTAt(source, t, Slots) * (length + PendingPerSlot(s))

\* The learned heads read one length for every tier, the largest expectation over the models.
Longest(lengths) == Max({1} \cup Range(lengths))

Enveloped(l, t, s, lengths) ==
  LET tpot == TPOT(l.source, t, s, Longest(lengths))
      own == lengths[Model[t]]
  IN  CASE l.envelope = "batch_aware" -> BatchAware(l.source, t, s, own)
        [] l.envelope = "own_length" -> tpot * own
        [] l.envelope = "queue_aware" -> QueueAware(tpot, s, own)

Prefill(l, t, prompt_tokens) ==
  IF l.prefill THEN PrefillLine[t].intercept + PrefillLine[t].per_token * prompt_tokens ELSE 0

\* latencies(), for a request on an instance of a tier.
Latency(l, t, s, lengths, prompt_tokens) == Enveloped(l, t, s, lengths) + Prefill(l, t, prompt_tokens)
=============================================================================
