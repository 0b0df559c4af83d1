----------------------------- MODULE PipelineGate -----------------------------
(***************************************************************************)
(* What a cell's evidence says of the pipeline (Pipeline), and how the gates *)
(* check it: the manifest, read from the objects that run                   *)
(* (Service.manifest), against the rules of gates/cell.py; and the decision *)
(* line of a request, written from its selection (Service._select), against *)
(* gates/arm.py, which knows the configuration, the manifest's fleet and    *)
(* the max_tokens of the cell.                                              *)
(***************************************************************************)
EXTENDS Pipeline

-----------------------------------------------------------------------------
(* The manifest *)

TierOf(i) == Specs[i].tier

\* What apply built: the router's lane, the view with or without its pollers, and the components.
Loaded ==
  [router_lane_threads |-> Router.concurrency, telemetry_pollers |-> doc.telemetry_read = "poll",
   estimator |-> NeedsEstimator(doc), latency |-> NeedsLatency(doc)]

SystemKeys ==
  [mode |-> doc.mode, telemetry_read |-> doc.telemetry_read, weights |-> doc.weights,
   pending_decode |-> doc.pending_decode, router |-> Router, dispatch |-> Dispatch]

FleetEntry(i) ==
  [tier |-> TierOf(i), model |-> ModelOf[i], gpu |-> Tiers[TierOf(i)].gpu,
   cost_in |-> Tiers[TierOf(i)].cost_in, cost_out |-> Tiers[TierOf(i)].cost_out, node |-> Specs[i].node]

Manifest == [fleet |-> [i \in Fleet |-> FleetEntry(i)], system |-> SystemKeys, loaded |-> Loaded]

\* How each mode may read the telemetry, said once more by the manifest's format.
ReadFollowsMode(m) ==
  m.system.telemetry_read \in {IF m.system.mode = "routebalance" THEN "per_round" ELSE "per_request", "poll"}

PollersFollowTheRead(m) == m.loaded.telemetry_pollers = (m.system.telemetry_read = "poll")

\* And the lane has the threads that the arm gate's configuration asks for.
ManifestFits(m) ==
  /\ ReadFollowsMode(m)
  /\ PollersFollowTheRead(m)
  /\ m.loaded.router_lane_threads = Router.concurrency

-----------------------------------------------------------------------------
(* The decision lines *)

\* The evidence of a request that is placed on i: a baseline has no lengths.
Line(r, i) ==
  [reason |-> [type |-> Router.type, names |-> Names(Router, answer[r])], instance |-> i, tier |-> TierOf(i),
   decode_tokens |-> Decode(r, ModelOf[i]),
   feature_tokens |-> IF Sweeps THEN Whole(Max(Range(estimate[r]))) ELSE RequestTokens,
   lengths |-> estimate[r]]

\* A tier stands for its model: any instance of the model may serve, whatever its tier.
NamedModel(m, name) ==
  IF m.system.router.type = "rb_decoupled"
  THEN (CHOOSE f \in Range(m.fleet) : f.tier = name).model
  ELSE name

\* A sweep's line: a length for every model of the fleet, the longest one, and the one that serves.
LengthsFit(m, line, served) ==
  /\ {f.model : f \in Range(m.fleet)} \subseteq DOMAIN line.lengths
  /\ \A x \in Range(line.lengths) : x >= 0
  /\ line.feature_tokens = Max({1} \cup {x \div Parts : x \in Range(line.lengths)})
  /\ line.decode_tokens = Max({1, line.lengths[served] \div Parts})

LineFits(m, line) ==
  LET served == m.fleet[line.instance].model
  IN  /\ line.instance \in DOMAIN m.fleet
      /\ line.tier = m.fleet[line.instance].tier
      /\ line.reason.type = m.system.router.type
      /\ \A name \in line.reason.names : NamedModel(m, name) = served
      /\ IF m.system.pending_decode = "own_length"
         THEN LengthsFit(m, line, served)
         ELSE line.lengths = None /\ line.decode_tokens = RequestTokens /\ line.feature_tokens = RequestTokens

\* The gates raise no false alarm, and an accepted document never runs a system that its manifest denies: whatever was
\* decided while the request waited for its estimate, its router and its probe, its line names the model that serves it
\* and its lengths, and the gate accepts both.
GateAcceptsEveryPick ==
  [][\A r \in Requests :
       Dispatches(r) => ManifestFits(Manifest) /\ LineFits(Manifest, Line(r, instance'[r]))]_pipeline_vars
=============================================================================
