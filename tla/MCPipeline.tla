----------------------------- MODULE MCPipeline -----------------------------
(***************************************************************************)
(* Three requests, two instances of model A, on two tiers, and one of B.  The documents pair *)
(* every router with a dispatcher and every way of reading the loads; one   *)
(* more of each kind differs in one field and must be refused.              *)
(***************************************************************************)
EXTENDS PipelineGate, TLC

CONSTANTS r1, r2, r3

MCRequests == {r1, r2, r3}
MCPool == <<"A", "B">>
MCModelOf == <<"A", "A", "B">>
MCPrice == [A |-> 4, B |-> 2]
MCInstances == 1 .. 3
MCSamples == {1, 2}

MCTiers ==
  [t1 |-> [model |-> "A", gpu |-> "g", cost_in |-> 1, cost_out |-> 3],
   t2 |-> [model |-> "A", gpu |-> "h", cost_in |-> 1, cost_out |-> 3],
   t3 |-> [model |-> "B", gpu |-> "h", cost_in |-> 1, cost_out |-> 1]]
MCHosts == [n1 |-> [address |-> "x", gpu |-> "g", service_address |-> None],
            n2 |-> [address |-> "y", gpu |-> "h", service_address |-> "z"]]
MCSpecs ==
  <<[id |-> 1, tier |-> "t1", node |-> "n1", port |-> 1], [id |-> 2, tier |-> "t2", node |-> "n2", port |-> 1],
    [id |-> 3, tier |-> "t3", node |-> "n2", port |-> 2]>>

\* In halves of a token: below one, and a half more than one.
MCEstimates == {[A |-> 5, B |-> 0], [A |-> 3, B |-> 5]}

Weights == [quality |-> 50, cost |-> 30, latency |-> 20]

Document(router, concurrency, options, artifact, dispatch, count, read) ==
  [mode |-> "pipeline",
   weights |-> IF router = "rb_decoupled" THEN Weights ELSE None,
   rounds |-> [adaptive |-> TRUE, max_batch |-> None, timeout_ms |-> None],
   latency |-> [source |-> "constant", envelope |-> "own_length"],
   pipeline |->
     [router |-> [type |-> router, concurrency |-> concurrency, options |-> options, artifact |-> artifact],
      dispatch |-> [type |-> dispatch, count |-> count,
                    latency_window |-> IF dispatch = "lowest_latency" THEN Window ELSE None]],
   pending_decode |-> None, dead_reckoning |-> FALSE, telemetry_read |-> read, normalize_over |-> None,
   admission_filter |-> FALSE]

Nothing == [present |-> TRUE]

Labels == [present |-> TRUE, label_to_model |-> <<"A", "B", "C">>]

BestRouteOptions == [threshold |-> 1, fallback |-> "A"]

Checkpoint(heads) ==
  [present |-> TRUE, digest |-> "d", origin |-> "checkout", base |-> "deberta", heads |-> heads,
   labels |-> [heads |-> heads, models |-> heads, lengths_ok |-> TRUE]]

UpstreamOptions(t) == [threshold |-> t, upstream_sha256 |-> "d", base_model |-> "deberta"]

Clustered(rankings) ==
  [present |-> TRUE, models |-> <<"C", "A", "B">>, recorded |-> [beta |-> 9], digest |-> "d", origin |-> "checkout",
   normalizer |-> "none", clusters |-> {1, 2}, rankings |-> rankings]

AvengersOptions == [upstream_sha256 |-> "d", settings |-> [beta |-> 9, top_k |-> 1]]

ThreeTiers == [present |-> TRUE, tiers |-> FleetTiers]

RoundRobinDoc == Document("passthrough", None, Nothing, Nothing, "round_robin", None, "poll")
BestRouteDoc == Document("best_route", 2, BestRouteOptions, Labels, "least_outstanding", "in_flight", "poll")
UpstreamDoc ==
  Document("best_route_upstream", 1, UpstreamOptions(0), Checkpoint(<<"B", "A">>),
           "least_outstanding", "engine", "per_request")
AvengersDoc ==
  Document("avengers_pro", 1, AvengersOptions, Clustered((1 :> <<"C", "B">>) @@ (2 :> <<"A">>)),
           "po2", "engine", "poll")
ProbedPairDoc == Document("passthrough", None, Nothing, Nothing, "po2", "engine", "per_request")
DecoupledDoc == Document("rb_decoupled", 1, Nothing, ThreeTiers, "round_robin", None, "poll")
RandomDoc == Document("passthrough", None, Nothing, Nothing, "random", None, "poll")
SweepDoc == [RandomDoc EXCEPT !.pending_decode = "own_length", !.dead_reckoning = TRUE]
FastestDoc == Document("passthrough", None, Nothing, Nothing, "lowest_latency", None, "poll")

MCDocuments ==
  {RoundRobinDoc, BestRouteDoc, UpstreamDoc, AvengersDoc, ProbedPairDoc, DecoupledDoc, RandomDoc, FastestDoc, SweepDoc,
   [BestRouteDoc EXCEPT !.pipeline.dispatch.count = None],
   [BestRouteDoc EXCEPT !.telemetry_read = "per_request"],
   [BestRouteDoc EXCEPT !.weights = Weights],
   [RandomDoc EXCEPT !.dead_reckoning = TRUE],
   [DecoupledDoc EXCEPT !.latency = [source |-> "xgboost", envelope |-> "queue_aware"]],
   [DecoupledDoc EXCEPT !.pipeline.router.artifact.tiers = Tail(@)],
   [RoundRobinDoc EXCEPT !.pipeline.router.concurrency = 1],
   [AvengersDoc EXCEPT !.pipeline.router.artifact = Clustered(1 :> <<"C", "B">>)],
   [AvengersDoc EXCEPT !.pipeline.router.options.settings.beta = 5],
   [UpstreamDoc EXCEPT !.pipeline.router.artifact.labels.models = <<"A", "B">>],
   [UpstreamDoc EXCEPT !.pipeline.router.artifact = Checkpoint(<<"C", "A">>)]}

MCAnswers(router) ==
  CASE router.type = "passthrough" -> {}
    [] router.type = "best_route" -> [label : 1 .. 4, prob : {0, 1}] \cup {[label |-> 1, prob |-> One + 1]}
    [] router.type = "best_route_upstream" -> {<<s, One>> : s \in {-1, 0}} \cup {<<One>>}
    [] router.type = "avengers_pro" -> {1, 2}
    [] router.type = "rb_decoupled" ->
         {[t1 |-> 1, t2 |-> 2, t3 |-> 1], [t1 |-> 1, t2 |-> 1, t3 |-> 2], [t1 |-> 1, t2 |-> 1, t3 |-> 1],
          [t1 |-> 1, t2 |-> 1]}

MCSymmetry == Permutations(MCRequests)
=============================================================================
