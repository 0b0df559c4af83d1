--------------------------- MODULE MCScheduleRound ---------------------------
(***************************************************************************)
(* Three instances, two of them of one tier; three requests.  The large     *)
(* tier is better, dearer and slower; the indexes also know a model that is *)
(* not in the fleet.  Requests without a budget, with one that some tiers   *)
(* fit and with one that none does; one is answered equally well by both    *)
(* tiers, of one an empty answer is expected.  One index has two corpus     *)
(* prompts at one distance, one has fewer prompts than k, and the last      *)
(* three do not load.  An instance is full with three requests.             *)
(***************************************************************************)
EXTENDS ArmGate, TLC

MCTier == <<"small", "small", "large">>

MCPrice == [small |-> [cost_in |-> 1, cost_out |-> 2], large |-> [cost_in |-> 2, cost_out |-> 3]]

MCModel == [small |-> "m", large |-> "M"]

Profile(prompt, tokens, budget, cap) ==
  [prompt |-> prompt, prompt_tokens |-> tokens, budget |-> budget, max_tokens |-> cap]

MCProfiles == {Profile("even", 1, 0, 4), Profile("empty", 1, 8, 5), Profile("tie", 3, 3, 3)}

MCDistance == [even |-> <<0, 0, 9, 9>>, empty |-> <<9, 1, 0, 9>>, tie |-> <<0, 1, 9, 1>>]

Index(k, rows, models) ==
  [k |-> k, rows |-> rows, models |-> models,
   lengths |-> [m |-> <<6, 0, 0, 3>>, M |-> <<1, 7, 4, 4>>, x |-> <<3, 9, 0, 0>>],
   labels  |-> [m |-> <<2, 8, 5, 5>>, M |-> <<5, 5, 8, 8>>, x |-> <<0, 0, 0, 0>>]]

MCIndexes ==
  [full   |-> Index(2, {1, 2, 3}, {"m", "M", "x"}),
   tied   |-> Index(2, {1, 2, 3, 4}, {"m", "M"}),
   single |-> Index(2, {1}, {"m", "M", "x"}),
   other  |-> Index(3, {1, 2, 3}, {"m", "M", "x"}),
   partly |-> Index(2, {1, 2, 3}, {"m", "x"}),
   absent |-> Index(2, {1, 2, 3}, {"m", "M", "y"})]

Knn(index, prior) == [index |-> index, k |-> 2, prior |-> prior]

MCStates == {[running |-> 1, waiting |-> 0, pending |-> 0], [running |-> 1, waiting |-> 2, pending |-> 4]}

Weights == {<<1, 1, 1>>, <<2, 0, 1>>, <<0, 1, 0>>}

LatencyConfig(source, envelope, prefill) == [source |-> source, envelope |-> envelope, prefill |-> prefill]

Order(lpt, pending, admission, estimator, latencies) ==
  {[lpt |-> lpt, pending |-> pending, admission |-> admission, estimator |-> estimator, latency |-> l] :
     l \in latencies}

\* Every source with every envelope it has, with and without prefill; the last pair is none and must be refused.
Orders ==
  UNION {Order("max", "own_length", FALSE, Knn("full", "knn"),
               {LatencyConfig("profiled_curve", "batch_aware", TRUE), LatencyConfig("constant", "own_length", FALSE)}),
         Order("max", "own_length", TRUE, Knn("full", "per_model_mean"),
               {LatencyConfig("profiled_curve", "batch_aware", FALSE), LatencyConfig("constant", "queue_aware", FALSE)}),
         Order("mean", "lpt_key", TRUE, Knn("full", "knn"),
               {LatencyConfig("xgboost", "queue_aware", FALSE), LatencyConfig("constant", "batch_aware", FALSE)}),
         Order("min", "lpt_key", FALSE, Knn("tied", "knn"), {LatencyConfig("constant", "own_length", TRUE)}),
         Order("mean", "own_length", TRUE, Knn("single", "knn"), {LatencyConfig("constant", "own_length", TRUE)}),
         UNION {Order("max", "own_length", FALSE, Knn(x, "knn"), {LatencyConfig("constant", "own_length", TRUE)}) :
                  x \in {"other", "partly", "absent"}},
         Order("off", "own_length", TRUE, Knn("full", "knn"),
               {LatencyConfig("profiled_curve", "batch_aware", TRUE), LatencyConfig("xgboost", "own_length", FALSE)})}

MCConfigs ==
  {[w_quality |-> w[1], w_cost |-> w[2], w_latency |-> w[3], normalization |-> n, over |-> v] @@ o :
     w \in Weights, n \in {"fixed_ref", "max_divide"}, v \in {"request", "round"}, o \in Orders}

MCConstantTPOT == [small |-> 2, large |-> 3]

MCCurveTPOT ==
  [small |-> <<[b |-> 1, ms |-> 1], [b |-> 3, ms |-> 3]>>, large |-> <<[b |-> 2, ms |-> 2], [b |-> 3, ms |-> 4]>>]

\* Not monotone: a waiting request lowers the prediction.
MCBooster(t, s, length) == (IF t = "small" THEN 1 ELSE 2) * (IF s.waiting > 0 THEN 1 ELSE 5) + length \div 3

MCPrefillLine == [small |-> [intercept |-> 1, per_token |-> 1], large |-> [intercept |-> 1, per_token |-> 2]]
=============================================================================
