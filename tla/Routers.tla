------------------------------- MODULE Routers -------------------------------
(***************************************************************************)
(* The routers of routebalance/baselines/routers.py: what each one makes of *)
(* an artifact when it is built, and which model it chooses from what its   *)
(* own model answers for a prompt.  Probabilities and scores are whole      *)
(* numbers, with One for 1.0; a decision is a model of the pool, All, or    *)
(* Fails.                                                                   *)
(***************************************************************************)
EXTENDS Integers, SequencesExt

CONSTANTS
  Pool,        \* fleet_models: the fleet's models, unique, in fleet order
  Price,       \* the fleet's mean price per token of each model
  One          \* the score 1.0: upstream's scores run from -One to One

ASSUME RouterAssumption ==
  /\ Pool \in Seq(STRING) /\ Pool # <<>> /\ IsInjective(Pool)
  /\ "__ALL__" \notin ToSet(Pool)
  /\ \A m \in DOMAIN Price : Price[m] \in Nat
  /\ One \in Nat \ {0}

All == "__ALL__"
Fails == "fails"

InPool(m) == Contains(Pool, m)

FirstOf(seq, Test(_)) == LET k == SelectInSeq(seq, Test) IN IF k = 0 THEN Fails ELSE seq[k]

-----------------------------------------------------------------------------
(* BEST-Route: an artifact maps labels to models; the classifier answers a label and its probability. *)

BestRouteBuilds(options, artifact) ==
  /\ artifact.present
  /\ artifact.label_to_model # <<>>
  /\ options.threshold \in 0 .. One - 1
  /\ options.threshold > 0 => options.fallback # ""

\* The explicit fallback: never inferred, and refused outside the pool.
Fallback(options) == IF InPool(options.fallback) THEN options.fallback ELSE Fails

\* Mutant: the threshold is asked first, so that an unknown label with a high probability is looked up.
ThresholdFirst(options, artifact, answer) ==
  IF answer.prob \notin 0 .. One THEN Fails
  ELSE IF answer.prob < options.threshold THEN Fallback(options)
  ELSE IF answer.label \notin DOMAIN artifact.label_to_model THEN Fails
  ELSE artifact.label_to_model[answer.label]

FallsBack(options, artifact, answer) ==
  \/ answer.label \notin DOMAIN artifact.label_to_model
  \/ ~InPool(artifact.label_to_model[answer.label])
  \/ options.threshold > 0 /\ answer.prob < options.threshold

BestRoute(options, artifact, answer) ==
  IF answer.prob \notin 0 .. One THEN Fails
  ELSE IF FallsBack(options, artifact, answer) THEN Fallback(options)
  ELSE artifact.label_to_model[answer.label]

-----------------------------------------------------------------------------
(* BEST-Route as its authors ship it: a checkpoint has one head per candidate but the last, the reference; a  *)
(* labels file names the fleet's model of each head.                                                          *)

\* Cheapest first; equal prices keep the order of the candidates.
PriceOrder(models) ==
  LET places == 1 .. Len(models)
      before(j, k) ==
        \/ Price[models[j]] < Price[models[k]]
        \/ Price[models[j]] = Price[models[k]] /\ j < k
  IN  CHOOSE p \in [places -> places] : \A j, k \in places : j < k => before(p[j], p[k])

ByPrice(models) == LET p == PriceOrder(models) IN [k \in 1 .. Len(models) |-> models[p[k]]]

UpstreamBuilds(options, artifact) ==
  /\ artifact.present
  /\ artifact.digest = options.upstream_sha256
  /\ artifact.origin = "checkout"
  /\ artifact.base = options.base_model
  /\ artifact.labels.heads = artifact.heads
  /\ Len(artifact.labels.models) = Len(artifact.heads)
  /\ \A k \in 1 .. Len(artifact.heads) : artifact.heads[k] = artifact.labels.models[k]
  /\ artifact.labels.lengths_ok
  /\ IsInjective(artifact.labels.models)
  /\ ToSet(artifact.labels.models) \subseteq DOMAIN Price
  /\ options.threshold \in -One .. One

\* The cheapest candidate whose score reaches the threshold: answer[k] is head k's score.
Upstream(options, artifact, answer) ==
  LET models == artifact.labels.models
      score(m) == answer[CHOOSE k \in 1 .. Len(models) : models[k] = m]
  IN  IF \/ Len(answer) # Len(models)
         \/ Last(answer) # One
      THEN Fails
      ELSE FirstOf(ByPrice(models), LAMBDA m : score(m) >= options.threshold)

-----------------------------------------------------------------------------
(* AvengersPro: an artifact ranks its models for each k-means cluster; upstream answers the ranking of the     *)
(* prompt's cluster, and scores an unranked model 0, which makes a cluster without a ranking go to the first.  *)

\* Mutant: an artifact that ranks some clusters only is accepted.
AvengersBuildsPartly(options, artifact) ==
  /\ artifact.present /\ artifact.models # <<>>
  /\ artifact.digest = options.upstream_sha256
  /\ \A c \in DOMAIN artifact.rankings :
       artifact.rankings[c] # <<>> /\ ToSet(artifact.rankings[c]) \subseteq ToSet(artifact.models)

AvengersBuilds(options, artifact) ==
  /\ artifact.present /\ artifact.models # <<>>
  /\ \A key \in DOMAIN artifact.recorded : artifact.recorded[key] = options.settings[key]
  /\ artifact.digest = options.upstream_sha256
  /\ artifact.origin = "checkout"
  /\ artifact.normalizer \in {"none", "l2"}
  /\ DOMAIN artifact.rankings # {}
  /\ \A c \in DOMAIN artifact.rankings :
       artifact.rankings[c] # <<>> /\ ToSet(artifact.rankings[c]) \subseteq ToSet(artifact.models)
  /\ DOMAIN artifact.rankings = artifact.clusters

UpstreamRanking(artifact, cluster) ==
  IF cluster \in DOMAIN artifact.rankings THEN artifact.rankings[cluster] ELSE artifact.models

AvengersPro(artifact, cluster) == FirstOf(UpstreamRanking(artifact, cluster), InPool)

-----------------------------------------------------------------------------
(* RB-decoupled: RouteBalance's score of every tier of the pool, each idle; the first tier wins exact ties.    *)

Considered(artifact) == {t \in ToSet(artifact.tiers) : InPool(t.model)}

BestTier(artifact, answer) ==
  FirstOf(artifact.tiers,
          LAMBDA t : t \in Considered(artifact) /\ \A u \in Considered(artifact) : answer[u.tier] <= answer[t.tier])

RBDecoupled(artifact, answer) ==
  IF \/ Considered(artifact) = {}
     \/ \E t \in Considered(artifact) : t.tier \notin DOMAIN answer
  THEN Fails
  ELSE BestTier(artifact, answer).model

-----------------------------------------------------------------------------
(* build_router and choose_model *)

Builds(router) ==
  CASE router.type = "passthrough" -> TRUE
    [] router.type = "best_route" -> BestRouteBuilds(router.options, router.artifact)
    [] router.type = "best_route_upstream" -> UpstreamBuilds(router.options, router.artifact)
    [] router.type = "avengers_pro" -> AvengersBuilds(router.options, router.artifact)
    [] router.type = "rb_decoupled" -> router.artifact.tiers # <<>> /\ IsInjective(router.artifact.tiers)

CallsAModel(router) == router.type # "passthrough"

\* Before the call: a candidate that the fleet does not serve.
Refuses(router) ==
  /\ router.type = "best_route_upstream"
  /\ \E m \in ToSet(router.artifact.labels.models) : ~InPool(m)

Decision(router, answer) ==
  CASE router.type = "passthrough" -> All
    [] router.type = "best_route" -> BestRoute(router.options, router.artifact, answer)
    [] router.type = "best_route_upstream" -> Upstream(router.options, router.artifact, answer)
    [] router.type = "avengers_pro" -> AvengersPro(router.artifact, answer)
    [] router.type = "rb_decoupled" -> RBDecoupled(router.artifact, answer)

\* Mutant: the model that upstream ranks first, which the pool may not have.
NamesFirst(router, answer) ==
  CASE router.type = "passthrough" -> {}
    [] router.type = "best_route" ->
         IF FallsBack(router.options, router.artifact, answer) THEN {router.options.fallback} ELSE {}
    [] router.type = "best_route_upstream" -> {Decision(router, answer)}
    [] router.type = "avengers_pro" -> {UpstreamRanking(router.artifact, answer)[1]}
    [] router.type = "rb_decoupled" -> {BestTier(router.artifact, answer).tier}

\* What the reason of a decision names: the model chosen, RB-decoupled the tier; BEST-Route its fallback only.
Names(router, answer) ==
  CASE router.type = "passthrough" -> {}
    [] router.type = "best_route" ->
         IF FallsBack(router.options, router.artifact, answer) THEN {router.options.fallback} ELSE {}
    [] router.type \in {"best_route_upstream", "avengers_pro"} -> {Decision(router, answer)}
    [] router.type = "rb_decoupled" -> {BestTier(router.artifact, answer).tier}

-----------------------------------------------------------------------------
(* What each rule promises, said without its procedure. *)

AsStated(router, answer, m) ==
  CASE router.type = "passthrough" -> m = All
    [] router.type = "best_route" ->
         LET sure == \E l \in DOMAIN router.artifact.label_to_model :
                       /\ l = answer.label
                       /\ InPool(router.artifact.label_to_model[l])
                       /\ answer.prob >= router.options.threshold
         IN  answer.prob \in 0 .. One =>
               m = IF sure THEN router.artifact.label_to_model[answer.label] ELSE router.options.fallback
    [] router.type = "best_route_upstream" ->
         LET reaches(x) == \E k \in 1 .. Len(answer) :
                             router.artifact.heads[k] = x /\ answer[k] >= router.options.threshold
         IN  /\ reaches(m)
             /\ \A x \in ToSet(router.artifact.heads) : reaches(x) => Price[m] <= Price[x]
    [] router.type = "avengers_pro" ->
         /\ answer \in DOMAIN router.artifact.rankings
         /\ Contains(router.artifact.rankings[answer], m)
    [] router.type = "rb_decoupled" ->
         \E t \in ToSet(router.artifact.tiers) :
           t.model = m /\ \A u \in ToSet(router.artifact.tiers) : InPool(u.model) => answer[u.tier] <= answer[t.tier]
=============================================================================
