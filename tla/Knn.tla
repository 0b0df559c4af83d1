---------------------------------- MODULE Knn ----------------------------------
(***************************************************************************)
(* routebalance/estimate/knn.py: for a prompt, the expected quality and     *)
(* output length of every model of the index, from the prompt's nearest     *)
(* neighbours in it.  Distances are in units of _DISTANCE_EPS, and the      *)
(* indexes of a run are chosen so that every division is exact; embedding   *)
(* and search are the distances.  The probabilities by length, which        *)
(* nothing reads, are left out.                                             *)
(*                                                                          *)
(* An index is [k, rows, models, lengths, labels]: the k it was built for,  *)
(* its corpus, and lengths[m][row] and labels[m][row] for its models.       *)
(***************************************************************************)
EXTENDS SchedulerConfig

CONSTANTS
  Indexes,       \* Indexes[x]: the index artifacts
  Distance,      \* Distance[p][row]: the distance of prompt p to the corpus prompt row
  LabelMax       \* the best label

ASSUME DistanceAssumption ==
  \A p \in DOMAIN Distance : \A row \in DOMAIN Distance[p] : Distance[p][row] \in Nat

\* Finite tables of numbers; whatever else an index may be wrong in, IndexOK finds.
ASSUME IndexAssumption ==
  \A x \in DOMAIN Indexes :
    /\ Indexes[x].k \in Int /\ IsFiniteSet(Indexes[x].rows) /\ IsFiniteSet(Indexes[x].models)
    /\ \A p \in DOMAIN Distance : Indexes[x].rows \subseteq DOMAIN Distance[p]
    /\ \A m \in DOMAIN Indexes[x].lengths : \A row \in DOMAIN Indexes[x].lengths[m] : Indexes[x].lengths[m][row] \in Int

\* load_index: every model has a length and a label for each prompt of the corpus.
IndexOK(x) ==
  /\ x.k >= 1 /\ x.rows # {} /\ x.models # {}
  /\ x.models \subseteq DOMAIN x.lengths \cap DOMAIN x.labels
  /\ \A m \in x.models :
       /\ x.rows \subseteq DOMAIN x.lengths[m] \cap DOMAIN x.labels[m]
       /\ \A row \in x.rows : x.lengths[m][row] >= 0 /\ x.labels[m][row] \in 0 .. LabelMax

\* load_knn: the configured index was built for the configured k and covers the fleet's models.
EstimatorLoads(e, fleet_models) ==
  LET x == Indexes[e.index]
  IN  IndexOK(x) /\ x.k = e.k /\ fleet_models \subseteq x.models

\* The k nearest of a corpus, all of a smaller one.  Which of several at one distance are found is not stated.
Nearest(x, p) ==
  {S \in kSubset(Min({x.k, Cardinality(x.rows)}), x.rows) :
     \A near \in S, far \in x.rows \ S : Distance[p][near] <= Distance[p][far]}

Product(f) == FoldFunction(LAMBDA a, b : a * b, 1, f)

\* 1 / (distance + eps), over a denominator that the neighbours share.
Weight(p, S, row) == Product([r \in S \ {row} |-> Distance[p][r] + 1])

Average(values, p, S) ==
  SumFunction([row \in S |-> Weight(p, S, row) * values[row]]) \div SumFunction([row \in S |-> Weight(p, S, row)])

MeanLabel(x, m) == SumFunction([row \in x.rows |-> x.labels[m][row]]) \div Cardinality(x.rows)

\* estimate_batch, for one prompt: what the estimates may be, [quality, length] by model.
Estimates(e, p) ==
  LET x == Indexes[e.index]
  IN  {[quality |-> [m \in x.models |-> IF e.prior = "knn" THEN Average(x.labels[m], p, S) ELSE MeanLabel(x, m)],
        length  |-> [m \in x.models |-> Average(x.lengths[m], p, S)]] : S \in Nearest(x, p)}
=============================================================================
