-------------------------------- MODULE MCLease --------------------------------
(***************************************************************************)
(* Scope files.  "Grid": a block decided later, a fill block that lists its *)
(* cells again, and a paired ablation at the decided preset.  "Chain": a    *)
(* fill block that waits for a fill block that waits.  "Seeds": a block     *)
(* whose seeds the owner sets, a fill block behind it, and a group of one   *)
(* cell.  "Compare": presets of the treatment and a baseline, on two seeds  *)
(* but for one preset.  "Held": a block whose configurations no template    *)
(* defines yet.  The others differ in one place and are refused, or never   *)
(* render.  Every configuration but the sweep reads the pinned curve.       *)
(***************************************************************************)
EXTENDS Lease

MCParts == [curve |-> {"p"}]
Rb == [family |-> "qwen", values |-> {"v1", "v2", "v3"}, refs |-> {"curve"}, ablates |-> {}]
MCSystem == [rb |-> "routebalance", arm |-> "routebalance", sweep |-> "baseline"]
MCTemplates == [rb |-> Rb, arm |-> [Rb EXCEPT !.ablates = {{"lpt"}}], sweep |-> [Rb EXCEPT !.refs = {}]]
MCFamily == [f |-> "qwen"]

Main == [fleet |-> "f", reference |-> None, intended |-> {{"weights", "lpt"}}]
Solo == [Main EXCEPT !.intended = {}]

Decided(t) == [template |-> t, by |-> "d", values |-> {}]
Of(t, values) == [template |-> t, by |-> None, values |-> values]

Block(group, patterns, seeds, fill) ==
  [row |-> "w1", group |-> group, alias |-> group, patterns |-> patterns, traces |-> {"l30"}, seeds |-> seeds,
   owner |-> {}, fill |-> fill, hold |-> FALSE, basis |-> "per_seed"]

In(row, block) == [block EXCEPT !.row = row]

Ablation ==
  [Main EXCEPT !.intended = None, !.reference = [alias |-> "abl", template |-> "rb", by |-> "d", values |-> {}]]

Grid ==
  [groups |-> [main |-> Main, abl |-> Ablation],
   blocks |-> <<Block("main", {Decided("rb")}, {1}, FALSE),
                In("w2", Block("main", {Of("rb", {"v1", "v2"})}, {1}, TRUE)),
                Block("abl", {Decided("rb"), Decided("arm")}, {1}, FALSE)>>]

Chain ==
  [groups |-> [main |-> Main],
   blocks |-> <<Block("main", {Decided("rb")}, {1}, FALSE), In("w2", Block("main", {Of("rb", {"v1"})}, {1, 2}, TRUE)),
                In("w2", Block("main", {Of("rb", {"v1"})}, {2}, TRUE))>>]

Seeds ==
  [groups |-> [main |-> Main, solo |-> Solo],
   blocks |-> <<[Block("main", {Of("rb", {"v1"})}, {1}, FALSE) EXCEPT !.owner = {"o"}],
                In("w2", Block("main", {Of("rb", {"v1", "v2"})}, {1}, TRUE)),
                Block("solo", {Of("sweep", {"v1"})}, {1}, FALSE)>>]

Compare ==
  [groups |-> [main |-> [Main EXCEPT !.intended = {{"weights", "class", "curve"}}]],
   blocks |-> <<Block("main", {Of("rb", {"v1", "v2"}), Of("sweep", {"v1"})}, {1, 2}, FALSE),
                Block("main", {Of("rb", {"v3"})}, {1}, FALSE)>>]

Held ==
  [groups |-> [main |-> Main, later |-> Solo],
   blocks |-> <<Block("main", {Of("rb", {"v1"})}, {1}, FALSE),
                In("w2", [Block("later", {Of("oracle", {"v1"})}, {1}, FALSE) EXCEPT !.hold = TRUE])>>]

Undefined == [Held EXCEPT !.blocks[2].hold = FALSE]

Refused ==
  {[Grid EXCEPT !.groups.main.intended = None],
   [Grid EXCEPT !.groups.abl.intended = {{"lpt"}}],
   [Grid EXCEPT !.groups.main.fleet = "g"],
   [Chain EXCEPT !.blocks[3].group = "abl"],
   [Chain EXCEPT !.blocks[2].seeds = {}],
   [Chain EXCEPT !.blocks[2].patterns = {}]}

MCScopes == {Grid, Chain, Seeds, Compare, Held, Undefined} \cup Refused
MCValues == {[quality |-> q, metric |-> m] : q \in {-2, -1, 1, 2}, m \in {-1, 1}}
MCMayDecide == [d |-> {{"v1"}, {"v2"}}]

MCSection ==
  [weights |-> "system", lpt |-> "system", class |-> "loaded", curve |-> "artifacts", pool |-> "threadpools",
   threads |-> "other", fleet |-> "other"]

MCExecutes(document, env) ==
  [weights |-> document.value,
   lpt     |-> IF document.template = "arm" /\ env # "override lost" THEN "off" ELSE "on",
   class   |-> IF document.template = "sweep" THEN "pipeline" ELSE "joint",
   curve   |-> IF document.template = "sweep" THEN None ELSE <<document.pins.p, env = "file changed">>,
   pool    |-> 1,
   threads |-> IF env = "other threads" THEN 2 ELSE 1,
   fleet   |-> 0]
=============================================================================
