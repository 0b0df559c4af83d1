---------------------------------- MODULE Lease ----------------------------------
(***************************************************************************)
(* A lease from its first render to its report: the owner gives inputs and  *)
(* renders the campaign in stages (Campaign); the driver runs the rendered  *)
(* cells and the parity gate (Parity) over each group that is ready; and    *)
(* analysis/manifest.py and analysis/report.py read, at any time, what the  *)
(* cells root then holds against the latest render.                         *)
(*                                                                          *)
(* A published run keeps what the checks read of it: what the render        *)
(* expected of the cell, the fleet, whether the record is fine and whether  *)
(* the cell's gates passed.  How a run comes to be published, and through   *)
(* which crashes, is CellRun and CellStore.                                 *)
(***************************************************************************)
EXTENDS Campaign, Parity, EqualQuality

CONSTANTS
  Scopes,           \* the scope files
  Pins, Owner, Decisions, Fleets,
  MayDecide,          \* MayDecide[d]: what decision d may be
  Envs,             \* what may be different from run to run; "usual" is one
  Executes(_, _),   \* the manifest of a run of a document in an environment, its fleet left out
  Values,           \* bound: what a preset's cell may measure, relative to the baseline's on its seed
  MaxFaults,        \* bound: runs that go wrong, inputs that change, gates that are fixed
  MaxRetired        \* bound: runs retired, each of another cell

ASSUME LeaseAssumption ==
  /\ "usual" \in Envs /\ None = Absent /\ None \notin {1, 2}
  /\ MaxFaults \in Nat /\ MaxRetired \in Nat /\ Values \subseteq Points
  /\ Pins \cap PartNames = {} /\ DOMAIN Family \subseteq Fleets
  /\ \A d \in Decisions : \A v \in MayDecide[d] : IsFiniteSet(v)
  /\ \A s \in Scopes :
       /\ Len(s.blocks) \in Nat /\ DOMAIN s.blocks = 1 .. Len(s.blocks)
       /\ \A n \in DOMAIN s.blocks :
            /\ IsFiniteSet(s.blocks[n].patterns) /\ IsFiniteSet(s.blocks[n].traces) /\ IsFiniteSet(s.blocks[n].seeds)
            /\ \A p \in s.blocks[n].patterns : p.by \in Decisions \cup {None} /\ IsFiniteSet(p.values)
       /\ \A g \in DOMAIN s.groups : s.groups[g].reference # None => s.groups[g].reference.by \in Decisions \cup {None}

VARIABLES
  scope,     \* the scope file
  given,     \* the inputs so far
  render,    \* the latest render; NotRendered before the first
  run,       \* run[c]: the published run of cell c
  retired,   \* the cells with a retired run
  parity,    \* parity[g]: the latest parity record of group g: [runs, code, rc]
  code,      \* the gates' code
  faults

vars == <<scope, given, render, run, retired, parity, code, faults>>

LoadedScopes == {s \in Scopes : ScopeOK(s)}

\* Before the first render.
NotRendered == [cells |-> <<>>, pending |-> {}, pending_groups |-> {}, in |-> [accounted |-> {}]]

NoParity == [runs |-> {}, code |-> 0, rc |-> 0]

Init ==
  /\ scope \in LoadedScopes
  /\ given = [pins |-> [x \in Pins |-> None], owner |-> {}, decisions |-> [d \in Decisions |-> {}],
           fleets |-> [f \in Fleets |-> None], accounted |-> {}]
  /\ render = NotRendered
  /\ run = <<>> /\ retired = {}
  /\ parity = [g \in DOMAIN scope.groups |-> NoParity]
  /\ code = 1 /\ faults = 0

-----------------------------------------------------------------------------
(* What the checks make of a cell *)

Expected == DOMAIN render.cells

GroupOf(c) == render.cells[c].group

InGroup(g) == {c \in Expected : GroupOf(c) = g}

\* The cells that the rendered scope accounts for.
Accounted == render.in.accounted \cap Expected

Current(c) == c \in DOMAIN run /\ c \in Expected /\ run[c].expected = render.cells[c]

\* manifest.check: the record is what the render expects, and its evidence passes.
Ok == {c \in Expected : Current(c) /\ run[c].fine}

\* cell_driver.status: and the verdict is valid.
Done == {c \in Ok : run[c].gated}

\* The identity of the runs that a parity record covers.
Runs(cells) == {<<c, run[c].number>> : c \in cells}

-----------------------------------------------------------------------------
(* The parity gate's run over a group *)

Compared(c) ==
  [config    |-> c.config,
   reference |-> Reference(scope, run[c].expected.group, render.in),
   intended  |-> Intended(scope, run[c].expected.group, c.config, render.in),
   manifest  |-> [Executes(run[c].expected.document, run[c].env) EXCEPT !.fleet = run[c].fleet],
   launch    |-> run[c].fleet,
   steady    |-> run[c].env # "restarted"]

\* Mutant: a cell that is accounted for is not compared, whether it is done or not.
ComparesRequired(g) ==
  IF g \notin render.pending_groups /\ InGroup(g) \ Accounted \subseteq Done THEN InGroup(g) \ Accounted ELSE {}

\* group_ready: the cells to compare once none is pending and every one the scope does not account for is done; an
\* accounted cell that is done is compared too.
GroupReady(g) ==
  IF g \notin render.pending_groups /\ InGroup(g) \ Accounted \subseteq Done THEN InGroup(g) \cap Done ELSE {}

Covers(record, cells) == record.runs = Runs(cells) /\ record.code = code

RunParity(g) ==
  /\ GroupReady(g) # {} /\ ~Covers(parity[g], GroupReady(g))
  /\ parity' = [parity EXCEPT ![g] =
                  [runs |-> Runs(GroupReady(g)), code |-> code,
                   rc |-> IF ParityPasses({Compared(c) : c \in GroupReady(g)}) THEN 0 ELSE 1]]
  /\ UNCHANGED <<scope, given, render, run, retired, code, faults>>

Rows == {scope.blocks[n].row : n \in DOMAIN scope.blocks}

Requested(row) == PlanRow(scope, render, row).cells

\* cells_to_run: of a row with nothing pending, the cells that were never published and that no one accounts for.
ToRun(row) ==
  IF PlanRow(scope, render, row).pending = {} THEN Requested(row) \ (DOMAIN run \cup Accounted) ELSE {}

\* rows_status: nothing left to run, and each ready group passed over its runs.
RowDone(row) ==
  /\ Requested(row) \ Accounted \subseteq Done
  /\ \A g \in {GroupOf(c) : c \in Requested(row)} :
       GroupReady(g) # {} => Covers(parity[g], GroupReady(g)) /\ parity[g].rc = 0

DriverDone == \A row \in Rows : RowDone(row)

-----------------------------------------------------------------------------
(* The report *)

\* Cells of one group ran on different fleets; one that is missing or invalid and accounted for does not count.
FleetProblem(g) ==
  LET compared == (InGroup(g) \cap DOMAIN run) \ (Accounted \ Ok)
  IN  \E c, d \in compared : run[c].fleet # run[d].fleet

Complete ==
  /\ render.pending = {}
  /\ DOMAIN run \subseteq Expected
  /\ Expected \subseteq Ok \cup Accounted
  /\ \A g \in DOMAIN scope.groups : ~FleetProblem(g)

\* Mutant: a parity record that passed holds for the group, whichever runs it covers.
ParityEver(g) ==
  IF parity[g] = NoParity \/ parity[g].code # code THEN "not run"
  ELSE IF parity[g].rc = 0 THEN "passed" ELSE "failed"

\* parity_state: the latest record's, when it covers exactly the cells that the report compares.
ParityState(g) ==
  IF parity[g] = NoParity \/ parity[g].code # code THEN "not run"
  ELSE IF parity[g].rc # 0 THEN "failed"
  ELSE IF parity[g].runs = Runs(InGroup(g) \cap Done) THEN "passed" ELSE "not run"

\* The cells of a group that the report's tables and readings compare.
InTables(g) == IF FleetProblem(g) \/ ParityState(g) = "failed" THEN {} ELSE InGroup(g) \cap Done

\* The report's exit status is 0: the manifest is complete, no ok cell is left out, and every group passed.
ReportDone ==
  /\ Expected # {}
  /\ Complete
  /\ Ok \subseteq Done
  /\ \A c \in Done : ParityState(GroupOf(c)) = "passed"

-----------------------------------------------------------------------------
(* The owner *)

Give(x) == given' = x /\ UNCHANGED <<scope, render, run, retired, parity, code>>

\* What the scope's blocks and their templates name; the owner is asked for nothing else.
Named ==
  LET patterns == UNION {scope.blocks[n].patterns : n \in DOMAIN scope.blocks}
  IN  UNION {scope.blocks[n].owner : n \in DOMAIN scope.blocks}
        \cup {p.by : p \in patterns}
        \cup UNION {Resolved(Templates[t].refs) : t \in {p.template : p \in patterns} \cap DOMAIN Templates}

GivePin(x) == x \in Named /\ given.pins[x] = None /\ Give([given EXCEPT !.pins[x] = 1]) /\ UNCHANGED faults

SetOwner(o) == o \in Named \ given.owner /\ Give([given EXCEPT !.owner = @ \cup {o}]) /\ UNCHANGED faults

Decide(d) ==
  /\ d \in Named
  /\ given.decisions[d] = {}
  /\ \E v \in MayDecide[d] : Give([given EXCEPT !.decisions[d] = v])
  /\ UNCHANGED faults

GiveFleet(f) == given.fleets[f] = None /\ Give([given EXCEPT !.fleets[f] = 1]) /\ UNCHANGED faults

Fault == faults < MaxFaults /\ faults' = faults + 1

\* The owner accounts for a cell that will not be done, whatever becomes of it later; that of a bad record
\* is no further fault.
Account(c) ==
  /\ c \in Expected \ given.accounted
  /\ IF c \in {d \in DOMAIN run : ~run[d].fine} THEN UNCHANGED faults ELSE Fault
  /\ Give([given EXCEPT !.accounted = @ \cup {c}])

\* An artifact is built again, or a fleet file is replaced, after it was given.
ReplacePin(x) == Fault /\ given.pins[x] = 1 /\ Give([given EXCEPT !.pins[x] = 2])

ReplaceFleet(f) == Fault /\ given.fleets[f] = 1 /\ Give([given EXCEPT !.fleets[f] = 2])

Rendering ==
  /\ render.in # given
  /\ ~Defective(scope, given)
  /\ render' = Render(scope, given)
  /\ UNCHANGED <<scope, given, run, retired, parity, code>>

\* render --previous: refused where a configuration or a cell of the earlier stage would change.
Stage ==
  /\ Rendering
  /\ Keeps(render, render')
  /\ UNCHANGED faults

\* render without --previous.
RenderAnew == Rendering /\ ~Keeps(render, render') /\ UNCHANGED faults

Retire(c) ==
  /\ c \in DOMAIN run
  /\ c \notin retired /\ Cardinality(retired) < MaxRetired
  /\ retired' = retired \cup {c}
  /\ run' = [d \in DOMAIN run \ {c} |-> run[d]]
  /\ UNCHANGED <<scope, given, render, parity, code, faults>>

FixGates == Fault /\ code = 1 /\ code' = 2 /\ UNCHANGED <<scope, given, render, run, retired, parity>>

-----------------------------------------------------------------------------
(* The driver *)

\* A cell runs once, on the fleet that the plan pins; it is published whatever its verdict.
RunCell(c) ==
  /\ \E row \in Rows : c \in ToRun(row)
  /\ LET f == scope.groups[GroupOf(c)].fleet
         Published(fine, gated, env) ==
           run' = [d \in DOMAIN run \cup {c} |->
                     IF d # c THEN run[d]
                     ELSE [number |-> IF c \in retired THEN 2 ELSE 1, expected |-> render.cells[c],
                           fleet |-> given.fleets[f], fine |-> fine, gated |-> gated, env |-> env]]
     IN  /\ render.in.fleets[f] = given.fleets[f]
         /\ \/ Published(TRUE, TRUE, "usual") /\ UNCHANGED faults
            \/ Fault /\ Published(FALSE, FALSE, "usual")
            \/ Fault /\ Published(TRUE, FALSE, "usual")
            \/ Fault /\ \E env \in Envs \ {"usual"} : Published(TRUE, TRUE, env)
  /\ UNCHANGED <<scope, given, render, retired, parity, code>>

-----------------------------------------------------------------------------

Next ==
  \/ \E x \in Pins : GivePin(x) \/ ReplacePin(x)
  \/ \E o \in Owner : SetOwner(o)
  \/ \E d \in Decisions : Decide(d)
  \/ \E f \in Fleets : GiveFleet(f) \/ ReplaceFleet(f)
  \/ \E c \in Expected : Account(c) \/ RunCell(c)
  \/ \E c \in DOMAIN run : Retire(c)
  \/ \E g \in DOMAIN scope.groups : RunParity(g)
  \/ Stage \/ RenderAnew \/ FixGates

Spec == Init /\ [][Next]_vars

-----------------------------------------------------------------------------
(* Properties *)

\* Nothing given before is taken back or replaced.
Grew(before, now) ==
  /\ \A x \in Pins : before.pins[x] \in {None, now.pins[x]}
  /\ before.owner \subseteq now.owner
  /\ \A d \in Decisions : before.decisions[d] \in {{}, now.decisions[d]}
  /\ before.accounted \subseteq now.accounted

\* "the cells it skips are final and no later stage moves a cell from one block to another" (tools/campaign.py, render):
\* while inputs are only added, in whatever order they arrive, the next stage is never refused, and keeps every
\* configuration and cell of this one.
NextStageIsKept ==
  render # NotRendered /\ Grew(render.in, given) => ~Defective(scope, given) /\ Keeps(render, Render(scope, given))

\* A run that counts as done counts as done after the next stage (render --previous), whatever has been given or
\* replaced in between.
DoneStaysDone == [][Stage => Done \subseteq Done']_vars

\* "exit 0 only when ... every expected cell ok or accounted, nothing pending ..., no ok cell is left out, and every
\* group's parity passed over its current cells" (analysis/report.py): then every cell that the scope file calls for,
\* by the decisions made, has run under the configuration of the latest render, or is accounted for; a group's cells ran
\* on one fleet, with unchanged engines and one content for each artifact and thread pool; and any two of them differ
\* only where one of the two declares it, but for the pools a process has, and for the classes and the artifacts'
\* presence where the systems differ, of the two or of one of them and the reference of their ablation; and an arm does
\* differ from its reference wherever it declares to.
ReportIsSound ==
  ReportDone =>
    /\ \A n \in DOMAIN scope.blocks : \A c \in Cells(scope.blocks[n], render.in) :
         c \in Accounted \/ (c \in DOMAIN run /\ run[c].gated /\ run[c].fine
                               /\ run[c].expected.document = Document(c.config, render.in))
    /\ \A c, d \in Ok :
         GroupOf(c) = GroupOf(d) =>
           LET a == Compared(c)
               b == Compared(d)
               both == {a, b} \cup {Compared(e) : e \in {x \in Ok : GroupOf(x) = GroupOf(c) /\ x.config = a.reference}}
           IN  /\ run[c].fleet = run[d].fleet /\ a.steady
               /\ \A k \in Differ(a, b) :
                    \/ k \in UNION (a.intended \cup b.intended)
                    \/ Section[k] \in {"loaded", "artifacts"} /\ \E x, y \in both : SystemDiffers(x, y)
                    \/ Section[k] = "threadpools" /\ Absent \in {a.manifest[k], b.manifest[k]}
               /\ a.reference # None /\ d.config = a.reference => \A p \in a.intended : p \cap Differ(a, b) # {}
               /\ \A k \in Keys : Section[k] \in LoadedWhereUsed =>
                    Absent \in {a.manifest[k], b.manifest[k]} \/ a.manifest[k] = b.manifest[k]

\* The driver and the report, which read the same directories in programs of their own, agree: with nothing pending, no
\* stray cell and no ok cell left out, all rows succeed exactly when the report's exit status is 0.
DriverAgreesWithReport ==
  Expected # {} /\ render.pending = {} /\ DOMAIN run \subseteq Expected /\ Ok \subseteq Done =>
    (DriverDone <=> ReportDone)

\* Every cell that a block may come to list, whatever is decided.
EverIn(b) ==
  LET all == [decisions |-> [d \in Decisions |-> UNION MayDecide[d]]]
  IN  {c \in Cells(b, all) : <<c.config.template, c.config.value>> \in Presets}

\* The sets of cells whose equal-quality rows are fair.
FairSets ==
  LET sets == UNION {SUBSET UNION {EverIn(s.blocks[n]) : n \in DOMAIN s.blocks} : s \in LoadedScopes}
      fair(cells) == \A trace \in {c.trace : c \in cells} : Fair(cells, trace, Values)
  IN  UNION {IF fair(cells) THEN {cells} ELSE {} : cells \in sets}

\* In every report, of a lease that is done or not, a baseline is read against all presets that ran on each of its seeds
\* and no others, and the reading, whatever was measured, is fair: a preset that is no worse than the baseline in
\* quality and in the metric leaves no reading that is worse in the metric; a reading is at the baseline's quality but
\* for the tolerance, or says that it is above, and is then no worse than any preset; and there is one if and only if a
\* preset comes up to the baseline's quality, but for the tolerance (analysis/equal_quality.py, analysis/report.py,
\* comparable).
EqualQualityIsFair ==
  \A g \in DOMAIN scope.groups : scope.groups[g].reference = None => InTables(g) \in FairSets
=============================================================================
