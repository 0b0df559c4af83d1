------------------------------- MODULE CellStore -------------------------------
(***************************************************************************)
(* scripts/run_scope.sh, the publishing half of scripts/run_cell.sh,        *)
(* scripts/mirror.sh and tools/cell_driver.py: the directories of a         *)
(* campaign's cells, at the cells root and at the second location, through  *)
(* crashes of the scripts and the owner's repairs (retire, publish by hand, *)
(* move a mirror copy aside, fix the gates).                                *)
(*                                                                          *)
(* One comparison group, whose cells are the rows asked for.  A run of a    *)
(* cell is its number; what happens in it, up to its verdict, is CellRun.   *)
(* A directory is static once published, so a mirror copy is the run it     *)
(* holds, in part or whole.  The scripts and the owner do not act at once.  *)
(***************************************************************************)
EXTENDS Integers, FiniteSets

CONSTANTS
  Cells,
  Accounted,     \* the cells the scope accounts for: they need not be done
  MaxRuns,       \* bound: recorded runs, of all cells
  MaxInvalid,    \* --max-invalid
  MaxCode,       \* bound: versions of the gates' code
  None           \* no cell

ASSUME StoreAssumption ==
  /\ IsFiniteSet(Cells) /\ None \notin Cells
  /\ Accounted \subseteq Cells
  /\ MaxRuns \in Nat /\ MaxInvalid \in Nat /\ MaxCode \in Nat \ {0}

VARIABLES
  runs,         \* recorded runs so far, of all cells: the latest is this one
  attempts,     \* attempts[c]: those still under _attempts
  published,    \* published[c]: the one at <cells root>/<cell>, 0 if none
  retired,      \* retired[c]: those under _retired
  verdict,      \* verdict[k]: gates/verdict.json of run k: "none", "valid" or "invalid"
  mirror,       \* mirror[c]: [run, whole]: what the second location holds at <cell>
  parity,       \* the group's latest parity record: [cells: run of each cell compared, 0 if none; code, rc]
  mirrored,     \* the latest parity record at the second location
  code,         \* the gates' code on disk
  rejected,     \* runs judged valid whose evidence does not pass the code on disk
  step,         \* where the scripts are; "idle": none runs
  scope,        \* run_scope.sh is running (or was the last to run), and not run_cell.sh alone
  cell,         \* run_cell.sh's cell
  todo,         \* run_scope.sh: cells still to run
  copy,         \* cells still to be copied to the second location
  valid,        \* run_cell.sh: VALID = 0
  invalid,      \* run_scope.sh: INVALID
  exit          \* how the last script ended; -1: it is running, was killed, or the owner has acted since

places == <<runs, attempts, published, retired, verdict>>
copies == <<mirror, mirrored>>
gates == <<code, rejected>>
locals == <<cell, todo, copy, valid, invalid>>
script == <<step, scope, locals, exit>>
vars == <<places, copies, parity, gates, script>>

NoRecord == [cells |-> [c \in Cells |-> 0], code |-> 0, rc |-> 0]
NoCopy == [run |-> 0, whole |-> FALSE]

Init ==
  /\ runs = 0
  /\ attempts = [c \in Cells |-> {}]
  /\ published = [c \in Cells |-> 0]
  /\ retired = [c \in Cells |-> {}]
  /\ verdict = [k \in 1 .. MaxRuns |-> "none"]
  /\ mirror = [c \in Cells |-> NoCopy]
  /\ parity = NoRecord /\ mirrored = NoRecord
  /\ code = 1 /\ rejected = {}
  /\ step = "idle" /\ scope = FALSE /\ exit = -1
  /\ cell = None /\ todo = {} /\ copy = {} /\ valid = FALSE /\ invalid = 0

-----------------------------------------------------------------------------
(* cell_driver's reading of the directories *)

\* status: the evidence of a run judged valid is checked again.
Status(c) ==
  IF published[c] = 0
  THEN IF attempts[c] = {} THEN "new" ELSE "unpublished"
  ELSE CASE verdict[published[c]] = "none" -> "not-gated"
         [] verdict[published[c]] = "invalid" \/ published[c] \in rejected -> "invalid"
         [] OTHER -> "done"

\* group_ready: every cell that the scope does not account for is done.
Ready == \A c \in Cells \ Accounted : Status(c) = "done"

\* _runs: the exact runs that a parity record covers.
Runs == [c \in Cells |-> IF Status(c) = "done" THEN published[c] ELSE 0]

\* Mutant: a parity record covers the cells it names, whatever runs they hold and whatever code made it.
CoveredCells == \A c \in Cells : parity.cells[c] = 0 <=> Runs[c] = 0

Covered == parity.cells = Runs /\ parity.code = code

\* What the driver lists as published, which is what is copied to the second location.
Published == {c \in Cells : published[c] # 0}

-----------------------------------------------------------------------------
(* The scripts' own steps.  When one ends, run_scope.sh ends with run_cell.sh. *)

Go(where) == step' = where /\ UNCHANGED <<scope, exit>>

Ends(rc) ==
  /\ step' = "idle" /\ exit' = rc
  /\ cell' = None /\ todo' = {} /\ copy' = {} /\ valid' = FALSE /\ invalid' = 0
  /\ UNCHANGED scope

Starts(whole) == step = "idle" /\ exit' = -1 /\ scope' = whole

\* The script is killed, or a command of its fails.
Killed ==
  /\ step # "idle"
  /\ Ends(-1)
  /\ UNCHANGED <<places, copies, parity, gates>>

-----------------------------------------------------------------------------
(* run_cell.sh *)

\* Mutant: an attempt that holds a record does not stand in the way of another run.
RefusedPublished(c) == published[c] # 0

\* prepare: refused while a run of the cell is published or waits to be.
Refused(c) == published[c] # 0 \/ attempts[c] # {}

RunCellAlone ==
  /\ Starts(FALSE)
  /\ \E c \in Cells :
       IF Refused(c)
       THEN UNCHANGED <<step, locals>>
       ELSE step' = "runner" /\ cell' = c /\ UNCHANGED <<todo, copy, valid, invalid>>
  /\ UNCHANGED <<places, copies, parity, gates>>

NextCell ==
  /\ step = "next"
  /\ \E c \in todo :
       IF Refused(c)
       THEN Ends(2)
       ELSE /\ Go("runner")
            /\ cell' = c /\ todo' = todo \ {c}
            /\ UNCHANGED <<copy, valid, invalid>>
  /\ UNCHANGED <<places, copies, parity, gates>>

\* The attempt comes to a record; where it does not, it ends (Killed) and leaves nothing that is read again.
Recorded ==
  /\ step = "runner"
  /\ runs < MaxRuns
  /\ runs' = runs + 1
  /\ attempts' = [attempts EXCEPT ![cell] = @ \cup {runs'}]
  /\ Go("verdict")
  /\ UNCHANGED <<published, retired, verdict, copies, parity, gates, locals>>

\* The gates and the verdict; verdict may itself fail, and run_cell.sh goes on.
Judge ==
  /\ step = "verdict"
  /\ \E v \in {"none", "valid", "invalid"} :
       /\ verdict' = [verdict EXCEPT ![runs] = v]
       /\ valid' = (v = "valid")
  /\ Go("publish")
  /\ UNCHANGED <<runs, attempts, published, retired, copies, parity, gates, cell, todo, copy, invalid>>

\* publish: a rename, never over an existing directory.
Rename(c, k) ==
  /\ published[c] = 0
  /\ published' = [published EXCEPT ![c] = k]
  /\ attempts' = [attempts EXCEPT ![c] = @ \ {k}]
  /\ UNCHANGED <<runs, retired, verdict>>

Publish ==
  /\ step = "publish"
  /\ Rename(cell, runs)
  /\ Go("mirror cell")
  /\ copy' = {cell}
  /\ UNCHANGED <<copies, parity, gates, cell, todo, valid, invalid>>

\* Mutant: the copy is made over whatever is there.
FreshAnyway(c) == TRUE

\* fresh: the copy is absent, or a part of this run, or this run.
Fresh(c) == mirror[c].run \in {0, published[c]}

Mirroring(c) == step \in {"mirror first", "mirror cell", "mirror last"} /\ c \in copy

\* mirror_cell: refused where another run is; otherwise the copy begins (or begins again), and is proven identical.
MirrorBegins(c) ==
  /\ Mirroring(c)
  /\ mirror[c] # [run |-> published[c], whole |-> TRUE]
  /\ IF Fresh(c)
     THEN mirror' = [mirror EXCEPT ![c] = [run |-> published[c], whole |-> FALSE]] /\ UNCHANGED script
     ELSE Ends(3) /\ UNCHANGED mirror
  /\ UNCHANGED <<places, mirrored, parity, gates>>

MirrorEnds(c) ==
  /\ Mirroring(c)
  /\ mirror[c].run = published[c]
  /\ mirror' = [mirror EXCEPT ![c].whole = TRUE]
  /\ copy' = copy \ {c}
  /\ Go(step)
  /\ UNCHANGED <<places, mirrored, parity, gates, cell, todo, valid, invalid>>

\* cell_driver parity: not while the group is not ready, and not again over the same runs with the same gates.
Parity ==
  IF ~Ready \/ Covered
  THEN UNCHANGED parity
  ELSE \E rc \in 0 .. 1 : parity' = [cells |-> Runs, code |-> code, rc |-> rc]

\* A cell that completes its group and fails its parity makes its run_cell.sh fail.
CellParity ==
  /\ step = "mirror cell" /\ copy = {}
  /\ Parity
  /\ valid' = (valid /\ (Ready => parity'.rc = 0))
  /\ Go("mirror groups")
  /\ UNCHANGED <<places, copies, gates, cell, todo, copy, invalid>>

\* The parity records are copied; in run_scope.sh an invalid cell counts towards --max-invalid.
CellEnds ==
  /\ step = "mirror groups"
  /\ mirrored' = parity
  /\ LET n == IF valid THEN invalid ELSE invalid + 1
     IN  IF ~scope \/ n > MaxInvalid
         THEN Ends(IF valid THEN 0 ELSE 1)
         ELSE Go("next") /\ invalid' = n /\ cell' = None /\ valid' = FALSE /\ UNCHANGED <<todo, copy>>
  /\ UNCHANGED <<places, mirror, parity, gates>>

-----------------------------------------------------------------------------
(* run_scope.sh *)

RunScope ==
  /\ Starts(TRUE)
  /\ step' = "root first"
  /\ UNCHANGED <<places, copies, parity, gates, locals>>

\* mirror_root: the bookkeeping directories, then (MirrorBegins, MirrorEnds) every published cell.
MirrorRoot ==
  /\ \/ step = "root first" /\ Go("mirror first")
     \/ step = "root last" /\ Go("mirror last")
  /\ mirrored' = parity
  /\ copy' = Published
  /\ UNCHANGED <<places, mirror, parity, gates, cell, todo, valid, invalid>>

\* plan: the new cells that the scope does not account for.
Plan ==
  /\ step = "mirror first" /\ copy = {}
  /\ todo' = {c \in Cells \ Accounted : Status(c) = "new"}
  /\ Go("next")
  /\ UNCHANGED <<places, copies, parity, gates, cell, copy, valid, invalid>>

\* Mutant: the second location is not copied to after the last parity.
ScopeParityOnly ==
  /\ step = "next" /\ todo = {}
  /\ Parity
  /\ Go("mirror last")
  /\ UNCHANGED <<places, copies, gates, locals>>

\* No cell is left: the group's parity, which a driver that stopped early still owes.
ScopeParity ==
  /\ step = "next" /\ todo = {}
  /\ Parity
  /\ Go("root last")
  /\ UNCHANGED <<places, copies, gates, locals>>

\* rows_status: every cell that is not accounted for is done, and the ready group passed parity over its runs.
ScopeEnds ==
  /\ step = "mirror last" /\ copy = {}
  /\ Ends(IF Ready /\ Covered /\ parity.rc = 0 THEN 0 ELSE 1)
  /\ UNCHANGED <<places, copies, parity, gates>>

-----------------------------------------------------------------------------
(* The owner, between scripts *)

Owner == Starts(FALSE) /\ UNCHANGED <<step, locals>>

Retire(c) ==
  /\ Owner
  /\ published[c] # 0
  /\ retired' = [retired EXCEPT ![c] = @ \cup {published[c]}]
  /\ published' = [published EXCEPT ![c] = 0]
  /\ UNCHANGED <<runs, attempts, verdict, copies, parity, gates>>

PublishByHand(c) ==
  /\ Owner
  /\ \E k \in attempts[c] : Rename(c, k)
  /\ UNCHANGED <<copies, parity, gates>>

MoveMirrorAside(c) ==
  /\ Owner
  /\ mirror[c] # NoCopy
  /\ mirror' = [mirror EXCEPT ![c] = NoCopy]
  /\ UNCHANGED <<places, mirrored, parity, gates>>

\* The gates are fixed: runs that passed may not pass the recheck any more.
FixGates ==
  /\ Owner
  /\ code < MaxCode
  /\ code' = code + 1
  /\ rejected' \in SUBSET {k \in 1 .. runs : verdict[k] = "valid"}
  /\ UNCHANGED <<places, copies, parity>>

-----------------------------------------------------------------------------

Next ==
  \/ RunCellAlone \/ Recorded \/ Judge \/ Publish \/ CellParity \/ CellEnds
  \/ RunScope \/ MirrorRoot \/ Plan \/ NextCell \/ ScopeParity \/ ScopeEnds
  \/ Killed \/ FixGates
  \/ \E c \in Cells : MirrorBegins(c) \/ MirrorEnds(c) \/ Retire(c) \/ PublishByHand(c) \/ MoveMirrorAside(c)

Spec == Init /\ [][Next]_vars

-----------------------------------------------------------------------------

RunSets == SUBSET (1 .. MaxRuns)
Records == [cells : [Cells -> 0 .. MaxRuns], code : 0 .. MaxCode, rc : 0 .. 1]

TypeOK ==
  /\ runs \in 0 .. MaxRuns
  /\ attempts \in [Cells -> RunSets] /\ retired \in [Cells -> RunSets]
  /\ published \in [Cells -> 0 .. MaxRuns]
  /\ verdict \in [1 .. MaxRuns -> {"none", "valid", "invalid"}]
  /\ mirror \in [Cells -> [run : 0 .. MaxRuns, whole : BOOLEAN]]
  /\ parity \in Records /\ mirrored \in Records
  /\ code \in 1 .. MaxCode
  /\ rejected \subseteq {k \in 1 .. runs : verdict[k] = "valid"}
  /\ step \in {"idle", "runner", "verdict", "publish", "mirror cell", "mirror groups",
               "root first", "mirror first", "next", "root last", "mirror last"}
  /\ cell \in Cells \cup {None} /\ valid \in BOOLEAN /\ scope \in BOOLEAN
  /\ step \in {"runner", "verdict", "publish", "mirror cell", "mirror groups"} <=> cell # None
  /\ todo \subseteq Cells /\ \A c \in copy : published[c] # 0
  /\ invalid \in 0 .. MaxInvalid
  /\ exit \in -1 .. 3

\* "A published cell is never overwritten": every recorded run is kept, in exactly one place, and of a cell's runs at
\* most one is not retired, whenever a script was killed.
Live(c) == attempts[c] \cup ({published[c]} \ {0})
OneLiveRun ==
  /\ TypeOK
  /\ UNION {Live(c) \cup retired[c] : c \in Cells} = 1 .. runs
  /\ \A c \in Cells : Cardinality(Live(c)) <= 1 /\ published[c] \notin attempts[c]
  /\ \A c, d \in Cells :
       /\ Live(c) \cap retired[d] = {}
       /\ c # d => (Live(c) \cup retired[c]) \cap (Live(d) \cup retired[d]) = {}

\* "The run succeeds only when every rendered cell of the rows is done and every group of theirs has passed parity":
\* then the parity record is of exactly the runs now published, and the second location holds those runs, whole, and
\* that record.
SuccessIsWhole ==
  scope /\ step = "idle" /\ exit = 0 =>
    /\ \A c \in Cells \ Accounted : published[c] # 0
    /\ \A c \in Published :
         /\ parity.cells[c] \in IF c \in Accounted THEN {0, published[c]} ELSE {published[c]}
         /\ parity.cells[c] # 0 <=> verdict[published[c]] = "valid" /\ published[c] \notin rejected
         /\ mirror[c] = [run |-> published[c], whole |-> TRUE]
    /\ parity.rc = 0 /\ parity.code = code
    /\ mirrored = parity

\* "Nothing here ever deletes or overwrites a different run on the mirror": only the owner takes a run's copy away,
\* and a whole copy stays whole.
MirrorNeverMixes ==
  [][\A c \in Cells :
       mirror[c].run # 0 /\ mirror'[c].run # 0 =>
         mirror'[c].run = mirror[c].run /\ (mirror[c].whole => mirror'[c].whole)]_vars
=============================================================================
