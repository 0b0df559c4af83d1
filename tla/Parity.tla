--------------------------------- MODULE Parity ---------------------------------
(***************************************************************************)
(* gates/parity.py: whether the cells of one comparison group executed      *)
(* identically, except in the differences that the group declares.          *)
(*                                                                          *)
(* A compared cell is a record: its config; its group_spec (its reference,  *)
(* and intended: each of its patterns is the set of keys it matches); its   *)
(* execution manifest; the launch of its engines; and whether manifest,     *)
(* code and engines were still the same after the cell (steady).  A         *)
(* manifest is a function of the keys; a key is of one section, which the   *)
(* gate's rules go by; a cell without the key has Absent there.  The bench  *)
(* parameters, equal by the render of one scope, are left out.              *)
(***************************************************************************)
EXTENDS Integers, FiniteSets

CONSTANTS
  Section,     \* Section[k]: the manifest section of key k
  Absent       \* the value of a key that is not in the manifest

ASSUME SectionAssumption ==
  \A k \in DOMAIN Section : Section[k] \in {"system", "loaded", "artifacts", "threadpools", "other"}

Keys == DOMAIN Section

Differ(a, b) == {k \in Keys : a.manifest[k] # b.manifest[k]}

SystemDiffers(a, b) == \E k \in Differ(a, b) : Section[k] = "system"

LoadedWhereUsed == {"artifacts", "threadpools"}

\* The differences that follow from others: component classes from the system; whether an artifact was loaded from the
\* system too, and a pool from the process's history (their contents are OneContentPerPath's).
Follows(k, a, b) ==
  CASE Section[k] = "loaded" -> SystemDiffers(a, b)
    [] Section[k] \in LoadedWhereUsed ->
         SystemDiffers(a, b) \/ Section[k] = "threadpools" \/ Absent \notin {a.manifest[k], b.manifest[k]}
    [] OTHER -> FALSE

Offending(a, b, patterns) == {k \in Differ(a, b) \ patterns : ~Follows(k, a, b)}

\* A main group: one declaration, and any two cells differ in nothing else.
MainGroup(cells) ==
  \A a, b \in cells : a.intended = b.intended /\ Offending(a, b, UNION a.intended) = {}

\* Mutant: an arm need not differ where it says it does.
ArmInBounds(ref, arm) == arm.intended # {} /\ Offending(ref, arm, UNION arm.intended) = {}

\* An arm of an ablation differs from the reference only where it says, and does so by every pattern of its own.
Ablates(ref, arm) ==
  /\ arm.intended # {}
  /\ Offending(ref, arm, UNION arm.intended) = {}
  /\ \A pattern \in arm.intended : pattern \cap Differ(ref, arm) # {}

AblationGroup(cells, reference) ==
  LET refs == {c \in cells : c.config = reference}
  IN  /\ refs # {}
      /\ \A a, b \in refs : a.intended = {} /\ Offending(a, b, {}) = {}
      /\ \A ref \in refs, arm \in cells \ refs : Ablates(ref, arm)

OneContentPerPath(cells) ==
  \A k \in Keys, a, b \in cells :
    Section[k] \in LoadedWhereUsed /\ Absent \notin {a.manifest[k], b.manifest[k]} => a.manifest[k] = b.manifest[k]

SameLaunches(cells) == \A a, b \in cells : a.launch = b.launch

\* One cell is enough only where no difference is declared.
EnoughCells(cells) ==
  \/ Cardinality(cells) >= 2
  \/ \A c \in cells : c.reference = Absent /\ c.intended = {}

ParityPasses(cells) ==
  /\ EnoughCells(cells)
  /\ \A c \in cells : c.steady
  /\ \A a, b \in cells : a.reference = b.reference
  /\ LET reference == (CHOOSE c \in cells : TRUE).reference
     IN  IF reference = Absent THEN MainGroup(cells) ELSE AblationGroup(cells, reference)
  /\ OneContentPerPath(cells)
  /\ SameLaunches(cells)
=============================================================================
