-------------------------------- MODULE Campaign --------------------------------
(***************************************************************************)
(* tools/campaign.py and bench/scope.py: the lease's cells, rendered from   *)
(* the presets and the scope in stages, as pins, decisions, fleets and      *)
(* owner values arrive.                                                     *)
(*                                                                          *)
(* A preset file has parts, each the set of references it contains (parts,  *)
(* pins, owner placeholders), and templates: [family, values, refs,         *)
(* ablates].  A scope has groups, [fleet, reference, intended], and blocks, *)
(* in the order of the rows; the disabled ones are left out.  A block is    *)
(*   [row, group, alias, patterns, traces, seeds, owner, fill, hold, basis], *)
(* where a pattern is [template, by, values]: the values of its variable,   *)
(* or the decision (or owner list) that gives them; owner, the values that  *)
(* the owner must set, the seeds among them; basis, the dataset and prompt  *)
(* order.                                                                   *)
(*                                                                          *)
(* The inputs of one render, in, are [pins, owner, decisions, fleets,       *)
(* accounted]: what is given of each; a decision is the set of its values,  *)
(* {} until it is made.                                                     *)
(***************************************************************************)
EXTENDS Integers, Sequences, FiniteSets, FiniteSetsExt

CONSTANTS
  Parts,        \* Parts[x]: the references in part x
  Templates,    \* Templates[t]: [family, values, refs, ablates]
  Family,       \* Family[f]: the model family of fleet f
  None

-----------------------------------------------------------------------------
(* Configurations *)

PartNames == DOMAIN Parts

\* What a set of references comes to, parts resolved.
Resolved(refs) ==
  LET step[n \in 0 .. Cardinality(PartNames)] ==
        IF n = 0 THEN refs ELSE step[n - 1] \cup UNION {Parts[x] : x \in step[n - 1] \cap PartNames}
  IN  step[Cardinality(PartNames)]

NoCycle == \A x \in PartNames : x \notin Resolved(Parts[x])

\* What a configuration still needs: pins not given, owner values not set.
Unmet(t, in) ==
  {x \in Resolved(Templates[t].refs) \ PartNames :
     IF x \in DOMAIN in.pins THEN in.pins[x] = None ELSE x \notin in.owner}

\* The document of a rendered configuration: its template, its variable, the pins it read.
Document(config, in) ==
  [template |-> config.template,
   value    |-> config.value,
   pins     |-> [x \in Resolved(Templates[config.template].refs) \cap DOMAIN in.pins |-> in.pins[x]]]

\* expand: every configuration of a template, by its variable.
Presets == UNION {{<<t, v>> : v \in Templates[t].values} : t \in DOMAIN Templates}

-----------------------------------------------------------------------------
(* Blocks *)

\* A block names some configurations, traces and seeds; the owner may set the seeds later.
BlockOK(b) ==
  /\ b.patterns # {} /\ b.traces # {}
  /\ b.owner = {} => b.seeds # {}

\* load_scope_file, and the groups of the blocks, which every render looks up.
ScopeOK(s) ==
  /\ \A g \in DOMAIN s.groups :
       /\ s.groups[g].fleet \in DOMAIN Family
       /\ (s.groups[g].reference = None) # (s.groups[g].intended = None)
  /\ \A n \in DOMAIN s.blocks : BlockOK(s.blocks[n]) /\ s.blocks[n].group \in DOMAIN s.groups

AxisValues(pattern, in) == IF pattern.by = None THEN pattern.values ELSE in.decisions[pattern.by]

\* The block's configurations, decided; an id is the alias, the template and the variable.
BlockConfigs(b, in) ==
  {[alias |-> b.alias, template |-> p[1].template, value |-> p[2]] :
     p \in {q \in b.patterns \X (UNION {AxisValues(r, in) : r \in b.patterns}) : q[2] \in AxisValues(q[1], in)}}

Undecided(b, in) == \E p \in b.patterns : AxisValues(p, in) = {}

Cells(b, in) == {[config |-> c, trace |-> t, seed |-> s] : c \in BlockConfigs(b, in), t \in b.traces, s \in b.seeds}

\* An ablation group's reference, named by a decision; None for a comparison group.
Reference(s, g, in) ==
  LET ref == s.groups[g].reference
  IN  IF ref = None THEN None
      ELSE [alias |-> ref.alias, template |-> ref.template,
            value |-> CHOOSE v \in AxisValues(ref, in) : TRUE]

ReferenceUndecided(s, g, in) ==
  LET ref == s.groups[g].reference
  IN  ref # None /\ AxisValues(ref, in) = {}

\* Whether two blocks may list a common cell; seeds that are not set yet may be any.
CouldOverlap(a, b, in) ==
  a.traces \cap b.traces # {} /\ (a.owner \cup b.owner \subseteq in.owner => a.seeds \cap b.seeds # {})

\* What the block itself lacks.
Lacks(s, b, in) ==
  \/ b.hold
  \/ ~(b.owner \subseteq in.owner)
  \/ Undecided(b, in) \/ ReferenceUndecided(s, b.group, in)
  \/ in.fleets[s.groups[b.group].fleet] = None
  \/ \E c \in BlockConfigs(b, in) : Unmet(c.template, in) # {}

\* Mutant: a fill block does not wait for the blocks that its cells may move to.
WaitsForNone(s, in) == [n \in DOMAIN s.blocks |-> Lacks(s, s.blocks[n], in)]

\* The blocks left out of a render.  A fill block waits for every earlier block of its group that is left out and whose
\* cells it would skip.
Pending(s, in) ==
  LET pending[n \in DOMAIN s.blocks] ==
        \/ Lacks(s, s.blocks[n], in)
        \/ s.blocks[n].fill /\ \E m \in 1 .. n - 1 :
             pending[m] /\ s.blocks[m].group = s.blocks[n].group /\ CouldOverlap(s.blocks[m], s.blocks[n], in)
  IN  pending

-----------------------------------------------------------------------------
(* The render *)

Rendered(s, in) == LET pending == Pending(s, in) IN {n \in DOMAIN s.blocks : ~pending[n]}

\* Which rendered block lists a cell: the first; a later one skips it, if it is a fill block.
Listed(s, in) ==
  LET left == Rendered(s, in)
      of == [n \in left |-> Cells(s.blocks[n], in)]
  IN  [c \in UNION {of[n] : n \in left} |-> Min({n \in left : c \in of[n]})]

\* What the cells of a configuration declare to the parity gate.
Intended(s, g, config, in) ==
  IF s.groups[g].reference = None THEN s.groups[g].intended
  ELSE IF config = Reference(s, g, in) THEN {} ELSE Templates[config.template].ablates

\* The render: each listed cell with what is expected of it, the groups and blocks left for later, and its inputs.
Render(s, in) ==
  LET listed == Listed(s, in)
      left == DOMAIN s.blocks \ Rendered(s, in)
  IN  [cells |-> [c \in DOMAIN listed |->
                    [block |-> listed[c], group |-> s.blocks[listed[c]].group, document |-> Document(c.config, in)]],
       pending |-> left,
       pending_groups |-> {s.blocks[n].group : n \in left},
       in |-> in]

\* A row of the plan.
PlanRow(s, r, row) ==
  LET of(n) == s.blocks[n].row = row
  IN  [cells |-> {c \in DOMAIN r.cells : of(r.cells[c].block)}, pending |-> {n \in r.pending : of(n)}]

\* The scope's defects, which refuse a render that reaches them.
Defective(s, in) ==
  LET listed == Listed(s, in)
      GroupOf(n) == s.blocks[n].group
      blocks == {listed[c] : c \in DOMAIN listed}
  IN  \/ ~NoCycle
      \/ \E n \in DOMAIN s.blocks : ~s.blocks[n].hold /\ \E c \in BlockConfigs(s.blocks[n], in) :
           <<c.template, c.value>> \notin Presets \/ Templates[c.template].family # Family[s.groups[GroupOf(n)].fleet]
      \/ \E n \in Rendered(s, in) : ~s.blocks[n].fill /\ \E c \in Cells(s.blocks[n], in) : listed[c] < n
      \/ \E n \in DOMAIN s.blocks :
           LET ref == s.groups[GroupOf(n)].reference
           IN  ref # None /\ Cardinality(AxisValues(ref, in)) > 1
      \/ \E m, n \in blocks : GroupOf(m) = GroupOf(n) /\ s.blocks[m].basis # s.blocks[n].basis
      \/ \E c \in DOMAIN listed :
           LET g == GroupOf(listed[c])
           IN  s.groups[g].reference # None
                 /\ (c.config = Reference(s, g, in)) = (Intended(s, g, c.config, in) # {})
      \/ Rendered(s, in) = DOMAIN s.blocks /\ ~(in.accounted \subseteq DOMAIN listed)

\* Mutant: a configuration may change from one stage to the next.
KeepsCells(previous, now) ==
  \A c \in DOMAIN previous.cells :
    /\ c \in DOMAIN now.cells
    /\ previous.cells[c].block = now.cells[c].block /\ previous.cells[c].group = now.cells[c].group

\* check_previous: every configuration and every cell of the earlier stage is there, unchanged.
Keeps(previous, now) ==
  \A c \in DOMAIN previous.cells : c \in DOMAIN now.cells /\ now.cells[c] = previous.cells[c]
=============================================================================
