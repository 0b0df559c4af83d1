------------------------------ MODULE LeaseProof ------------------------------
(***************************************************************************)
(* A lease keeps what it rendered and what it ran, its report is sound, its *)
(* driver and its report agree, and its readings are fair, for any scope    *)
(* files, presets, inputs, environments and number of faults.               *)
(***************************************************************************)
EXTENDS Lease, FiniteSetTheorems, FunctionTheorems, SequenceTheorems, WellFoundedInduction, TLAPS

-----------------------------------------------------------------------------
(* The invariant *)

\* Inputs of a render.
Inputs(x) ==
  /\ x \in [pins : [Pins -> {None, 1, 2}], owner : SUBSET Owner,
           decisions : [Decisions -> {x.decisions[d] : d \in Decisions}],
            fleets : [Fleets -> {None, 1, 2}], accounted : {x.accounted}]
  /\ \A d \in Decisions : x.decisions[d] \in {{}} \cup MayDecide[d]

\* What is never taken back: a decision, and that a fleet was given.
Later(before, now) ==
  /\ \A d \in Decisions : before.decisions[d] \in {{}, now.decisions[d]}
  /\ \A f \in Fleets : before.fleets[f] # None => now.fleets[f] # None

\* The render is that of inputs without a defect, from before.
RenderedFrom(in) == render = Render(scope, in) /\ ~Defective(scope, in) /\ Inputs(in) /\ Later(in, given)

\* A run's number tells it from the retired run of its cell, and a parity record names no run that is still to come.
Numbered ==
  /\ \A c \in DOMAIN run : run[c].number = IF c \in retired THEN 2 ELSE 1
  /\ \A g \in DOMAIN scope.groups : \A c, k : <<c, k>> \in parity[g].runs =>
       (k = 1 /\ c \in retired) \/ (c \in DOMAIN run /\ run[c].number = k)

\* The runs that a record covers, of those that are still there.
Covered(g) == {c \in DOMAIN run : <<c, run[c].number>> \in parity[g].runs}

\* A cell as the gate compares it, under the group's reference by these inputs.
ComparedUnder(c, in) ==
  [config    |-> c.config,
   reference |-> Reference(scope, run[c].expected.group, in),
   intended  |-> Intended(scope, run[c].expected.group, c.config, in),
   manifest  |-> Compared(c).manifest,
   launch    |-> Compared(c).launch,
   steady    |-> Compared(c).steady]

\* A record that passed vouches for its runs, as long as they are all there.
Vouches(g) ==
  parity[g].rc = 0 /\ parity[g].runs \subseteq Runs(DOMAIN run) /\ Covered(g) # {} =>
    /\ ~ReferenceUndecided(scope, g, given)
    /\ \A c \in Covered(g) : run[c].expected.group = g
    /\ ParityPasses({ComparedUnder(c, given) : c \in Covered(g)})

IInv ==
  /\ scope \in LoadedScopes /\ Inputs(given)
  /\ render = NotRendered \/ RenderedFrom(render.in)
  /\ DOMAIN parity = DOMAIN scope.groups
  /\ Numbered
  /\ \A g \in DOMAIN scope.groups : Vouches(g)

-----------------------------------------------------------------------------
(* What a render holds *)

LEMMA RenderHolds ==
  ASSUME NEW s, NEW in
  PROVE  /\ Render(s, in).in = in
         /\ Render(s, in).pending = DOMAIN s.blocks \ Rendered(s, in)
         /\ Render(s, in).pending_groups = {s.blocks[n].group : n \in DOMAIN s.blocks \ Rendered(s, in)}
         /\ DOMAIN Render(s, in).cells = DOMAIN Listed(s, in)
         /\ \A c \in DOMAIN Listed(s, in) :
              Render(s, in).cells[c] =
                [block |-> Listed(s, in)[c], group |-> s.blocks[Listed(s, in)[c]].group,
                 document |-> Document(c.config, in)]
BY DEF Render

LEMMA LaterIsTransitive ==
  ASSUME NEW x, NEW y, NEW z, Later(x, y), Later(y, z)
  PROVE  Later(x, z)
BY DEF Later

\* A reference that is decided stays as it is.
LEMMA ReferenceStays ==
  ASSUME scope \in LoadedScopes, NEW x, NEW y, Later(x, y),
         NEW g \in DOMAIN scope.groups, ~ReferenceUndecided(scope, g, x)
  PROVE  Reference(scope, g, y) = Reference(scope, g, x) /\ ~ReferenceUndecided(scope, g, y)
<1> DEFINE ref == scope.groups[g].reference
<1>1. CASE ref = None BY <1>1 DEF Reference, ReferenceUndecided
<1>2. CASE ref # None
  <2>1. ref.by \in Decisions \cup {None} BY <1>2, LeaseAssumption DEF LoadedScopes
  <2>2. AxisValues(ref, x) # {} BY <1>2 DEF ReferenceUndecided
  <2>3. AxisValues(ref, y) = AxisValues(ref, x) BY <2>1, <2>2 DEF AxisValues, Later
  <2> QED BY <1>2, <2>2, <2>3 DEF Reference, ReferenceUndecided
<1> QED BY <1>1, <1>2

LEMMA IntendedStays ==
  ASSUME NEW g, NEW config, NEW x, NEW y, Reference(scope, g, y) = Reference(scope, g, x)
  PROVE  Intended(scope, g, config, y) = Intended(scope, g, config, x)
BY DEF Intended

\* A record that stands is of the runs that it was of.
LEMMA VouchesStays ==
  ASSUME IInv, NEW g \in DOMAIN scope.groups, scope' = scope, Later(given, given'), parity'[g] = parity[g],
         \A c \in DOMAIN run' : <<c, run'[c].number>> \in parity[g].runs => c \in DOMAIN run /\ run'[c] = run[c]
  PROVE  Vouches(g)'
<1> DEFINE covered == {c \in DOMAIN run' : <<c, run'[c].number>> \in parity[g].runs}
           runs == {<<c, run'[c].number>> : c \in DOMAIN run'}
<1> SUFFICES ASSUME parity[g].rc = 0, parity[g].runs \subseteq runs, covered # {}
             PROVE  /\ ~ReferenceUndecided(scope, g, given')
                    /\ \A c \in covered : run'[c].expected.group = g
                    /\ ParityPasses({ComparedUnder(c, given)' : c \in covered})
  BY DEF Vouches, Covered, Runs
<1>1. covered = Covered(g)
  <2>1. covered \subseteq Covered(g) BY DEF Covered
  <2>2. ASSUME NEW c \in Covered(g) PROVE c \in covered
    <3>1. <<c, run[c].number>> \in runs BY DEF Covered
    <3>2. PICK d \in DOMAIN run' : <<c, run[c].number>> = <<d, run'[d].number>> BY <3>1
    <3> QED BY <3>2 DEF Covered
  <2> QED BY <2>1, <2>2
<1>2. parity[g].runs \subseteq Runs(DOMAIN run)
  <2> SUFFICES ASSUME NEW p \in parity[g].runs PROVE p \in Runs(DOMAIN run) OBVIOUS
  <2>1. PICK d \in DOMAIN run' : p = <<d, run'[d].number>> OBVIOUS
  <2> QED BY <2>1 DEF Runs
<1>3. /\ ~ReferenceUndecided(scope, g, given)
      /\ \A c \in covered : run[c].expected.group = g
      /\ ParityPasses({ComparedUnder(c, given) : c \in covered})
  BY <1>1, <1>2 DEF IInv, Vouches
<1>4. Reference(scope, g, given') = Reference(scope, g, given) /\ ~ReferenceUndecided(scope, g, given')
  BY <1>3, ReferenceStays DEF IInv
<1>5. ASSUME NEW c \in covered PROVE ComparedUnder(c, given)' = ComparedUnder(c, given)
  <2>1. run'[c] = run[c] /\ run[c].expected.group = g BY <1>3
  <2>2. Intended(scope, g, c.config, given') = Intended(scope, g, c.config, given) BY <1>4, IntendedStays
  <2> QED BY <1>4, <2>1, <2>2 DEF ComparedUnder, Compared
<1>6. {ComparedUnder(c, given)' : c \in covered} = {ComparedUnder(c, given) : c \in covered} BY <1>5
<1> QED BY <1>3, <1>4, <1>6

-----------------------------------------------------------------------------
(* Which blocks a render has *)

LEMMA LeastNatural ==
  ASSUME NEW S, S \subseteq Nat, S # {}
  PROVE  \E n \in S : \A m \in S : n <= m
<1>1. PICK n \in S : \A m \in S : ~ (<<m, n>> \in OpToRel(<, Nat)) BY NatLessThanWellFounded, WFMin
<1>2. \A m \in S : ~(m < n) BY <1>1 DEF OpToRel
<1>3. \A m \in S : m \in Nat /\ n \in Nat OBVIOUS
<1> QED BY <1>2, <1>3

LEMMA MinIsLeast ==
  ASSUME NEW S, S \subseteq Nat, S # {}
  PROVE  Min(S) \in S /\ \A m \in S : Min(S) <= m
BY LeastNatural DEF Min

\* A block is left out for what it lacks or for an earlier one that is, as the recursion says.
LEMMA RenderedAre ==
  ASSUME NEW s \in Scopes, NEW in
  PROVE  /\ Rendered(s, in) \subseteq DOMAIN s.blocks
         /\ \A n \in DOMAIN s.blocks :
              n \in Rendered(s, in) <=>
                /\ ~Lacks(s, s.blocks[n], in)
                /\ s.blocks[n].fill => \A m \in 1 .. n - 1 :
                     \/ m \in Rendered(s, in)
                     \/ s.blocks[m].group # s.blocks[n].group
                     \/ ~CouldOverlap(s.blocks[m], s.blocks[n], in)
<1> DEFINE N == Len(s.blocks)
           Bars(m, n) == s.blocks[m].group = s.blocks[n].group /\ CouldOverlap(s.blocks[m], s.blocks[n], in)
           Out(f, n) == Lacks(s, s.blocks[n], in) \/ (s.blocks[n].fill /\ \E m \in 1 .. n - 1 : f[m] /\ Bars(m, n))
           Outs(f, k) == f = [n \in 1 .. k |-> Out(f, n)]
           pending == CHOOSE f : Outs(f, N)
<1>1. N \in Nat /\ DOMAIN s.blocks = 1 .. N BY LeaseAssumption
<1>2. Pending(s, in) = pending BY <1>1 DEF Pending
<1> HIDE DEF N, Bars
<1>3. \E f : Outs(f, N)
  <2> DEFINE T == {k \in 0 .. N : ~ \E f : Outs(f, k)}
  <2> SUFFICES ASSUME T # {} PROVE FALSE
    <3>1. N \in 0 .. N BY <1>1
    <3> HIDE DEF Outs
    <3> QED BY <3>1
  <2>1. PICK k \in T : \A l \in T : k <= l
    <3>1. T \subseteq Nat BY <1>1
    <3> HIDE DEF T
    <3> QED BY <3>1, LeastNatural
  <2>2. k # 0
    <3>1. Outs(<<>>, 0) OBVIOUS
    <3> HIDE DEF Outs
    <3> QED BY <2>1, <3>1
  <2>3. k \in Nat /\ k \in 1 .. N /\ k - 1 \in 0 .. N /\ k - 1 \notin T
    <3>1. k \in 0 .. N BY <2>1
    <3>2. k \in Nat /\ k \in 1 .. N /\ k - 1 \in 0 .. N /\ ~(k <= k - 1) BY <1>1, <2>2, <3>1
    <3> HIDE DEF T
    <3> QED BY <2>1, <3>2
  <2>4. PICK f : Outs(f, k - 1) BY <2>3
  <2> DEFINE g == [n \in 1 .. k |-> IF n = k THEN Out(f, k) ELSE f[n]]
  <2>5. ASSUME NEW n \in 1 .. k PROVE g[n] = Out(g, n)
    <3>1. \A m \in 1 .. n - 1 : m \in 1 .. k /\ m # k BY <2>3
    <3>2. \A m \in 1 .. n - 1 : g[m] = f[m] BY <3>1
    <3>3. Out(g, n) = Out(f, n)
      <4> HIDE DEF g
      <4> QED BY Zenon, <3>2
    <3>4. CASE n = k BY <3>3, <3>4
    <3>5. CASE n # k
      <4>1. n \in 1 .. k - 1 BY <2>3, <3>5
      <4>2. f[n] = Out(f, n)
        <5> HIDE DEF Out
        <5> QED BY <2>4, <4>1
      <4> QED BY <3>3, <3>5, <4>2
    <3> QED BY <3>4, <3>5
  <2>6. Outs(g, k)
    <3>1. g = [n \in 1 .. k |-> g[n]] OBVIOUS
    <3> HIDE DEF g, Out
    <3> QED BY <2>5, <3>1
  <2> HIDE DEF g, Outs
  <2> QED BY <2>1, <2>6
<1>4. Outs(pending, N)
  <2> HIDE DEF Outs
  <2> QED BY <1>3
<1> HIDE DEF pending
<1>5. \A n \in 1 .. N : pending[n] = Out(pending, n)
  <2> HIDE DEF Out
  <2> QED BY <1>4
<1>6. /\ Rendered(s, in) \subseteq DOMAIN s.blocks
      /\ \A n \in DOMAIN s.blocks : n \in Rendered(s, in) <=> ~pending[n]
  BY <1>2 DEF Rendered
<1>7. \A n \in 1 .. N : \A m \in 1 .. n - 1 : m \in 1 .. N BY <1>1
<1>8. \A n \in DOMAIN s.blocks : n \in Rendered(s, in) <=>
        /\ ~Lacks(s, s.blocks[n], in)
        /\ s.blocks[n].fill => \A m \in 1 .. n - 1 : m \in Rendered(s, in) \/ ~Bars(m, n)
  BY Zenon, <1>1, <1>5, <1>6, <1>7
<1> QED BY Zenon, <1>6, <1>8 DEF Bars

\* A cell is listed once, in the first block that lists it.
LEMMA ListedAre ==
  ASSUME NEW s \in Scopes, NEW in
  PROVE  /\ DOMAIN Listed(s, in) = UNION {Cells(s.blocks[n], in) : n \in Rendered(s, in)}
         /\ \A c \in DOMAIN Listed(s, in) :
              /\ Listed(s, in)[c] \in Rendered(s, in)
              /\ c \in Cells(s.blocks[Listed(s, in)[c]], in)
              /\ \A n \in Rendered(s, in) : c \in Cells(s.blocks[n], in) => Listed(s, in)[c] <= n
<1> DEFINE left == Rendered(s, in)
           of == [n \in left |-> Cells(s.blocks[n], in)]
           all == UNION {of[n] : n \in left}
           in_(c) == {n \in left : c \in of[n]}
<1>1. left \subseteq Nat
  <2>1. DOMAIN s.blocks \subseteq Nat
    <3>1. DOMAIN s.blocks = 1 .. Len(s.blocks) /\ Len(s.blocks) \in Nat BY LeaseAssumption
    <3> QED BY <3>1
  <2> QED BY <2>1, RenderedAre
<1>2. Listed(s, in) = [c \in all |-> Min(in_(c))] BY DEF Listed
<1> HIDE DEF left
<1>3. all = UNION {Cells(s.blocks[n], in) : n \in left} OBVIOUS
<1>4. ASSUME NEW c \in all PROVE Min(in_(c)) \in in_(c) /\ \A n \in in_(c) : Min(in_(c)) <= n
  <2>1. in_(c) \subseteq Nat /\ in_(c) # {} BY <1>1
  <2> HIDE DEF in_
  <2> QED BY <2>1, MinIsLeast
<1>5. \A n \in left : of[n] = Cells(s.blocks[n], in) OBVIOUS
<1>6. \A c \in all :
        /\ Min(in_(c)) \in left /\ c \in of[Min(in_(c))]
        /\ \A n \in left : c \in of[n] => Min(in_(c)) <= n
  BY <1>4
<1> HIDE DEF of, all, in_
<1>7. DOMAIN Listed(s, in) = all /\ \A c \in all : Listed(s, in)[c] = Min(in_(c)) BY <1>2
<1> QED BY <1>3, <1>5, <1>6, <1>7 DEF left

\* A rendered cell, by the inputs of its render.
LEMMA ExpectedAre ==
  ASSUME IInv, NEW c \in Expected
  PROVE  /\ render # NotRendered /\ RenderedFrom(render.in) /\ scope \in Scopes
         /\ Expected = DOMAIN Listed(scope, render.in)
         /\ render.cells[c] =
              [block |-> Listed(scope, render.in)[c], group |-> scope.blocks[Listed(scope, render.in)[c]].group,
               document |-> Document(c.config, render.in)]
         /\ Listed(scope, render.in)[c] \in Rendered(scope, render.in)
         /\ Listed(scope, render.in)[c] \in DOMAIN scope.blocks
         /\ GroupOf(c) \in DOMAIN scope.groups
         /\ ~ReferenceUndecided(scope, GroupOf(c), render.in)
<1>1. render # NotRendered BY DEF Expected, NotRendered
<1>2. RenderedFrom(render.in) /\ scope \in Scopes /\ ScopeOK(scope) BY <1>1 DEF IInv, LoadedScopes
<1>3. Expected = DOMAIN Listed(scope, render.in) BY <1>2, RenderHolds DEF RenderedFrom, Expected
<1>4. render.cells[c] =
        [block |-> Listed(scope, render.in)[c], group |-> scope.blocks[Listed(scope, render.in)[c]].group,
         document |-> Document(c.config, render.in)]
  BY <1>2, <1>3, RenderHolds DEF RenderedFrom
<1>5. Listed(scope, render.in)[c] \in Rendered(scope, render.in) BY <1>2, <1>3, ListedAre
<1>6. Listed(scope, render.in)[c] \in DOMAIN scope.blocks BY <1>2, <1>5, RenderedAre
<1>7. GroupOf(c) = scope.blocks[Listed(scope, render.in)[c]].group BY <1>4 DEF GroupOf
<1>8. GroupOf(c) \in DOMAIN scope.groups BY <1>2, <1>6, <1>7 DEF ScopeOK
<1>9. ~Lacks(scope, scope.blocks[Listed(scope, render.in)[c]], render.in) BY <1>2, <1>5, <1>6, RenderedAre
<1>10. ~ReferenceUndecided(scope, GroupOf(c), render.in) BY <1>7, <1>9 DEF Lacks
<1> QED BY <1>1, <1>2, <1>3, <1>4, <1>5, <1>6, <1>8, <1>10

-----------------------------------------------------------------------------
(* Every step keeps the invariant *)

LEMMA InitHolds == ASSUME Init PROVE IInv
<1>1. Inputs(given)
  <2> DEFINE x == [pins |-> [p \in Pins |-> None], owner |-> {}, decisions |-> [d \in Decisions |-> {}],
                   fleets |-> [f \in Fleets |-> None], accounted |-> {}]
  <2>1. given = x BY DEF Init
  <2>2. /\ [p \in Pins |-> None] \in [Pins -> {None, 1, 2}]
        /\ [f \in Fleets |-> None] \in [Fleets -> {None, 1, 2}]
        /\ [d \in Decisions |-> {}] \in [Decisions -> {x.decisions[d] : d \in Decisions}]
    OBVIOUS
  <2>3. x \in [pins : [Pins -> {None, 1, 2}], owner : SUBSET Owner,
               decisions : [Decisions -> {x.decisions[d] : d \in Decisions}],
               fleets : [Fleets -> {None, 1, 2}], accounted : {x.accounted}]
    BY <2>2
  <2>4. \A d \in Decisions : x.decisions[d] = {} OBVIOUS
  <2> HIDE DEF x
  <2> QED BY <2>1, <2>3, <2>4 DEF Inputs
<1>2. DOMAIN parity = DOMAIN scope.groups /\ \A g \in DOMAIN scope.groups : parity[g] = NoParity BY DEF Init
<1>3. run = <<>> /\ DOMAIN run = {} BY DEF Init
<1>4. Numbered BY <1>2, <1>3 DEF Numbered, NoParity
<1>5. \A g \in DOMAIN scope.groups : Covered(g) = {} BY <1>3 DEF Covered
<1> QED BY <1>1, <1>2, <1>4, <1>5 DEF IInv, Vouches, Init

\* More or other inputs, but for the decisions made.
LEMMA GivenKeeps ==
  ASSUME IInv, Inputs(given'), Later(given, given'), UNCHANGED <<scope, render, run, retired, parity>>
  PROVE  IInv'
<1>1. (render = NotRendered \/ RenderedFrom(render.in))'
  <2>1. CASE render = NotRendered BY <2>1
  <2>2. CASE RenderedFrom(render.in)
    <3>1. Later(render.in, given') BY <2>2, LaterIsTransitive DEF RenderedFrom
    <3> QED BY <2>2, <3>1 DEF RenderedFrom
  <2> QED BY <2>1, <2>2 DEF IInv
<1>2. Numbered' BY DEF IInv, Numbered
<1>3. ASSUME NEW g \in DOMAIN scope.groups PROVE Vouches(g)' BY VouchesStays
<1> QED BY <1>1, <1>2, <1>3 DEF IInv

\* Another field of the inputs than the decisions and the fleets.
LEMMA GiveOtherKeeps ==
  ASSUME IInv, Inputs(given'), given'.decisions = given.decisions, given'.fleets = given.fleets,
         UNCHANGED <<scope, render, run, retired, parity>>
  PROVE  IInv'
BY GivenKeeps DEF Later

\* What a field of the inputs is.
LEMMA InputsAre ==
  ASSUME NEW x, Inputs(x)
  PROVE  /\ x = [pins |-> x.pins, owner |-> x.owner, decisions |-> x.decisions, fleets |-> x.fleets,
                 accounted |-> x.accounted]
         /\ x.pins \in [Pins -> {None, 1, 2}] /\ x.owner \subseteq Owner
         /\ x.fleets \in [Fleets -> {None, 1, 2}]
         /\ x.decisions = [d \in Decisions |-> x.decisions[d]]
         /\ \A d \in Decisions : x.decisions[d] \in {{}} \cup MayDecide[d]
BY DEF Inputs

LEMMA AreInputs ==
  ASSUME NEW pins \in [Pins -> {None, 1, 2}], NEW owner \in SUBSET Owner, NEW decisions,
         decisions = [d \in Decisions |-> decisions[d]], \A d \in Decisions : decisions[d] \in {{}} \cup MayDecide[d],
         NEW fleets \in [Fleets -> {None, 1, 2}], NEW accounted
  PROVE  Inputs([pins |-> pins, owner |-> owner, decisions |-> decisions, fleets |-> fleets, accounted |-> accounted])
<1> DEFINE x == [pins |-> pins, owner |-> owner, decisions |-> decisions, fleets |-> fleets, accounted |-> accounted]
<1>1. decisions \in [Decisions -> {decisions[d] : d \in Decisions}] OBVIOUS
<1>2. x \in [pins : [Pins -> {None, 1, 2}], owner : SUBSET Owner,
             decisions : [Decisions -> {decisions[d] : d \in Decisions}],
             fleets : [Fleets -> {None, 1, 2}], accounted : {accounted}]
  BY <1>1
<1>3. x.decisions = decisions /\ x.accounted = accounted OBVIOUS
<1> HIDE DEF x
<1>4. Inputs(x) BY <1>2, <1>3 DEF Inputs
<1> QED BY <1>4 DEF x

LEMMA PinKeeps ==
  ASSUME IInv, NEW x \in Pins, GivePin(x) \/ ReplacePin(x) PROVE IInv'
<1>1. PICK n \in {1, 2} : Give([given EXCEPT !.pins[x] = n]) BY DEF GivePin, ReplacePin
<1> DEFINE pins == [given.pins EXCEPT ![x] = n]
<1>2. Inputs(given) BY DEF IInv
<1>3. pins \in [Pins -> {None, 1, 2}] BY <1>2, InputsAre
<1> HIDE DEF pins
<1>4. given' = [given EXCEPT !.pins = pins] BY <1>1 DEF Give, pins
<1>5. given' = [pins |-> pins, owner |-> given.owner, decisions |-> given.decisions,
                fleets |-> given.fleets, accounted |-> given.accounted]
  BY <1>2, <1>4 DEF Inputs
<1>6. Inputs(given') BY <1>2, <1>3, <1>5, InputsAre, AreInputs
<1>7. given'.decisions = given.decisions /\ given'.fleets = given.fleets BY <1>5
<1> QED BY <1>1, <1>6, <1>7, GiveOtherKeeps DEF Give

LEMMA OwnerKeeps ==
  ASSUME IInv, NEW o \in Owner, SetOwner(o) PROVE IInv'
<1> DEFINE owner == given.owner \cup {o}
<1>1. Inputs(given) BY DEF IInv
<1>2. owner \in SUBSET Owner BY <1>1, InputsAre
<1>3. given' = [given EXCEPT !.owner = owner] BY DEF SetOwner, Give
<1> HIDE DEF owner
<1>4. given' = [pins |-> given.pins, owner |-> owner, decisions |-> given.decisions,
                fleets |-> given.fleets, accounted |-> given.accounted]
  BY <1>1, <1>3 DEF Inputs
<1>5. Inputs(given') BY <1>1, <1>2, <1>4, InputsAre, AreInputs
<1>6. given'.decisions = given.decisions /\ given'.fleets = given.fleets BY <1>4
<1> QED BY <1>5, <1>6, GiveOtherKeeps DEF SetOwner, Give

LEMMA AccountKeeps ==
  ASSUME IInv, NEW c \in Expected, Account(c) PROVE IInv'
<1> DEFINE accounted == given.accounted \cup {c}
<1>1. Inputs(given) BY DEF IInv
<1>2. given' = [given EXCEPT !.accounted = accounted] BY DEF Account, Give
<1> HIDE DEF accounted
<1>3. given' = [pins |-> given.pins, owner |-> given.owner, decisions |-> given.decisions,
                fleets |-> given.fleets, accounted |-> accounted]
  BY <1>1, <1>2 DEF Inputs
<1>4. Inputs(given') BY <1>1, <1>3, InputsAre, AreInputs
<1>5. given'.decisions = given.decisions /\ given'.fleets = given.fleets BY <1>3
<1> QED BY <1>4, <1>5, GiveOtherKeeps DEF Account, Give

LEMMA DecideKeeps ==
  ASSUME IInv, NEW d \in Decisions, Decide(d) PROVE IInv'
<1>1. PICK v \in MayDecide[d] : Give([given EXCEPT !.decisions[d] = v]) BY DEF Decide
<1> DEFINE decisions == [given.decisions EXCEPT ![d] = v]
<1>2. Inputs(given) BY DEF IInv
<1>3. /\ DOMAIN given.decisions = Decisions
      /\ \A e \in Decisions : given.decisions[e] \in {{}} \cup MayDecide[e]
  <2>1. given.decisions = [e \in Decisions |-> given.decisions[e]] BY <1>2, InputsAre
  <2>2. DOMAIN given.decisions = Decisions BY <2>1
  <2> QED BY <1>2, <2>2, InputsAre
<1>4. \A e \in Decisions : decisions[e] = IF e = d THEN v ELSE given.decisions[e] BY <1>3
<1>5. decisions = [e \in Decisions |-> decisions[e]] BY <1>3
<1>6. \A e \in Decisions : decisions[e] \in {{}} \cup MayDecide[e] BY <1>3, <1>4
<1>7. given' = [given EXCEPT !.decisions = decisions] BY <1>1 DEF Give
<1> HIDE DEF decisions
<1>8. given' = [pins |-> given.pins, owner |-> given.owner, decisions |-> decisions,
                fleets |-> given.fleets, accounted |-> given.accounted]
  BY <1>2, <1>7 DEF Inputs
<1>9. Inputs(given') BY <1>2, <1>5, <1>6, <1>8, InputsAre, AreInputs
<1>10. given.decisions[d] = {} BY DEF Decide
<1>11. Later(given, given') BY <1>4, <1>8, <1>10 DEF Later
<1> QED BY <1>1, <1>9, <1>11, GivenKeeps DEF Give

LEMMA FleetKeeps ==
  ASSUME IInv, NEW f \in Fleets, GiveFleet(f) \/ ReplaceFleet(f) PROVE IInv'
<1>1. PICK n \in {1, 2} : Give([given EXCEPT !.fleets[f] = n]) BY DEF GiveFleet, ReplaceFleet
<1> DEFINE fleets == [given.fleets EXCEPT ![f] = n]
<1>2. Inputs(given) BY DEF IInv
<1>3. fleets \in [Fleets -> {None, 1, 2}] BY <1>2, InputsAre
<1>4. \A e \in Fleets : fleets[e] = IF e = f THEN n ELSE given.fleets[e] BY <1>2, InputsAre
<1>5. given' = [given EXCEPT !.fleets = fleets] BY <1>1 DEF Give
<1> HIDE DEF fleets
<1>6. given' = [pins |-> given.pins, owner |-> given.owner, decisions |-> given.decisions,
                fleets |-> fleets, accounted |-> given.accounted]
  BY <1>2, <1>5 DEF Inputs
<1>7. Inputs(given') BY <1>2, <1>3, <1>6, InputsAre, AreInputs
<1>8. n # None BY LeaseAssumption
<1>9. Later(given, given') BY <1>4, <1>6, <1>8 DEF Later
<1> QED BY <1>1, <1>7, <1>9, GivenKeeps DEF Give

LEMMA RenderingKeeps == ASSUME IInv, Rendering PROVE IInv'
<1>1. render' = Render(scope, given) /\ ~Defective(scope, given)
      /\ UNCHANGED <<scope, given, run, retired, parity, code>>
  BY DEF Rendering
<1>2. render'.in = given BY <1>1, RenderHolds
<1>3. Later(given, given) BY DEF Later
<1>4. RenderedFrom(render.in)' BY <1>1, <1>2, <1>3 DEF RenderedFrom, IInv
<1>5. Numbered' BY <1>1 DEF IInv, Numbered
<1>6. ASSUME NEW g \in DOMAIN scope.groups PROVE Vouches(g)' BY <1>1, <1>3, VouchesStays
<1> QED BY <1>1, <1>4, <1>5, <1>6 DEF IInv

LEMMA FixGatesKeeps == ASSUME IInv, FixGates PROVE IInv'
<1>1. UNCHANGED <<scope, given, render, run, retired, parity>> BY DEF FixGates
<1>2. Inputs(given') /\ given'.decisions = given.decisions /\ given'.fleets = given.fleets BY <1>1 DEF IInv
<1> QED BY <1>1, <1>2, GiveOtherKeeps

LEMMA RetireKeeps == ASSUME IInv, NEW c \in DOMAIN run, Retire(c) PROVE IInv'
<1>1. /\ c \notin retired /\ retired' = retired \cup {c}
      /\ run' = [d \in DOMAIN run \ {c} |-> run[d]]
      /\ UNCHANGED <<scope, given, render, parity, code, faults>>
  BY DEF Retire
<1>2. DOMAIN run' = DOMAIN run \ {c} /\ \A d \in DOMAIN run' : run'[d] = run[d] BY <1>1
<1>3. run[c].number = 1 BY <1>1 DEF IInv, Numbered
<1>4. Numbered' BY <1>1, <1>2, <1>3 DEF IInv, Numbered
<1>5. Later(given, given') BY <1>1 DEF Later
<1>6. ASSUME NEW g \in DOMAIN scope.groups PROVE Vouches(g)' BY <1>1, <1>2, <1>5, VouchesStays
<1>7. (render = NotRendered \/ RenderedFrom(render.in))' BY <1>1 DEF IInv, RenderedFrom
<1> QED BY <1>1, <1>4, <1>6, <1>7 DEF IInv

LEMMA RunCellKeeps == ASSUME IInv, NEW c \in Expected, RunCell(c) PROVE IInv'
<1>1. c \notin DOMAIN run
  <2>1. PICK row \in Rows : c \in ToRun(row) BY DEF RunCell
  <2> QED BY <2>1 DEF ToRun
<1>2. UNCHANGED <<scope, given, render, retired, parity, code>> BY DEF RunCell
<1>3. /\ DOMAIN run' = DOMAIN run \cup {c} /\ run'[c].number = (IF c \in retired THEN 2 ELSE 1)
      /\ \A d \in DOMAIN run : run'[d] = run[d]
  <2> DEFINE Published(fine, gated, env) ==
        run' = [d \in DOMAIN run \cup {c} |->
                  IF d # c THEN run[d]
                  ELSE [number |-> IF c \in retired THEN 2 ELSE 1, expected |-> render.cells[c],
                        fleet |-> given.fleets[scope.groups[GroupOf(c)].fleet], fine |-> fine, gated |-> gated,
                        env |-> env]]
  <2>1. \/ Published(TRUE, TRUE, "usual") \/ Published(FALSE, FALSE, "usual") \/ Published(TRUE, FALSE, "usual")
        \/ \E env \in Envs : Published(TRUE, TRUE, env)
    BY DEF RunCell
  <2>2. \E fine, gated, env : Published(fine, gated, env)
    <3> HIDE DEF Published
    <3> QED BY <2>1
  <2>3. PICK fine, gated, env : Published(fine, gated, env) BY <2>2
  <2> QED BY <1>1, <2>3
<1>4. Numbered' BY <1>1, <1>2, <1>3 DEF IInv, Numbered
<1>5. Later(given, given') BY <1>2 DEF Later
<1>6. ASSUME NEW g \in DOMAIN scope.groups PROVE Vouches(g)'
  <2>1. ASSUME NEW d \in DOMAIN run', <<d, run'[d].number>> \in parity[g].runs PROVE d # c
    <3> SUFFICES ASSUME d = c PROVE FALSE OBVIOUS
    <3> QED BY <1>1, <1>3, <2>1 DEF IInv, Numbered
  <2> QED BY <1>2, <1>3, <1>5, <2>1, VouchesStays
<1>7. (render = NotRendered \/ RenderedFrom(render.in))' BY <1>2 DEF IInv, RenderedFrom
<1> QED BY <1>2, <1>4, <1>6, <1>7 DEF IInv

\* A cell that is done is of the latest render, and of its group there.
LEMMA DoneAre ==
  \A c \in Done : /\ c \in Expected /\ c \in Ok /\ c \in DOMAIN run /\ run[c].fine /\ run[c].gated
                  /\ run[c].expected = render.cells[c] /\ run[c].expected.group = GroupOf(c)
BY DEF Done, Ok, Current, GroupOf

\* The group's reference and what it declares are the same under the inputs of the render and under those of now.
LEMMA ComparedStays ==
  ASSUME IInv, NEW g \in DOMAIN scope.groups, NEW c \in InGroup(g) \cap Done
  PROVE  /\ Compared(c) = ComparedUnder(c, given) /\ ~ReferenceUndecided(scope, g, given)
         /\ Reference(scope, g, given) = Reference(scope, g, render.in)
<1>1. c \in Expected /\ GroupOf(c) = g /\ run[c].expected.group = g BY DoneAre DEF InGroup
<1>2. ~ReferenceUndecided(scope, g, render.in) /\ Later(render.in, given) /\ scope \in LoadedScopes
  BY <1>1, ExpectedAre DEF IInv, RenderedFrom
<1>3. Reference(scope, g, given) = Reference(scope, g, render.in) /\ ~ReferenceUndecided(scope, g, given)
  BY <1>2, ReferenceStays
<1>4. Intended(scope, g, c.config, given) = Intended(scope, g, c.config, render.in) BY <1>3, IntendedStays
<1> QED BY <1>1, <1>3, <1>4 DEF ComparedUnder, Compared

LEMMA RunParityKeeps == ASSUME IInv, NEW g \in DOMAIN scope.groups, RunParity(g) PROVE IInv'
<1> DEFINE ready == GroupReady(g)
           passes == ParityPasses({Compared(c) : c \in ready})
<1>1. UNCHANGED <<scope, given, render, run, retired, code, faults>> BY DEF RunParity
<1>2. ready # {} /\ ready \subseteq InGroup(g) \cap Done BY DEF RunParity, GroupReady
<1>3. parity' = [parity EXCEPT ![g] = [runs |-> Runs(ready), code |-> code, rc |-> IF passes THEN 0 ELSE 1]]
  BY DEF RunParity
<1> HIDE DEF ready
<1>4. /\ DOMAIN parity' = DOMAIN scope.groups
      /\ parity'[g] = [runs |-> Runs(ready), code |-> code, rc |-> IF passes THEN 0 ELSE 1]
      /\ \A h \in DOMAIN scope.groups \ {g} : parity'[h] = parity[h]
  <2> HIDE DEF passes
  <2> QED BY <1>3 DEF IInv
<1>5. ready \subseteq DOMAIN run BY <1>2, DoneAre
<1>6. parity'[g].runs = Runs(ready) /\ (parity'[g].rc = 0 => passes)
  <2> HIDE DEF passes
  <2> QED BY <1>4
<1>7. \A c, k : <<c, k>> \in Runs(ready) => c \in DOMAIN run /\ run[c].number = k BY <1>5 DEF Runs
<1>8. Numbered'
  <2>1. ASSUME NEW h \in DOMAIN scope.groups, NEW c, NEW k, <<c, k>> \in parity'[h].runs
        PROVE  (k = 1 /\ c \in retired) \/ (c \in DOMAIN run /\ run[c].number = k)
    <3>1. CASE h = g BY <1>6, <1>7, <2>1, <3>1
    <3>2. CASE h # g BY <1>4, <2>1, <3>2 DEF IInv, Numbered
    <3> QED BY <3>1, <3>2
  <2> QED BY <1>1, <2>1 DEF IInv, Numbered
<1>9. Later(given, given') BY <1>1 DEF Later
<1>10. ASSUME NEW h \in DOMAIN scope.groups PROVE Vouches(h)'
  <2>1. CASE h # g BY <1>1, <1>4, <1>9, <2>1, VouchesStays
  <2>2. Vouches(g)'
    <3> DEFINE covered == {c \in DOMAIN run' : <<c, run'[c].number>> \in parity'[g].runs}
    <3> SUFFICES ASSUME parity'[g].rc = 0
                 PROVE  /\ ~ReferenceUndecided(scope, g, given')
                        /\ \A c \in covered : run'[c].expected.group = g
                        /\ ParityPasses({ComparedUnder(c, given)' : c \in covered})
      BY <1>1 DEF Vouches, Covered
    <3>1. covered = ready
      <4>1. \A c \in ready : <<c, run[c].number>> \in Runs(ready) BY DEF Runs
      <4>2. \A c : <<c, run[c].number>> \in Runs(ready) => c \in ready BY DEF Runs
      <4>3. covered = {c \in DOMAIN run : <<c, run[c].number>> \in Runs(ready)} BY <1>1, <1>6
      <4> QED BY <1>5, <4>1, <4>2, <4>3
    <3>2. \A c \in ready : Compared(c) = ComparedUnder(c, given) /\ ~ReferenceUndecided(scope, g, given)
      BY <1>2, ComparedStays
    <3>3. \A c \in ready : ComparedUnder(c, given)' = ComparedUnder(c, given)
      BY <1>1 DEF ComparedUnder, Compared
    <3>4. {ComparedUnder(c, given)' : c \in ready} = {Compared(c) : c \in ready} BY <3>2, <3>3
    <3>5. \A c \in ready : run'[c].expected.group = g BY <1>1, <1>2, DoneAre DEF InGroup
    <3> QED BY <1>1, <1>2, <1>6, <3>1, <3>2, <3>4, <3>5
  <2> QED BY <2>1, <2>2
<1>11. (render = NotRendered \/ RenderedFrom(render.in))' BY <1>1 DEF IInv, RenderedFrom
<1> QED BY <1>1, <1>4, <1>8, <1>10, <1>11 DEF IInv

LEMMA StutterKeeps == ASSUME IInv, UNCHANGED vars PROVE IInv'
<1>1. UNCHANGED <<scope, given, render, run, retired, parity>> BY DEF vars
<1>2. Inputs(given') /\ given'.decisions = given.decisions /\ given'.fleets = given.fleets BY <1>1 DEF IInv
<1> QED BY <1>1, <1>2, GiveOtherKeeps

LEMMA StepKeeps == ASSUME IInv, [Next]_vars PROVE IInv'
<1>1. ASSUME Next PROVE IInv'
  <2>1. ASSUME NEW x \in Pins, GivePin(x) \/ ReplacePin(x) PROVE IInv' BY <2>1, PinKeeps
  <2>2. ASSUME NEW o \in Owner, SetOwner(o) PROVE IInv' BY <2>2, OwnerKeeps
  <2>3. ASSUME NEW d \in Decisions, Decide(d) PROVE IInv' BY <2>3, DecideKeeps
  <2>4. ASSUME NEW f \in Fleets, GiveFleet(f) \/ ReplaceFleet(f) PROVE IInv' BY <2>4, FleetKeeps
  <2>5. ASSUME NEW c \in Expected, Account(c) \/ RunCell(c) PROVE IInv' BY <2>5, AccountKeeps, RunCellKeeps
  <2>6. ASSUME NEW c \in DOMAIN run, Retire(c) PROVE IInv' BY <2>6, RetireKeeps
  <2>7. ASSUME NEW g \in DOMAIN scope.groups, RunParity(g) PROVE IInv' BY <2>7, RunParityKeeps
  <2>8. CASE Stage \/ RenderAnew BY <2>8, RenderingKeeps DEF Stage, RenderAnew
  <2>9. CASE FixGates BY <2>9, FixGatesKeeps
  <2> QED BY <1>1, <2>1, <2>2, <2>3, <2>4, <2>5, <2>6, <2>7, <2>8, <2>9 DEF Next
<1> QED BY <1>1, StutterKeeps

LEMMA AlwaysInvariant == Spec => []IInv
<1>1. Init => IInv BY InitHolds
<1>2. IInv /\ [Next]_vars => IInv' BY StepKeeps
<1> QED BY <1>1, <1>2, PTL DEF Spec

-----------------------------------------------------------------------------
(* Theorems *)

\* Unless a render refuses to go on from the last one, what is done stays done (campaign.py, check_previous;
\* manifest.py, check): whatever the scope files and the inputs.
THEOREM DoneIsKept == Spec => DoneStaysDone
<1>1. ASSUME Stage PROVE Done \subseteq Done'
  <2>1. Keeps(render, render') /\ run' = run BY <1>1 DEF Stage, Rendering
  <2> SUFFICES ASSUME NEW c \in Done PROVE c \in Done' OBVIOUS
  <2>2. c \in DOMAIN render.cells /\ c \in DOMAIN run /\ run[c].fine /\ run[c].gated /\ run[c].expected = render.cells[c]
    BY DoneAre DEF Expected
  <2>3. c \in DOMAIN render'.cells /\ render'.cells[c] = render.cells[c] BY <2>1, <2>2 DEF Keeps
  <2>4. c \in Expected' /\ Current(c)' BY <2>1, <2>2, <2>3 DEF Expected, Current
  <2> QED BY <2>1, <2>2, <2>4 DEF Done, Ok
<1>2. [Next]_vars => [Stage => Done \subseteq Done']_vars BY <1>1
<1> QED BY <1>2, PTL DEF Spec, DoneStaysDone

LEMMA DifferIsSymmetric == \A a, b : Differ(a, b) = Differ(b, a) /\ (SystemDiffers(a, b) <=> SystemDiffers(b, a))
BY DEF Differ, SystemDiffers

\* Where two cells differ beyond what is declared, with one content for each artifact and pool.
LEMMA OffendsNot ==
  ASSUME NEW a, NEW b, NEW patterns, Offending(a, b, patterns) = {}, OneContentPerPath({a, b}), NEW k \in Differ(a, b)
  PROVE  k \in patterns \/ (Section[k] \in {"loaded", "artifacts"} /\ SystemDiffers(a, b)) \/ Section[k] = "threadpools"
<1>1. k \in Keys /\ a.manifest[k] # b.manifest[k] BY DEF Differ
<1>2. k \in patterns \/ Follows(k, a, b) BY DEF Offending
<1>3. CASE Follows(k, a, b)
  <2>1. Section[k] \in {"system", "loaded", "artifacts", "threadpools", "other"} BY <1>1, SectionAssumption DEF Keys
  <2>2. CASE Section[k] = "loaded"
    <3>1. Follows(k, a, b) = SystemDiffers(a, b) BY <2>2 DEF Follows, LoadedWhereUsed
    <3> QED BY <1>3, <2>2, <3>1
  <2>3. CASE Section[k] = "artifacts"
    <3>1. Section[k] \in LoadedWhereUsed /\ Section[k] # "loaded" /\ Section[k] # "threadpools"
      BY <2>3 DEF LoadedWhereUsed
    <3>2. SystemDiffers(a, b) \/ Absent \notin {a.manifest[k], b.manifest[k]} BY <1>3, <3>1 DEF Follows
    <3>3. Absent \in {a.manifest[k], b.manifest[k]} BY <1>1, <3>1 DEF OneContentPerPath
    <3> QED BY <2>3, <3>2, <3>3
  <2>4. CASE Section[k] = "threadpools" BY <2>4
  <2>5. CASE Section[k] \in {"system", "other"} BY <1>3, <2>5 DEF Follows, LoadedWhereUsed
  <2> QED BY <2>1, <2>2, <2>3, <2>4, <2>5
<1> QED BY <1>2, <1>3

\* What a gate that passed says of any two cells.
LEMMA PassesIsSound ==
  ASSUME NEW cells, ParityPasses(cells), NEW a \in cells, NEW b \in cells
  PROVE  /\ a.steady /\ a.launch = b.launch
         /\ \A k \in Differ(a, b) :
              \/ k \in UNION (a.intended \cup b.intended)
              \/ /\ Section[k] \in {"loaded", "artifacts"}
                 /\ \E x, y \in {a, b} \cup {c \in cells : c.config = a.reference} : SystemDiffers(x, y)
              \/ Section[k] = "threadpools" /\ Absent \in {a.manifest[k], b.manifest[k]}
         /\ a.reference # Absent /\ b.config = a.reference => \A p \in a.intended : p \cap Differ(a, b) # {}
         /\ OneContentPerPath(cells)
<1> DEFINE reference == (CHOOSE c \in cells : TRUE).reference
           refs == {c \in cells : c.config = reference}
           Explained(k) ==
             \/ k \in UNION (a.intended \cup b.intended)
             \/ /\ Section[k] \in {"loaded", "artifacts"}
                /\ \E x, y \in {a, b} \cup refs : SystemDiffers(x, y)
             \/ Section[k] = "threadpools"
<1>1. a.steady /\ a.launch = b.launch /\ OneContentPerPath(cells) BY DEF ParityPasses, SameLaunches
<1>2. a.reference = reference BY DEF ParityPasses
<1>3. IF reference = Absent THEN MainGroup(cells) ELSE AblationGroup(cells, reference) BY DEF ParityPasses
<1> HIDE DEF reference
<1>4. \A x, y \in cells : OneContentPerPath({x, y}) BY <1>1 DEF OneContentPerPath
<1>5. ASSUME reference = Absent PROVE \A k \in Differ(a, b) : Explained(k)
  <2>1. Offending(a, b, UNION a.intended) = {} BY <1>3, <1>5 DEF MainGroup
  <2>2. OneContentPerPath({a, b}) BY <1>4
  <2> QED BY <2>1, <2>2, OffendsNot
<1>6. ASSUME reference # Absent
      PROVE  /\ \A k \in Differ(a, b) : Explained(k)
             /\ b.config = reference => \A p \in a.intended : p \cap Differ(a, b) # {}
  <2>1. refs # {} /\ \A x \in refs : x \in cells BY <1>3, <1>6 DEF AblationGroup
  <2>2. \A x, y \in refs : x.intended = {} /\ Offending(x, y, {}) = {} BY <1>3, <1>6 DEF AblationGroup
  <2>3. \A ref \in refs : \A arm \in cells \ refs : Ablates(ref, arm) BY <1>3, <1>6 DEF AblationGroup
  <2> HIDE DEF refs
  <2>4. ASSUME NEW ref \in refs, NEW arm \in {a, b}, arm \notin refs, NEW k \in Differ(ref, arm)
        PROVE  Explained(k)
    <3>1. Offending(ref, arm, UNION arm.intended) = {} BY <2>3, <2>4 DEF Ablates
    <3>2. OneContentPerPath({ref, arm}) BY <1>4, <2>1, <2>4
    <3> QED BY <2>4, <3>1, <3>2, OffendsNot
  <2>5. ASSUME NEW ref \in refs, NEW other \in {a, b}, other \in refs, NEW k \in Differ(ref, other)
        PROVE  Explained(k)
    <3>1. Offending(ref, other, {}) = {} BY <2>2, <2>5
    <3>2. OneContentPerPath({ref, other}) BY <1>4, <2>1, <2>5
    <3> QED BY <2>5, <3>1, <3>2, OffendsNot
  <2>6. PICK ref \in refs : TRUE BY <2>1
  <2>7. \A k \in Differ(a, b) : k \in Differ(ref, a) \/ k \in Differ(ref, b) BY DEF Differ
  <2>8. \A k \in Differ(a, b) : Explained(k)
    <3> HIDE DEF Explained
    <3> QED BY <2>4, <2>5, <2>6, <2>7
  <2>9. ASSUME b \in refs, NEW p \in a.intended PROVE p \cap Differ(a, b) # {}
    <3>1. CASE a \in refs BY <2>2, <2>9, <3>1
    <3>2. CASE a \notin refs
      <4>1. p \cap Differ(b, a) # {} BY <2>3, <2>9, <3>2 DEF Ablates
      <4> QED BY <4>1, DifferIsSymmetric
    <3> QED BY <3>1, <3>2
  <2>10. b.config = reference => b \in refs BY DEF refs
  <2> HIDE DEF Explained
  <2> QED BY <2>8, <2>9, <2>10
<1>7. \A k \in Differ(a, b) : Explained(k)
  <2> HIDE DEF Explained
  <2> QED BY <1>5, <1>6
<1>8. a.reference # Absent /\ b.config = a.reference => \A p \in a.intended : p \cap Differ(a, b) # {}
  <2> HIDE DEF Explained
  <2> QED BY <1>2, <1>6
<1>9. \A k \in Differ(a, b) : Section[k] = "threadpools" => Absent \in {a.manifest[k], b.manifest[k]}
  BY <1>1 DEF OneContentPerPath, LoadedWhereUsed, Differ
<1>10. \A k \in Differ(a, b) :
         \/ k \in UNION (a.intended \cup b.intended)
         \/ /\ Section[k] \in {"loaded", "artifacts"}
            /\ \E x, y \in {a, b} \cup {c \in cells : c.config = a.reference} : SystemDiffers(x, y)
         \/ Section[k] = "threadpools" /\ Absent \in {a.manifest[k], b.manifest[k]}
  BY <1>2, <1>7, <1>9
<1> QED BY <1>1, <1>8, <1>10

\* What the report makes of a group that passed holds of its cells.
LEMMA PassedGroup ==
  ASSUME IInv, NEW g \in DOMAIN scope.groups, InGroup(g) \cap Done # {}, parity[g].rc = 0,
         parity[g].runs = Runs(InGroup(g) \cap Done)
  PROVE  ParityPasses({Compared(c) : c \in InGroup(g) \cap Done})
<1> DEFINE ready == InGroup(g) \cap Done
<1>1. ready \subseteq DOMAIN run BY DoneAre
<1>2. \A c \in ready : Compared(c) = ComparedUnder(c, given) BY ComparedStays
<1>3. parity[g].runs = Runs(ready) /\ ready # {} OBVIOUS
<1> HIDE DEF ready
<1>4. Covered(g) = ready
  <2>1. \A c \in ready : <<c, run[c].number>> \in Runs(ready) BY DEF Runs
  <2>2. \A c : <<c, run[c].number>> \in Runs(ready) => c \in ready BY DEF Runs
  <2> QED BY <1>1, <1>3, <2>1, <2>2 DEF Covered
<1>5. parity[g].runs \subseteq Runs(DOMAIN run) BY <1>1, <1>3 DEF Runs
<1>6. ParityPasses({ComparedUnder(c, given) : c \in ready}) BY <1>3, <1>4, <1>5 DEF IInv, Vouches
<1>7. {Compared(c) : c \in ready} = {ComparedUnder(c, given) : c \in ready} BY <1>2
<1> QED BY <1>6, <1>7 DEF ready

\* Once nothing is pending, every cell that a block calls for is expected.
LEMMA AllExpected ==
  ASSUME IInv, Expected # {}, render.pending = {}, NEW n \in DOMAIN scope.blocks,
         NEW c \in Cells(scope.blocks[n], render.in)
  PROVE  c \in Expected /\ render.cells[c].document = Document(c.config, render.in)
<1>1. PICK d \in Expected : TRUE OBVIOUS
<1>2. RenderedFrom(render.in) /\ scope \in Scopes /\ Expected = DOMAIN Listed(scope, render.in) BY <1>1, ExpectedAre
<1>3. render.pending = DOMAIN scope.blocks \ Rendered(scope, render.in) BY <1>2, RenderHolds DEF RenderedFrom
<1>4. n \in Rendered(scope, render.in) BY <1>3
<1>5. DOMAIN Listed(scope, render.in) = UNION {Cells(scope.blocks[m], render.in) : m \in Rendered(scope, render.in)}
  BY <1>2, ListedAre
<1>6. c \in Expected BY <1>2, <1>4, <1>5
<1>7. render.cells[c] =
        [block |-> Listed(scope, render.in)[c], group |-> scope.blocks[Listed(scope, render.in)[c]].group,
         document |-> Document(c.config, render.in)]
  BY <1>6, ExpectedAre
<1> QED BY <1>6, <1>7

\* A report that is done is of every cell that the scope file calls for, of equal conditions in each group, and of arms
\* that differ from their reference where they say (analysis/report.py, gates/parity.py), for any scope files, presets,
\* environments and faults.
THEOREM ReportsAreSound == Spec => []ReportIsSound
<1>1. ASSUME IInv, ReportDone, NEW n \in DOMAIN scope.blocks, NEW c \in Cells(scope.blocks[n], render.in)
      PROVE  c \in Accounted \/ (c \in DOMAIN run /\ run[c].gated /\ run[c].fine
                                   /\ run[c].expected.document = Document(c.config, render.in))
  <2>1. c \in Expected /\ render.cells[c].document = Document(c.config, render.in)
    BY <1>1, AllExpected DEF ReportDone, Complete
  <2>2. c \in Ok \cup Accounted BY <1>1, <2>1 DEF ReportDone, Complete
  <2>3. Ok \subseteq Done BY <1>1 DEF ReportDone
  <2> QED BY <2>1, <2>2, <2>3, DoneAre
<1>2. ASSUME IInv, ReportDone, NEW c \in Ok, NEW d \in Ok, GroupOf(c) = GroupOf(d)
      PROVE  LET a == Compared(c)
                 b == Compared(d)
                 both == {a, b} \cup {Compared(e) : e \in {x \in Ok : GroupOf(x) = GroupOf(c) /\ x.config = a.reference}}
             IN  /\ run[c].fleet = run[d].fleet /\ a.steady
                 /\ \A k \in Differ(a, b) :
                      \/ k \in UNION (a.intended \cup b.intended)
                      \/ Section[k] \in {"loaded", "artifacts"} /\ \E x, y \in both : SystemDiffers(x, y)
                      \/ Section[k] = "threadpools" /\ Absent \in {a.manifest[k], b.manifest[k]}
                 /\ a.reference # None /\ d.config = a.reference => \A p \in a.intended : p \cap Differ(a, b) # {}
                 /\ \A k \in Keys : Section[k] \in LoadedWhereUsed =>
                      Absent \in {a.manifest[k], b.manifest[k]} \/ a.manifest[k] = b.manifest[k]
  <2> DEFINE g == GroupOf(c)
             ready == InGroup(g) \cap Done
             cells == {Compared(e) : e \in ready}
             a == Compared(c)
             b == Compared(d)
             both == {a, b} \cup {Compared(e) : e \in {x \in Ok : GroupOf(x) = GroupOf(c) /\ x.config = a.reference}}
  <2>1. Ok \subseteq Done /\ c \in Expected /\ d \in Expected BY <1>2 DEF ReportDone, Ok
  <2>2. g \in DOMAIN scope.groups BY <1>2, <2>1, ExpectedAre
  <2>3. c \in ready /\ d \in ready BY <1>2, <2>1 DEF InGroup
  <2>4. parity[g].rc = 0 /\ parity[g].runs = Runs(ready)
    <3>1. ParityState(g) = "passed" BY <1>2, <2>1 DEF ReportDone
    <3> QED BY <3>1 DEF ParityState
  <2>5. ParityPasses(cells) BY <1>2, <2>2, <2>3, <2>4, PassedGroup
  <2>6. a \in cells /\ b \in cells BY <2>3
  <2>7. /\ a.launch = run[c].fleet /\ b.launch = run[d].fleet /\ b.config = d.config
        /\ \A e : Compared(e).config = e.config
    BY DEF Compared
  <2>8. \A e \in ready : e \in Ok /\ GroupOf(e) = GroupOf(c) BY DoneAre DEF InGroup
  <2>9. {x \in cells : x.config = a.reference} \subseteq both
    <3> HIDE DEF a, b, ready, g
    <3> QED BY <2>7, <2>8
  <2> HIDE DEF a, b, cells, both
  <2>10. /\ a.steady /\ a.launch = b.launch
         /\ \A k \in Differ(a, b) :
              \/ k \in UNION (a.intended \cup b.intended)
              \/ /\ Section[k] \in {"loaded", "artifacts"}
                 /\ \E x, y \in {a, b} \cup {x \in cells : x.config = a.reference} : SystemDiffers(x, y)
              \/ Section[k] = "threadpools" /\ Absent \in {a.manifest[k], b.manifest[k]}
         /\ a.reference # Absent /\ b.config = a.reference => \A p \in a.intended : p \cap Differ(a, b) # {}
         /\ OneContentPerPath(cells)
    BY <2>5, <2>6, PassesIsSound
  <2>11. {a, b} \subseteq both BY DEF both
  <2>12. \A k \in Keys : Section[k] \in LoadedWhereUsed =>
           Absent \in {a.manifest[k], b.manifest[k]} \/ a.manifest[k] = b.manifest[k]
    BY <2>6, <2>10 DEF OneContentPerPath
  <2>13. {a, b} \cup {x \in cells : x.config = a.reference} \subseteq both BY <2>9, <2>11
  <2>14. None = Absent BY LeaseAssumption
  <2>15. \A k \in Differ(a, b) :
           \/ k \in UNION (a.intended \cup b.intended)
           \/ Section[k] \in {"loaded", "artifacts"} /\ \E x, y \in both : SystemDiffers(x, y)
           \/ Section[k] = "threadpools" /\ Absent \in {a.manifest[k], b.manifest[k]}
    BY <2>10, <2>13
  <2> QED BY <2>7, <2>10, <2>12, <2>14, <2>15 DEF a, b, both
<1>3. IInv => ReportIsSound BY <1>1, <1>2 DEF ReportIsSound
<1> QED BY <1>3, AlwaysInvariant, PTL

\* With nothing pending, the cells of each row are those of its blocks, and no group waits.
LEMMA PlanIsWhole ==
  ASSUME IInv, Expected # {}, render.pending = {}
  PROVE  /\ \A row \in Rows : Requested(row) \subseteq Expected
         /\ \A c \in Expected : \E row \in Rows : c \in Requested(row)
         /\ render.pending_groups = {}
<1>1. PICK d \in Expected : TRUE OBVIOUS
<1>2. RenderedFrom(render.in) /\ scope \in Scopes BY <1>1, ExpectedAre
<1>3. render.pending_groups = {}
  <2>1. /\ render.pending = DOMAIN scope.blocks \ Rendered(scope, render.in)
        /\ render.pending_groups = {scope.blocks[n].group : n \in DOMAIN scope.blocks \ Rendered(scope, render.in)}
    BY <1>2, RenderHolds DEF RenderedFrom
  <2> QED BY <2>1
<1>4. \A row : Requested(row) = {c \in Expected : scope.blocks[render.cells[c].block].row = row}
  BY DEF Requested, PlanRow, Expected
<1>5. \A c \in Expected : render.cells[c].block \in DOMAIN scope.blocks
  <2> SUFFICES ASSUME NEW c \in Expected PROVE render.cells[c].block \in DOMAIN scope.blocks OBVIOUS
  <2>1. /\ render.cells[c] =
             [block |-> Listed(scope, render.in)[c], group |-> scope.blocks[Listed(scope, render.in)[c]].group,
              document |-> Document(c.config, render.in)]
        /\ Listed(scope, render.in)[c] \in DOMAIN scope.blocks
    BY ExpectedAre
  <2> QED BY <2>1
<1>6. \A c \in Expected : \E row \in Rows : c \in Requested(row) BY <1>4, <1>5 DEF Rows
<1> QED BY <1>3, <1>4, <1>6

LEMMA AgreeWhenReady ==
  ASSUME IInv, Expected # {}, render.pending = {}, DOMAIN run \subseteq Expected, Ok \subseteq Done,
         Expected \subseteq Ok \cup Accounted, NEW g \in DOMAIN scope.groups
  PROVE  GroupReady(g) = InGroup(g) \cap Done
<1>1. g \notin render.pending_groups BY PlanIsWhole
<1>2. InGroup(g) \ Accounted \subseteq Done BY DEF InGroup
<1> QED BY <1>1, <1>2 DEF GroupReady

LEMMA AgreeOnDone ==
  ASSUME IInv, Expected # {}, render.pending = {}, DOMAIN run \subseteq Expected, Ok \subseteq Done
  PROVE  DriverDone <=> ReportDone
<1>1. \A c \in Done : c \in Ok /\ c \in Expected /\ c \in InGroup(GroupOf(c)) /\ GroupOf(c) \in DOMAIN scope.groups
  BY DoneAre, ExpectedAre DEF InGroup
<1>2. ASSUME DriverDone PROVE ReportDone
  <2>1. \A row \in Rows : RowDone(row) BY <1>2 DEF DriverDone
  <2>2. Expected \subseteq Ok \cup Accounted
    <3> SUFFICES ASSUME NEW c \in Expected PROVE c \in Ok \cup Accounted OBVIOUS
    <3>1. PICK row \in Rows : c \in Requested(row) BY PlanIsWhole
    <3>2. c \in Accounted \/ c \in Done BY <2>1, <3>1 DEF RowDone
    <3> QED BY <1>1, <3>2
  <2>3. ASSUME NEW c \in Done
        PROVE  /\ ParityState(GroupOf(c)) = "passed"
               /\ ParityPasses({Compared(d) : d \in InGroup(GroupOf(c)) \cap Done})
    <3> DEFINE g == GroupOf(c)
    <3>1. g \in DOMAIN scope.groups /\ c \in InGroup(g) /\ c \in Expected BY <1>1
    <3>2. GroupReady(g) = InGroup(g) \cap Done BY <2>2, <3>1, AgreeWhenReady
    <3>3. PICK row \in Rows : c \in Requested(row) BY <3>1, PlanIsWhole
    <3>4. g \in {GroupOf(d) : d \in Requested(row)} /\ GroupReady(g) # {} BY <3>1, <3>2, <3>3
    <3>5. Covers(parity[g], GroupReady(g)) /\ parity[g].rc = 0 BY <2>1, <3>4 DEF RowDone
    <3>6. parity[g].runs = Runs(InGroup(g) \cap Done) /\ parity[g].code = code BY <3>2, <3>5 DEF Covers
    <3>7. parity[g] # NoParity
      <4>1. <<c, run[c].number>> \in parity[g].runs BY <3>1, <3>6 DEF Runs
      <4> QED BY <4>1 DEF NoParity
    <3>8. ParityState(g) = "passed" BY <3>5, <3>6, <3>7 DEF ParityState
    <3>9. InGroup(g) \cap Done # {} BY <3>1
    <3> QED BY <3>1, <3>5, <3>6, <3>8, <3>9, PassedGroup
  <2>4. ASSUME NEW g \in DOMAIN scope.groups PROVE ~FleetProblem(g)
    <3> SUFFICES ASSUME NEW c \in (InGroup(g) \cap DOMAIN run) \ (Accounted \ Ok),
                        NEW d \in (InGroup(g) \cap DOMAIN run) \ (Accounted \ Ok)
                 PROVE  run[c].fleet = run[d].fleet
      BY DEF FleetProblem
    <3>1. c \in Done /\ d \in Done /\ GroupOf(c) = g BY <2>2 DEF InGroup
    <3>2. ParityPasses({Compared(e) : e \in InGroup(g) \cap Done}) BY <2>3, <3>1
    <3>3. Compared(c).launch = Compared(d).launch BY <3>1, <3>2 DEF ParityPasses, SameLaunches
    <3> QED BY <3>3 DEF Compared
  <2> QED BY <2>2, <2>3, <2>4 DEF ReportDone, Complete
<1>3. ASSUME ReportDone PROVE DriverDone
  <2> SUFFICES ASSUME NEW row \in Rows PROVE RowDone(row) BY DEF DriverDone
  <2>1. Expected \subseteq Ok \cup Accounted BY <1>3 DEF ReportDone, Complete
  <2>2. Requested(row) \subseteq Expected BY PlanIsWhole
  <2>3. ASSUME NEW c \in Requested(row), GroupReady(GroupOf(c)) # {}
        PROVE  Covers(parity[GroupOf(c)], GroupReady(GroupOf(c))) /\ parity[GroupOf(c)].rc = 0
    <3> DEFINE g == GroupOf(c)
    <3>1. g \in DOMAIN scope.groups BY <2>2, ExpectedAre
    <3>2. GroupReady(g) = InGroup(g) \cap Done BY <2>1, <3>1, AgreeWhenReady
    <3>3. PICK e \in Done : GroupOf(e) = g BY <2>3, <3>2 DEF InGroup
    <3>4. ParityState(g) = "passed" BY <1>3, <3>3 DEF ReportDone
    <3> QED BY <3>2, <3>4 DEF ParityState, Covers
  <2> QED BY <2>1, <2>2, <2>3 DEF RowDone
<1> QED BY <1>2, <1>3

\* The driver and the report agree (tools/cell_driver.py, rows_status; analysis/report.py), for any scope files, inputs,
\* environments and faults.
THEOREM DriverAndReportAgree == Spec => []DriverAgreesWithReport
<1>1. IInv => DriverAgreesWithReport BY AgreeOnDone DEF DriverAgreesWithReport
<1> QED BY <1>1, AlwaysInvariant, PTL

-----------------------------------------------------------------------------
(* A later stage *)

Added(x, y) == scope \in LoadedScopes /\ Inputs(x) /\ Inputs(y) /\ Later(x, y) /\ Grew(x, y)

\* What is decided and met stays so.
LEMMA LacksNoMore ==
  ASSUME NEW x, NEW y, Added(x, y), NEW n \in DOMAIN scope.blocks, ~Lacks(scope, scope.blocks[n], x)
  PROVE  /\ ~Lacks(scope, scope.blocks[n], y)
         /\ BlockConfigs(scope.blocks[n], y) = BlockConfigs(scope.blocks[n], x)
         /\ Cells(scope.blocks[n], y) = Cells(scope.blocks[n], x)
         /\ \A c \in BlockConfigs(scope.blocks[n], x) : Document(c, y) = Document(c, x)
<1> DEFINE b == scope.blocks[n]
<1>1. /\ ~b.hold /\ b.owner \subseteq x.owner /\ ~Undecided(b, x) /\ ~ReferenceUndecided(scope, b.group, x)
      /\ x.fleets[scope.groups[b.group].fleet] # None
      /\ \A c \in BlockConfigs(b, x) : Unmet(c.template, x) = {}
  BY DEF Lacks
<1>2. /\ scope \in Scopes /\ b.group \in DOMAIN scope.groups /\ scope.groups[b.group].fleet \in Fleets
      /\ \A p \in b.patterns : p.by \in Decisions \cup {None}
  <2>1. b.group \in DOMAIN scope.groups BY DEF Added, LoadedScopes, ScopeOK
  <2>2. scope.groups[b.group].fleet \in DOMAIN Family BY <2>1 DEF Added, LoadedScopes, ScopeOK
  <2>3. scope \in Scopes BY DEF Added, LoadedScopes
  <2>4. DOMAIN Family \subseteq Fleets BY LeaseAssumption
  <2>5. \A p \in b.patterns : p.by \in Decisions \cup {None} BY <2>3, LeaseAssumption
  <2> QED BY <2>1, <2>2, <2>3, <2>4, <2>5
<1> HIDE DEF b
<1>3. /\ x.owner \subseteq y.owner /\ \A d \in Decisions : x.decisions[d] \in {{}, y.decisions[d]}
      /\ \A p \in Pins : x.pins[p] \in {None, y.pins[p]}
      /\ \A f \in Fleets : x.fleets[f] # None => y.fleets[f] # None
      /\ DOMAIN x.pins = Pins /\ DOMAIN y.pins = Pins
  BY InputsAre DEF Added, Later, Grew
<1>4. \A p \in b.patterns : AxisValues(p, x) # {} /\ AxisValues(p, y) = AxisValues(p, x)
  <2> SUFFICES ASSUME NEW p \in b.patterns PROVE AxisValues(p, x) # {} /\ AxisValues(p, y) = AxisValues(p, x) OBVIOUS
  <2>1. AxisValues(p, x) # {} BY <1>1 DEF Undecided
  <2> QED BY <1>2, <1>3, <2>1 DEF AxisValues
<1>5. ~Undecided(b, y) BY <1>4 DEF Undecided
<1>6. BlockConfigs(b, y) = BlockConfigs(b, x)
  <2> DEFINE pairs(z) ==
               {q \in b.patterns \X (UNION {AxisValues(r, z) : r \in b.patterns}) : q[2] \in AxisValues(q[1], z)}
  <2>1. {AxisValues(r, y) : r \in b.patterns} = {AxisValues(r, x) : r \in b.patterns} BY <1>4
  <2>2. pairs(y) = pairs(x)
    <3> DEFINE all == UNION {AxisValues(r, x) : r \in b.patterns}
    <3>1. pairs(y) = {q \in b.patterns \X all : q[2] \in AxisValues(q[1], y)} BY <2>1
    <3>2. \A q \in b.patterns \X all : AxisValues(q[1], y) = AxisValues(q[1], x) BY <1>4
    <3> HIDE DEF all
    <3>3. pairs(y) = {q \in b.patterns \X all : q[2] \in AxisValues(q[1], x)} BY <3>1, <3>2
    <3> QED BY <3>3 DEF all
  <2>3. \A z : BlockConfigs(b, z) = {[alias |-> b.alias, template |-> p[1].template, value |-> p[2]] : p \in pairs(z)}
    BY DEF BlockConfigs
  <2> HIDE DEF pairs
  <2> QED BY <2>2, <2>3
<1>7. Cells(b, y) = Cells(b, x) BY <1>6 DEF Cells
<1>8. ASSUME NEW t, Unmet(t, x) = {} PROVE Unmet(t, y) = {} BY <1>3, <1>8 DEF Unmet
<1>9. ~ReferenceUndecided(scope, b.group, y) BY <1>1, <1>2, ReferenceStays DEF Added
<1>10. ~Lacks(scope, b, y)
  <2>1. b.owner \subseteq y.owner /\ y.fleets[scope.groups[b.group].fleet] # None BY <1>1, <1>2, <1>3
  <2>2. \A c \in BlockConfigs(b, y) : Unmet(c.template, y) = {} BY <1>1, <1>6, <1>8
  <2> QED BY <1>1, <1>5, <1>9, <2>1, <2>2 DEF Lacks
<1>11. ASSUME NEW c \in BlockConfigs(b, x) PROVE Document(c, y) = Document(c, x)
  <2> DEFINE pins == Resolved(Templates[c.template].refs) \cap Pins
  <2>1. \A p \in pins : p \in Resolved(Templates[c.template].refs) \ PartNames BY LeaseAssumption
  <2>2. \A p \in pins : x.pins[p] # None BY <1>1, <1>3, <2>1 DEF Unmet
  <2>3. \A p \in pins : y.pins[p] = x.pins[p] BY <1>3, <2>2
  <2> HIDE DEF pins
  <2>4. [p \in pins |-> y.pins[p]] = [p \in pins |-> x.pins[p]] BY <2>3
  <2> QED BY <1>3, <2>4 DEF Document, pins
<1> QED BY <1>6, <1>7, <1>10, <1>11 DEF b

\* A block that was rendered is rendered.
LEMMA RenderedStays ==
  ASSUME NEW x, NEW y, Added(x, y)
  PROVE  Rendered(scope, x) \subseteq Rendered(scope, y)
<1> DEFINE T == {n \in Rendered(scope, x) : n \notin Rendered(scope, y)}
<1>1. scope \in Scopes BY DEF Added, LoadedScopes
<1>2. /\ DOMAIN scope.blocks = 1 .. Len(scope.blocks) /\ Len(scope.blocks) \in Nat
      /\ Rendered(scope, x) \subseteq DOMAIN scope.blocks
  BY <1>1, LeaseAssumption, RenderedAre
<1> SUFFICES ASSUME T # {} PROVE FALSE OBVIOUS
<1>3. PICK n \in T : \A m \in T : n <= m
  <2>1. T \subseteq Nat BY <1>2
  <2> HIDE DEF T
  <2> QED BY <2>1, LeastNatural
<1>4. n \in DOMAIN scope.blocks /\ n \in Rendered(scope, x) /\ n \notin Rendered(scope, y) BY <1>2
<1>5. ~Lacks(scope, scope.blocks[n], y) BY <1>1, <1>4, RenderedAre, LacksNoMore
<1>6. PICK m \in 1 .. n - 1 : /\ scope.blocks[n].fill /\ m \notin Rendered(scope, y)
                              /\ scope.blocks[m].group = scope.blocks[n].group
                              /\ CouldOverlap(scope.blocks[m], scope.blocks[n], y)
  BY <1>1, <1>4, <1>5, RenderedAre
<1>7. ~(n <= m)
  <2>1. n \in Nat BY <1>2, <1>4
  <2> QED BY <2>1
<1>8. m \notin Rendered(scope, x) BY <1>3, <1>6, <1>7
<1>9. ~CouldOverlap(scope.blocks[m], scope.blocks[n], x) BY <1>1, <1>4, <1>6, <1>8, RenderedAre
<1> QED BY <1>6, <1>9 DEF CouldOverlap, Added, Grew

\* A fill block lists no cell of an earlier block of another group, for which it does not wait.
GroupsApart ==
  \A n \in DOMAIN scope.blocks : scope.blocks[n].fill => \A m \in 1 .. n - 1 :
    \/ scope.blocks[m].group = scope.blocks[n].group
    \/ Cells(scope.blocks[m], given) \cap Cells(scope.blocks[n], given) = {}

\* A listed cell stays in its block: a fill block waited for every block that could list it first, and a block that does
\* not fill refuses to list a cell again.
LEMMA ListedStays ==
  ASSUME NEW x, Added(x, given), GroupsApart, ~Defective(scope, given), NEW c \in DOMAIN Listed(scope, x)
  PROVE  c \in DOMAIN Listed(scope, given) /\ Listed(scope, given)[c] = Listed(scope, x)[c]
<1> DEFINE n == Listed(scope, x)[c]
           m == Listed(scope, given)[c]
<1>1. scope \in Scopes /\ DOMAIN scope.blocks = 1 .. Len(scope.blocks) /\ Len(scope.blocks) \in Nat
  BY LeaseAssumption DEF Added, LoadedScopes
<1>2. n \in Rendered(scope, x) /\ c \in Cells(scope.blocks[n], x) BY <1>1, ListedAre
<1>3. n \in DOMAIN scope.blocks /\ n \in Rendered(scope, given) BY <1>1, <1>2, RenderedAre, RenderedStays
<1>4. c \in Cells(scope.blocks[n], given)
  <2>1. ~Lacks(scope, scope.blocks[n], x) BY <1>1, <1>2, <1>3, RenderedAre
  <2> QED BY <1>2, <1>3, <2>1, LacksNoMore
<1>5. c \in DOMAIN Listed(scope, given)
  <2>1. DOMAIN Listed(scope, given) = UNION {Cells(scope.blocks[k], given) : k \in Rendered(scope, given)}
    BY <1>1, ListedAre
  <2> QED BY <1>3, <1>4, <2>1
<1>6. /\ m \in Rendered(scope, given) /\ c \in Cells(scope.blocks[m], given)
      /\ \A k \in Rendered(scope, given) : c \in Cells(scope.blocks[k], given) => m <= k
      /\ \A k \in Rendered(scope, x) : c \in Cells(scope.blocks[k], x) => n <= k
  BY <1>1, <1>5, ListedAre
<1>7. m <= n BY <1>3, <1>4, <1>6
<1>8. m \in DOMAIN scope.blocks BY <1>1, <1>6, RenderedAre
<1> HIDE DEF n, m
<1>9. ASSUME m # n PROVE FALSE
  <2>1. m \in 1 .. n - 1 /\ ~(n <= m) BY <1>1, <1>3, <1>7, <1>8, <1>9
  <2>2. m \notin Rendered(scope, x)
    <3> SUFFICES ASSUME m \in Rendered(scope, x) PROVE FALSE OBVIOUS
    <3>1. ~Lacks(scope, scope.blocks[m], x) BY <1>1, <1>8, RenderedAre
    <3>2. c \in Cells(scope.blocks[m], x) BY <1>6, <1>8, <3>1, LacksNoMore
    <3> QED BY <1>6, <2>1, <3>2
  <2>3. scope.blocks[n].fill
    <3>1. m < n BY <2>1, <1>1, <1>3, <1>8
    <3> QED BY <1>3, <1>4, <3>1 DEF Defective, m
  <2>4. scope.blocks[m].group = scope.blocks[n].group BY <1>3, <1>4, <1>6, <2>1, <2>3 DEF GroupsApart
  <2>5. ~CouldOverlap(scope.blocks[m], scope.blocks[n], x)
    BY <1>1, <1>2, <1>3, <2>1, <2>2, <2>3, <2>4, RenderedAre
  <2>6. c.trace \in scope.blocks[m].traces /\ c.seed \in scope.blocks[m].seeds BY <1>6 DEF Cells
  <2>7. c.trace \in scope.blocks[n].traces /\ c.seed \in scope.blocks[n].seeds BY <1>4 DEF Cells
  <2> QED BY <2>5, <2>6, <2>7 DEF CouldOverlap
<1> QED BY <1>5, <1>9 DEF n, m

LEMMA StageKeeps ==
  ASSUME IInv, GroupsApart, ~Defective(scope, given), render # NotRendered, Grew(render.in, given)
  PROVE  Keeps(render, Render(scope, given))
<1>1. RenderedFrom(render.in) /\ Added(render.in, given) /\ scope \in Scopes
  BY DEF IInv, Added, RenderedFrom, LoadedScopes
<1> SUFFICES ASSUME NEW c \in Expected
             PROVE  c \in DOMAIN Render(scope, given).cells /\ Render(scope, given).cells[c] = render.cells[c]
  BY DEF Keeps, Expected
<1> DEFINE n == Listed(scope, render.in)[c]
<1>2. /\ render.cells[c] = [block |-> n, group |-> scope.blocks[n].group, document |-> Document(c.config, render.in)]
      /\ Expected = DOMAIN Listed(scope, render.in) /\ n \in Rendered(scope, render.in) /\ n \in DOMAIN scope.blocks
  BY ExpectedAre
<1>3. c \in DOMAIN Listed(scope, given) /\ Listed(scope, given)[c] = n BY <1>1, <1>2, ListedStays
<1>4. c.config \in BlockConfigs(scope.blocks[n], render.in)
  <2>1. c \in Cells(scope.blocks[n], render.in) BY <1>1, <1>2, ListedAre
  <2> QED BY <2>1 DEF Cells
<1> HIDE DEF n
<1>5. ~Lacks(scope, scope.blocks[n], render.in) BY <1>1, <1>2, RenderedAre
<1>6. Document(c.config, given) = Document(c.config, render.in) BY <1>1, <1>2, <1>4, <1>5, LacksNoMore
<1>7. /\ DOMAIN Render(scope, given).cells = DOMAIN Listed(scope, given)
      /\ Render(scope, given).cells[c] =
           [block |-> n, group |-> scope.blocks[n].group, document |-> Document(c.config, given)]
  BY <1>3, RenderHolds
<1> QED BY <1>2, <1>3, <1>6, <1>7

\* While inputs are only added, the next stage keeps every configuration and cell of the last (campaign.py, render and
\* check_previous), unless the scope turns out to be defective or a fill block lists a cell of another group's block:
\* whatever the blocks, and in whatever order inputs arrive.
THEOREM StagesAreKept == Spec => [](GroupsApart /\ ~Defective(scope, given) => NextStageIsKept)
<1>1. IInv => (GroupsApart /\ ~Defective(scope, given) => NextStageIsKept) BY StageKeeps DEF NextStageIsKept
<1> QED BY <1>1, AlwaysInvariant, PTL

-----------------------------------------------------------------------------
(* Orders on finite sets *)

\* A total preorder has a least element.
LEMMA LeastExists ==
  ASSUME NEW S, IsFiniteSet(S), S # {},
         NEW R,
         \A x, y \in S : <<x, y>> \in R \/ <<y, x>> \in R,
         \A x, y, z \in S : <<x, y>> \in R /\ <<y, z>> \in R => <<x, z>> \in R
  PROVE  \E x \in S : \A y \in S : <<x, y>> \in R
<1> DEFINE Below(x) == {y \in S : <<y, x>> \in R}
<1>1. \A x \in S : IsFiniteSet(Below(x)) /\ Cardinality(Below(x)) \in Nat
  BY FS_Subset, FS_CardinalityType
<1> DEFINE T == {Cardinality(Below(x)) : x \in S}
<1>2. PICK n \in T : \A m \in T : n <= m
  <2> HIDE DEF Below
  <2>1. T \subseteq Nat /\ T # {} BY <1>1
  <2> HIDE DEF T
  <2> QED BY <2>1, LeastNatural
<1>3. PICK x \in S : n = Cardinality(Below(x)) BY <1>2
<1>4. SUFFICES ASSUME NEW y \in S, <<x, y>> \notin R PROVE FALSE BY <1>3
<1>5. <<y, x>> \in R BY <1>4
<1>6. Below(y) \subseteq Below(x) BY <1>5
<1>7. x \in Below(x) /\ x \notin Below(y) BY <1>4
<1>8. Cardinality(Below(y)) <= Cardinality(Below(x)) /\ Cardinality(Below(y)) # Cardinality(Below(x))
  <2>1. Below(y) \in SUBSET Below(x) BY <1>6
  <2>2. Below(y) # Below(x) BY <1>7
  <2> HIDE DEF Below
  <2> QED BY <1>1, <2>1, <2>2, FS_Subset
<1>9. Cardinality(Below(x)) <= Cardinality(Below(y))
  <2> HIDE DEF Below
  <2> QED BY <1>2, <1>3
<1> HIDE DEF Below
<1> QED BY <1>1, <1>8, <1>9

\* A finite set with a strict linear order has an enumeration in that order.
LEMMA OrderedExists ==
  ASSUME NEW S, IsFiniteSet(S),
         NEW R,
         \A x \in S : <<x, x>> \notin R,
         \A x, y \in S : x = y \/ <<x, y>> \in R \/ <<y, x>> \in R,
         \A x, y, z \in S : <<x, y>> \in R /\ <<y, z>> \in R => <<x, z>> \in R
  PROVE  \E seq \in [1 .. Cardinality(S) -> S] :
           \A j, k \in 1 .. Cardinality(S) : j < k => <<seq[j], seq[k]>> \in R
<1> DEFINE Below(x) == {y \in S : <<y, x>> \in R}
           n == Cardinality(S)
           rank == [x \in S |-> Cardinality(Below(x)) + 1]
<1>1. n \in Nat BY FS_CardinalityType
<1>2. \A x \in S : IsFiniteSet(Below(x)) /\ Cardinality(Below(x)) \in Nat
  BY FS_Subset, FS_CardinalityType
<1>3. \A x \in S : rank[x] \in 1 .. n
  <2> SUFFICES ASSUME NEW x \in S PROVE rank[x] \in 1 .. n OBVIOUS
  <2>1. Below(x) \in SUBSET S /\ Below(x) # S OBVIOUS
  <2>2. rank[x] = Cardinality(Below(x)) + 1 OBVIOUS
  <2> HIDE DEF Below, rank
  <2>3. Cardinality(Below(x)) <= Cardinality(S) /\ Cardinality(Below(x)) # Cardinality(S)
    BY <2>1, FS_Subset
  <2> QED BY <1>1, <1>2, <2>2, <2>3
<1>4. \A x, y \in S : <<x, y>> \in R => rank[x] < rank[y]
  <2> SUFFICES ASSUME NEW x \in S, NEW y \in S, <<x, y>> \in R PROVE rank[x] < rank[y] OBVIOUS
  <2>1. Below(x) \in SUBSET Below(y) OBVIOUS
  <2>2. Below(x) # Below(y) OBVIOUS
  <2>3. rank[x] = Cardinality(Below(x)) + 1 /\ rank[y] = Cardinality(Below(y)) + 1 OBVIOUS
  <2> HIDE DEF Below, rank
  <2>4. Cardinality(Below(x)) <= Cardinality(Below(y)) /\ Cardinality(Below(x)) # Cardinality(Below(y))
    BY <1>2, <2>1, <2>2, FS_Subset
  <2> QED BY <1>2, <2>3, <2>4
<1>5. rank \in Injection(S, 1 .. n)
  <2>1. rank \in [S -> 1 .. n] BY <1>3
  <2> HIDE DEF rank
  <2>2. ASSUME NEW x \in S, NEW y \in S, rank[x] = rank[y] PROVE x = y
    <3>1. rank[x] \in Int /\ rank[y] \in Int BY <1>3
    <3>2. ~(rank[x] < rank[y]) /\ ~(rank[y] < rank[x]) BY <2>2, <3>1
    <3>3. <<x, y>> \notin R /\ <<y, x>> \notin R BY <1>4, <3>2
    <3> QED BY <3>3
  <2> QED BY <2>1, <2>2, Fun_IsInj
<1>6. \A k \in 1 .. n : \E x \in S : rank[x] = k
  <2> HIDE DEF rank
  <2>1. IsFiniteSet(1 .. n) /\ Cardinality(1 .. n) = n
    <3>1. IsFiniteSet(1 .. n) /\ Cardinality(1 .. n) = IF 1 > n THEN 0 ELSE n - 1 + 1 BY <1>1, FS_Interval
    <3> HIDE DEF n
    <3> QED BY <1>1, <3>1
  <2>2. rank \in Surjection(S, 1 .. n) BY <1>5, <2>1, FS_Injection
  <2> QED BY <2>2 DEF Surjection
<1> DEFINE seq == [k \in 1 .. n |-> CHOOSE x \in S : rank[x] = k]
<1>7. seq \in [1 .. n -> S] /\ \A k \in 1 .. n : rank[seq[k]] = k
  <2> HIDE DEF rank, n
  <2> QED BY <1>6
<1>8. \A j, k \in 1 .. n : j < k => <<seq[j], seq[k]>> \in R
  <2> SUFFICES ASSUME NEW j \in 1 .. n, NEW k \in 1 .. n, j < k PROVE <<seq[j], seq[k]>> \in R OBVIOUS
  <2> HIDE DEF rank, n, seq
  <2>1. seq[j] \in S /\ seq[k] \in S /\ rank[seq[j]] = j /\ rank[seq[k]] = k BY <1>7
  <2>2. seq[j] # seq[k] BY <2>1
  <2>3. <<seq[k], seq[j]>> \notin R BY <1>4, <2>1
  <2> QED BY <2>1, <2>2, <2>3
<1> QED BY <1>7, <1>8

\* A sequence of different elements, as many as there are, has them all.
LEMMA AllAreReached ==
  ASSUME NEW S, IsFiniteSet(S), NEW seq \in [1 .. Cardinality(S) -> S],
         \A j, k \in 1 .. Cardinality(S) : j < k => seq[j] # seq[k]
  PROVE  \A x \in S : \E k \in 1 .. Cardinality(S) : seq[k] = x
<1> DEFINE n == Cardinality(S)
<1> n \in Nat BY FS_CardinalityType
<1>1. \A j, k \in 1 .. n : seq[j] = seq[k] => j = k
  <2>1. \A j, k \in 1 .. n : j = k \/ j < k \/ k < j OBVIOUS
  <2> QED BY <2>1
<1>2. seq \in Injection(1 .. n, S) BY <1>1, Fun_IsInj
<1>3. IsFiniteSet(1 .. n) /\ Cardinality(1 .. n) = n BY FS_Interval
<1>4. seq \in Surjection(1 .. n, S) BY <1>2, <1>3, FS_Injection
<1> QED BY <1>4 DEF Surjection

-----------------------------------------------------------------------------
(* Sums *)

LEMMA TotalIsNumber ==
  ASSUME NEW value, NEW config, NEW trace, NEW field, NEW seeds, IsFiniteSet(seeds),
         \A s \in seeds : value[Cell(config, trace, s)][field] \in Int
  PROVE  Total(value, config, trace, seeds, field) \in Int
<1> DEFINE n == Cardinality(seeds)
           At(s) == value[Cell(config, trace, s)][field]
           One(t) == CHOOSE s \in t : TRUE
           Body(f, t) == IF t = {} THEN 0 ELSE At(One(t)) + f[t \ {One(t)}]
           Sums(f, D) == f = [t \in D |-> Body(f, t)]
           D(k) == {t \in SUBSET seeds : Cardinality(t) <= k}
           sum == CHOOSE f : Sums(f, SUBSET seeds)
<1>1. Total(value, config, trace, seeds, field) = sum[seeds] BY DEF Total, MapThenSumSet, MapThenFoldSet
<1> HIDE DEF At
<1>2. n \in Nat /\ \A t \in SUBSET seeds : IsFiniteSet(t) /\ Cardinality(t) \in Nat /\ Cardinality(t) <= n
  BY FS_Subset, FS_CardinalityType
<1>3. \A t \in SUBSET seeds : t # {} => /\ One(t) \in t /\ At(One(t)) \in Int /\ t \ {One(t)} \in SUBSET seeds
                                        /\ Cardinality(t \ {One(t)}) = Cardinality(t) - 1
  <2> SUFFICES ASSUME NEW t \in SUBSET seeds, t # {}
               PROVE  /\ One(t) \in t /\ At(One(t)) \in Int /\ t \ {One(t)} \in SUBSET seeds
                      /\ Cardinality(t \ {One(t)}) = Cardinality(t) - 1
    OBVIOUS
  <2>1. One(t) \in t OBVIOUS
  <2> HIDE DEF One
  <2>2. At(One(t)) \in Int BY <2>1 DEF At
  <2>3. Cardinality(t \ {One(t)}) = Cardinality(t) - 1 BY <1>2, <2>1, FS_RemoveElement
  <2> QED BY <2>1, <2>2, <2>3
<1> HIDE DEF n, One
<1>4. \E f : Sums(f, D(n))
  <2> DEFINE T == {k \in 0 .. n : ~ \E f : Sums(f, D(k))}
  <2> SUFFICES ASSUME T # {} PROVE FALSE
    <3>1. n \in 0 .. n BY <1>2
    <3> HIDE DEF Sums, D
    <3> QED BY <3>1
  <2>1. PICK k \in T : \A l \in T : k <= l
    <3>1. T \subseteq Nat BY <1>2
    <3> HIDE DEF T
    <3> QED BY <3>1, LeastNatural
  <2>2. k # 0
    <3> DEFINE f == [t \in D(0) |-> 0]
    <3>1. \A t \in D(0) : t = {}
      <4>1. \A t \in SUBSET seeds : IsFiniteSet(t) /\ Cardinality(t) <= 0 => t = {} BY <1>2, FS_EmptySet
      <4> QED BY <1>2, <4>1
    <3>2. f = [t \in D(0) |-> Body(f, t)]
      <4> HIDE DEF D
      <4> QED BY <3>1
    <3> HIDE DEF D, f, Body
    <3> QED BY <2>1, <3>2
  <2>3. k \in Nat /\ k \in 1 .. n /\ k - 1 \in 0 .. n /\ k - 1 \notin T
    <3>1. k \in 0 .. n BY <2>1
    <3>2. k \in Nat /\ k \in 1 .. n /\ k - 1 \in 0 .. n /\ ~(k <= k - 1) BY <1>2, <2>2, <3>1
    <3> HIDE DEF T
    <3> QED BY <2>1, <3>2
  <2>4. PICK f : Sums(f, D(k - 1))
    <3> HIDE DEF Sums, D
    <3> QED BY <2>3
  <2> DEFINE g == [t \in D(k) |-> Body(f, t)]
  <2>5. ASSUME NEW t \in D(k), t # {} PROVE t \ {One(t)} \in D(k - 1) BY <1>2, <1>3, <2>3, <2>5
  <2>6. ASSUME NEW t \in D(k - 1) PROVE t \in D(k) /\ g[t] = f[t]
    <3>1. t \in D(k) BY <1>2, <2>3
    <3> HIDE DEF D, Body
    <3>2. f[t] = Body(f, t) BY <2>4
    <3> QED BY <3>1, <3>2
  <2>7. ASSUME NEW t \in D(k) PROVE g[t] = Body(g, t)
    <3>1. g[t] = Body(f, t)
      <4> HIDE DEF D, Body
      <4> QED OBVIOUS
    <3>2. t # {} => g[t \ {One(t)}] = f[t \ {One(t)}]
      <4> HIDE DEF D, g
      <4> QED BY <2>5, <2>6
    <3> HIDE DEF g
    <3> QED BY <3>1, <3>2
  <2>8. Sums(g, D(k))
    <3>1. g = [t \in D(k) |-> g[t]]
      <4> HIDE DEF D, Body
      <4> QED OBVIOUS
    <3> HIDE DEF g, D, Body
    <3> QED BY <2>7, <3>1
  <2> HIDE DEF g, Sums, D
  <2> QED BY <2>1, <2>8
<1>5. D(n) = SUBSET seeds BY <1>2
<1>6. Sums(sum, SUBSET seeds)
  <2> HIDE DEF D, Sums
  <2> QED BY <1>4, <1>5
<1> HIDE DEF sum, D
<1>7. ASSUME NEW t \in SUBSET seeds PROVE sum[t] = Body(sum, t)
  <2> HIDE DEF Body
  <2> QED BY <1>6
<1> DEFINE T == {k \in Nat : \E t \in SUBSET seeds : Cardinality(t) = k /\ sum[t] \notin Int}
<1>8. ASSUME T # {} PROVE FALSE
  <2>1. PICK k \in T : \A l \in T : k <= l
    <3>1. T \subseteq Nat OBVIOUS
    <3> HIDE DEF T
    <3> QED BY <1>8, <3>1, LeastNatural
  <2>2. PICK t \in SUBSET seeds : Cardinality(t) = k /\ sum[t] \notin Int BY <2>1
  <2>3. t # {}
    <3> SUFFICES ASSUME t = {} PROVE FALSE OBVIOUS
    <3>1. sum[t] = Body(sum, t) BY <1>7
    <3>2. Body(sum, t) = 0 OBVIOUS
    <3> HIDE DEF Body
    <3> QED BY <2>2, <3>1, <3>2
  <2>4. t \ {One(t)} \in SUBSET seeds /\ Cardinality(t \ {One(t)}) = k - 1 /\ At(One(t)) \in Int BY <1>3, <2>2, <2>3
  <2>5. k - 1 \in Nat /\ ~(k <= k - 1) BY <1>2, <2>1, <2>4
  <2>6. k - 1 \notin T
    <3> HIDE DEF T
    <3> QED BY <2>1, <2>5
  <2>7. sum[t \ {One(t)}] \in Int BY <2>4, <2>5, <2>6
  <2>8. sum[t] = At(One(t)) + sum[t \ {One(t)}] BY <1>7, <2>2, <2>3
  <2> QED BY <2>2, <2>4, <2>7, <2>8
<1>9. seeds \in SUBSET seeds /\ Cardinality(seeds) \in Nat BY <1>2, FS_CardinalityType
<1>10. sum[seeds] \in Int BY <1>8, <1>9
<1> QED BY <1>1, <1>10

-----------------------------------------------------------------------------
(* The frontier *)

Best(points) == {p \in points : ~\E o \in points : Dominates(o, p)}

LEMMA PointIs == \A p \in Points : p.quality \in Int /\ p.metric \in Int
                                 /\ p = [quality |-> p.quality, metric |-> p.metric]
BY DEF Points

\* For every point there is a best one that is as good.
LEMMA BestExists ==
  ASSUME NEW points \in SUBSET Points, IsFiniteSet(points), NEW o \in points
  PROVE  \E p \in Best(points) : p.quality >= o.quality /\ p.metric <= o.metric
<1> DEFINE D == {p \in points : p.quality >= o.quality /\ p.metric <= o.metric}
           Gain(p) == p.quality - p.metric
           R == {e \in D \X D : Gain(e[1]) >= Gain(e[2])}
<1>1. \A p \in points : p.quality \in Int /\ p.metric \in Int /\ p = [quality |-> p.quality, metric |-> p.metric]
  BY PointIs
<1>2. o \in D /\ \A p \in D : p \in points /\ Gain(p) \in Int BY <1>1
<1>3. IsFiniteSet(D)
  <2>1. D \in SUBSET points OBVIOUS
  <2> HIDE DEF D
  <2> QED BY <2>1, FS_Subset
<1>4. PICK p \in D : \A q \in D : Gain(p) >= Gain(q)
  <2> HIDE DEF D, Gain
  <2>1. \A x, y \in D : <<x, y>> \in R <=> Gain(x) >= Gain(y) OBVIOUS
  <2> HIDE DEF R
  <2>2. \A x, y \in D : <<x, y>> \in R \/ <<y, x>> \in R
    <3>1. \A x, y \in D : Gain(x) >= Gain(y) \/ Gain(y) >= Gain(x) BY <1>2
    <3> QED BY <2>1, <3>1
  <2>3. \A x, y, z \in D : <<x, y>> \in R /\ <<y, z>> \in R => <<x, z>> \in R BY <1>2, <2>1
  <2>4. \E x \in D : \A y \in D : <<x, y>> \in R BY <1>2, <1>3, <2>2, <2>3, LeastExists
  <2> QED BY <2>1, <2>4
<1>5. ASSUME NEW q \in points, Dominates(q, p) PROVE FALSE
  <2>1. q.quality >= p.quality /\ q.metric <= p.metric /\ q # p BY <1>5 DEF Dominates
  <2>2. q \in D BY <1>1, <2>1
  <2>3. p \in points /\ Gain(p) >= Gain(q) BY <1>4, <2>2
  <2>4. q.quality = p.quality /\ q.metric = p.metric BY <1>1, <2>1, <2>3
  <2> QED BY <1>1, <2>1, <2>3, <2>4
<1> QED BY <1>4, <1>5 DEF Best

\* Of two best points one is above the other, and dearer.
LEMMA BestOrder ==
  ASSUME NEW points \in SUBSET Points, NEW p \in Best(points), NEW q \in Best(points)
  PROVE  /\ p = q \/ p.quality < q.quality \/ q.quality < p.quality
         /\ p.quality < q.quality => p.metric < q.metric
<1>1. p \in points /\ q \in points /\ ~Dominates(p, q) /\ ~Dominates(q, p) BY DEF Best
<1>2. p.quality \in Int /\ p.metric \in Int /\ q.quality \in Int /\ q.metric \in Int BY <1>1, PointIs
<1> QED BY <1>1, <1>2 DEF Dominates

LEMMA FrontierIs ==
  ASSUME NEW points \in SUBSET Points, IsFiniteSet(points), points # {}
  PROVE  LET front == Frontier(points)
         IN  /\ Len(front) \in Nat \ {0} /\ front \in [1 .. Len(front) -> Best(points)]
             /\ \A m, n \in 1 .. Len(front) :
                  m < n => front[m].quality < front[n].quality /\ front[m].metric < front[n].metric
             /\ \A p \in Best(points) : \E n \in 1 .. Len(front) : front[n] = p
<1> DEFINE best == Best(points)
           places == 1 .. Cardinality(best)
           R == {e \in best \X best : e[1].quality < e[2].quality}
           Rising(f) == \A m, n \in places : m < n => f[m].quality < f[n].quality
           front == Frontier(points)
<1>1. \A p \in best : p \in points /\ p.quality \in Int /\ p.metric \in Int BY PointIs DEF Best
<1>2. IsFiniteSet(best) /\ Cardinality(best) \in Nat
  <2>1. best \in SUBSET points BY <1>1
  <2> HIDE DEF best
  <2> QED BY <2>1, FS_Subset, FS_CardinalityType
<1>3. front = CHOOSE f \in [places -> best] : Rising(f) BY DEF Frontier, Best
<1>4. \A p, q \in best : p = q \/ p.quality < q.quality \/ q.quality < p.quality BY BestOrder
<1>5. \A p, q \in best : p.quality < q.quality => p.metric < q.metric BY BestOrder
<1>6. best # {} BY BestExists
<1> HIDE DEF best, front
<1>7. \A p, q \in best : <<p, q>> \in R <=> p.quality < q.quality OBVIOUS
<1> HIDE DEF R
<1>8. /\ \A p \in best : <<p, p>> \notin R
      /\ \A p, q \in best : p = q \/ <<p, q>> \in R \/ <<q, p>> \in R
      /\ \A p, q, r \in best : <<p, q>> \in R /\ <<q, r>> \in R => <<p, r>> \in R
  BY <1>1, <1>4, <1>7
<1>9. \E f \in [places -> best] : Rising(f)
  <2>1. PICK f \in [places -> best] : \A m, n \in places : m < n => <<f[m], f[n]>> \in R BY <1>2, <1>8, OrderedExists
  <2>2. Rising(f)
    <3> SUFFICES ASSUME NEW m \in places, NEW n \in places, m < n PROVE f[m].quality < f[n].quality OBVIOUS
    <3>1. f[m] \in best /\ f[n] \in best /\ <<f[m], f[n]>> \in R BY <2>1
    <3> QED BY <1>7, <3>1
  <2> QED BY <2>2
<1>10. front \in [places -> best] /\ Rising(front)
  <2> HIDE DEF Rising, places
  <2> QED BY <1>3, <1>9
<1>11. Len(front) = Cardinality(best) BY <1>2, <1>10
<1>12. Cardinality(best) # 0 BY <1>2, <1>6, FS_EmptySet
<1>13. ASSUME NEW m \in places, NEW n \in places, m < n
       PROVE  front[m].quality < front[n].quality /\ front[m].metric < front[n].metric
  <2>1. front[m] \in best /\ front[n] \in best /\ front[m].quality < front[n].quality BY <1>10, <1>13
  <2> QED BY <1>5, <2>1
<1>14. \A p \in best : \E n \in places : front[n] = p
  <2>1. ASSUME NEW m \in places, NEW n \in places, m < n PROVE front[m] # front[n]
    <3>1. front[m] \in best /\ front[n] \in best /\ front[m].quality < front[n].quality BY <1>10, <1>13, <2>1
    <3> QED BY <1>1, <3>1
  <2>2. front \in [places -> best] BY <1>10
  <2> QED BY <1>2, <2>1, <2>2, AllAreReached
<1> QED BY <1>2, <1>10, <1>11, <1>12, <1>13, <1>14 DEF best, front

-----------------------------------------------------------------------------
(* A reading *)

LEMMA EndReads ==
  ASSUME NEW p \in Points, NEW above \in BOOLEAN, NEW pos, pos = [low |-> p, high |-> p, weight |-> 0, above |-> above]
  PROVE  /\ pos # NoReading /\ pos.above = above
         /\ Read(pos, "quality") = <<p.quality, 1>> /\ Read(pos, "metric") = <<p.metric, 1>>
<1>1. pos \in [low : Points, high : Points, weight : Nat, above : BOOLEAN] OBVIOUS
<1>2. pos # NoReading BY <1>1, ReadingAssumption
<1>3. pos.low = p /\ pos.high = p /\ pos.weight = 0 /\ pos.above = above OBVIOUS
<1>4. p["quality"] \in Int /\ p["metric"] \in Int /\ p["quality"] = p.quality /\ p["metric"] = p.metric BY PointIs
<1>5. \A x \in Int : x * 1 + (x - x) * 0 = x OBVIOUS
<1>6. \A field : p[field] \in Int => Read(pos, field) = <<p[field], 1>> BY <1>3, <1>5 DEF Read
<1> QED BY <1>2, <1>3, <1>4, <1>6

LEMMA Interpolates ==
  ASSUME NEW a \in Int, NEW b \in Int, NEW gap \in Int, NEW weight \in Int, a <= b, 0 <= weight, weight <= gap
  PROVE  a * gap + (b - a) * weight \in Int /\ a * gap + (b - a) * weight <= b * gap
<1> DEFINE d == b - a
           rest == gap - weight
<1>1. d \in Nat /\ rest \in Nat /\ b = a + d /\ gap = weight + rest OBVIOUS
<1> HIDE DEF d, rest
<1>2. d * rest >= 0 BY <1>1
<1>3. b * gap - (a * gap + d * weight) = d * rest BY <1>1
<1>4. b - a = d BY <1>1
<1>5. b * gap \in Int /\ a * gap + d * weight \in Int /\ d * rest \in Int BY <1>1
<1> QED BY <1>2, <1>3, <1>4, <1>5

LEMMA BetweenReads ==
  ASSUME NEW low \in Points, NEW high \in Points, NEW quality \in Int, low.quality <= quality, quality < high.quality,
         NEW pos, pos = [low |-> low, high |-> high, weight |-> quality - low.quality, above |-> FALSE]
  PROVE  LET gap == high.quality - low.quality
         IN  /\ pos # NoReading /\ ~pos.above /\ gap \in Nat \ {0}
             /\ Read(pos, "quality") = <<quality * gap, gap>>
             /\ Read(pos, "metric") = <<low.metric * gap + (high.metric - low.metric) * (quality - low.quality), gap>>
<1> DEFINE gap == high.quality - low.quality
           weight == quality - low.quality
<1>1. /\ low.quality \in Int /\ high.quality \in Int /\ low.metric \in Int /\ high.metric \in Int
      /\ low["quality"] = low.quality /\ high["quality"] = high.quality
      /\ low["metric"] = low.metric /\ high["metric"] = high.metric
  BY PointIs
<1>2. gap \in Nat \ {0} /\ weight \in Nat BY <1>1
<1>3. pos \in [low : Points, high : Points, weight : Nat, above : BOOLEAN] BY <1>2
<1>4. pos # NoReading BY <1>3, ReadingAssumption
<1>5. pos.low = low /\ pos.high = high /\ pos.weight = weight /\ pos.above = FALSE OBVIOUS
<1>6. low # high BY <1>1
<1>7. \A field : Read(pos, field) = <<low[field] * gap + (high[field] - low[field]) * weight, gap>>
  BY <1>5, <1>6 DEF Read
<1>8. low.quality * gap + gap * weight = quality * gap BY <1>1
<1> QED BY <1>1, <1>2, <1>4, <1>5, <1>7, <1>8

\* What a reading owes the points, for a baseline at a quality and a metric.
Owed(reading, points, quality, metric, near) ==
  IF reading = NoReading THEN \A o \in points : o.quality < quality - near
  ELSE LET q == Read(reading, "quality")
           m == Read(reading, "metric")
       IN  /\ \E o \in points : o.quality >= quality - near
           /\ q[1] >= (quality - near) * q[2]
           /\ reading.above <=> ~AtMost(q, quality + near)
           /\ \A o \in points :
                /\ o.quality >= quality /\ o.metric <= metric => AtMost(m, metric)
                /\ reading.above => AtMost(m, o.metric)

\* A reading at one point.
LEMMA EndOwes ==
  ASSUME NEW points, NEW p \in Points, p \in points, NEW above \in BOOLEAN, NEW quality \in Int, NEW metric \in Int,
         NEW near \in Nat, NEW pos, pos = [low |-> p, high |-> p, weight |-> 0, above |-> above],
         p.quality >= quality - near, above <=> p.quality > quality + near,
         \A o \in points : o.quality >= quality /\ o.metric <= metric => p.metric <= metric,
         above => \A o \in points : o.metric \in Int /\ p.metric <= o.metric
  PROVE  Owed(pos, points, quality, metric, near)
<1>1. /\ pos # NoReading /\ pos.above = above
      /\ Read(pos, "quality") = <<p.quality, 1>> /\ Read(pos, "metric") = <<p.metric, 1>>
  BY EndReads
<1>2. p.quality \in Int /\ p.metric \in Int BY PointIs
<1>3. \A x, n \in Int : AtMost(<<x, 1>>, n) <=> x <= n BY DEF AtMost
<1>4. (quality - near) * 1 = quality - near /\ quality + near \in Int BY <1>2
<1>5. \E o \in points : o.quality >= quality - near OBVIOUS
<1>6. <<p.quality, 1>>[1] = p.quality /\ <<p.quality, 1>>[2] = 1 OBVIOUS
<1>7. above <=> ~AtMost(<<p.quality, 1>>, quality + near) BY <1>2, <1>3, <1>4
<1>8. \A o \in points : o.quality >= quality /\ o.metric <= metric => AtMost(<<p.metric, 1>>, metric) BY <1>2, <1>3
<1>9. above => \A o \in points : AtMost(<<p.metric, 1>>, o.metric) BY <1>2, <1>3
<1> QED BY <1>1, <1>4, <1>5, <1>6, <1>7, <1>8, <1>9 DEF Owed

\* A reading between two points, of which the higher is no dearer than the baseline where a point comes up to it, or
\* the lower is, at the baseline's quality.
LEMMA BetweenOwes ==
  ASSUME NEW points, NEW low \in Points, NEW high \in Points, high \in points,
         NEW quality \in Int, NEW metric \in Int, NEW near \in Nat,
         low.quality <= quality, quality < high.quality, low.metric < high.metric,
         NEW pos, pos = [low |-> low, high |-> high, weight |-> quality - low.quality, above |-> FALSE],
         \A o \in points : o.quality >= quality /\ o.metric <= metric =>
           high.metric <= metric \/ (low.quality = quality /\ low.metric <= metric)
  PROVE  Owed(pos, points, quality, metric, near)
<1> DEFINE gap == high.quality - low.quality
           weight == quality - low.quality
           read == low.metric * gap + (high.metric - low.metric) * weight
<1>1. low.quality \in Int /\ high.quality \in Int /\ low.metric \in Int /\ high.metric \in Int BY PointIs
<1>2. /\ pos # NoReading /\ ~pos.above /\ gap \in Nat \ {0}
      /\ Read(pos, "quality") = <<quality * gap, gap>> /\ Read(pos, "metric") = <<read, gap>>
  BY BetweenReads
<1>3. weight \in Nat /\ weight <= gap BY <1>1
<1>4. read \in Int /\ read <= high.metric * gap
  <2> HIDE DEF gap, weight
  <2> QED BY <1>1, <1>2, <1>3, Interpolates
<1>5. low.quality = quality => read = low.metric * gap BY <1>1
<1> HIDE DEF gap, weight, read
<1>6. \A x \in Int : x <= metric => x * gap <= metric * gap
  <2> SUFFICES ASSUME NEW x \in Int, x <= metric PROVE x * gap <= metric * gap OBVIOUS
  <2> DEFINE d == metric - x
  <2>1. d \in Nat /\ metric = x + d OBVIOUS
  <2> HIDE DEF d
  <2>2. d * gap >= 0 /\ metric * gap = x * gap + d * gap /\ x * gap \in Int /\ d * gap \in Int BY <1>2, <2>1
  <2> QED BY <2>2
<1>7. ASSUME NEW o \in points, o.quality >= quality, o.metric <= metric PROVE AtMost(<<read, gap>>, metric)
  <2>1. high.metric * gap \in Int /\ metric * gap \in Int BY <1>1, <1>2
  <2>2. read <= metric * gap
    <3>1. CASE high.metric <= metric
      <4>1. high.metric * gap <= metric * gap BY <1>1, <1>6, <3>1
      <4> QED BY <1>4, <2>1, <4>1
    <3>2. CASE low.quality = quality /\ low.metric <= metric BY <1>1, <1>5, <1>6, <3>2
    <3> QED BY <1>7, <3>1, <3>2
  <2> QED BY <2>2 DEF AtMost
<1>8. quality * gap \in Int /\ near * gap >= 0 /\ near * gap \in Int BY <1>2
<1>9. (quality - near) * gap = quality * gap - near * gap /\ (quality + near) * gap = quality * gap + near * gap
  BY <1>2
<1>10. quality * gap >= (quality - near) * gap /\ AtMost(<<quality * gap, gap>>, quality + near)
  BY <1>8, <1>9 DEF AtMost
<1>11. \E o \in points : o.quality >= quality - near BY <1>1
<1>12. <<quality * gap, gap>>[1] = quality * gap /\ <<quality * gap, gap>>[2] = gap OBVIOUS
<1> QED BY <1>2, <1>7, <1>10, <1>11, <1>12 DEF Owed

\* Whatever the points: a reading of their frontier owes them nothing.
LEMMA PositionIsFair ==
  ASSUME NEW points \in SUBSET Points, IsFiniteSet(points), points # {},
         NEW quality \in Int, NEW metric \in Int, NEW near \in Nat
  PROVE  Owed(PositionAt(quality, Frontier(points), near), points, quality, metric, near)
<1> DEFINE front == Frontier(points)
           K == Len(front)
           higher == {n \in DOMAIN front : front[n].quality > quality}
           pos == PositionAt(quality, front, near)
           At(low, high, weight, above) == [low |-> low, high |-> high, weight |-> weight, above |-> above]
<1>1. K \in Nat \ {0} /\ front \in [1 .. K -> Best(points)] BY FrontierIs
<1>2. \A m, n \in 1 .. K : m < n => front[m].quality < front[n].quality /\ front[m].metric < front[n].metric
  BY FrontierIs
<1>3. \A p \in Best(points) : \E n \in 1 .. K : front[n] = p BY FrontierIs
<1> HIDE DEF front, K
<1>4. \A n \in 1 .. K : front[n] \in points /\ front[n] \in Points /\ front[n].quality \in Int /\ front[n].metric \in Int
  BY <1>1, PointIs DEF Best
<1>5. ASSUME NEW o \in points
      PROVE  \E n \in 1 .. K : front[n].quality >= o.quality /\ front[n].metric <= o.metric
  BY <1>3, BestExists
<1>6. \A o \in points : o.quality \in Int /\ o.metric \in Int BY PointIs
<1>7. DOMAIN front = 1 .. K /\ 1 \in 1 .. K /\ K \in 1 .. K /\ front[K] = Last(front) BY <1>1 DEF Last, K
<1>8. /\ \A n \in 1 .. K : front[1].quality <= front[n].quality /\ front[1].metric <= front[n].metric
      /\ \A n \in 1 .. K : front[n].quality <= front[K].quality /\ (front[n].quality = front[K].quality => n = K)
  <2>1. \A n \in 1 .. K : (n = 1 \/ 1 < n) /\ (n = K \/ n < K) BY <1>1
  <2> QED BY <1>2, <1>4, <1>7, <2>1
<1>9. pos = IF quality <= front[1].quality
            THEN At(front[1], front[1], 0, front[1].quality - quality > near)
            ELSE IF higher = {}
            THEN IF quality - Last(front).quality <= near THEN At(Last(front), Last(front), 0, FALSE) ELSE NoReading
            ELSE At(front[Min(higher) - 1], front[Min(higher)], quality - front[Min(higher) - 1].quality, FALSE)
  BY DEF PositionAt
<1> HIDE DEF pos
<1>10. CASE quality <= front[1].quality
  <2> DEFINE p == front[1]
             above == p.quality - quality > near
  <2>1. p \in points /\ p \in Points /\ p.quality \in Int /\ p.metric \in Int BY <1>4, <1>7
  <2>2. \A o \in points : p.metric <= o.metric
    <3> SUFFICES ASSUME NEW o \in points PROVE p.metric <= o.metric OBVIOUS
    <3>1. PICK n \in 1 .. K : front[n].metric <= o.metric BY <1>5
    <3> QED BY <1>4, <1>6, <1>8, <2>1, <3>1
  <2>3. pos = At(p, p, 0, above) BY <1>9, <1>10
  <2>4. p.quality >= quality - near /\ (above <=> p.quality > quality + near) BY <1>10, <2>1
  <2>5. \A o \in points : o.quality >= quality /\ o.metric <= metric => p.metric <= metric BY <1>6, <2>1, <2>2
  <2>6. above \in BOOLEAN OBVIOUS
  <2> HIDE DEF p, above
  <2> QED BY <1>6, <2>1, <2>2, <2>3, <2>4, <2>5, <2>6, EndOwes DEF pos, front
<1>11. CASE quality > front[1].quality /\ higher = {}
  <2> DEFINE p == front[K]
  <2>1. p \in points /\ p \in Points /\ p.quality \in Int /\ p.metric \in Int BY <1>4, <1>7
  <2>2. p.quality <= quality BY <1>7, <1>11, <2>1
  <2>3. ASSUME NEW o \in points PROVE o.quality <= p.quality
    <3>1. PICK n \in 1 .. K : front[n].quality >= o.quality BY <1>5
    <3> QED BY <1>4, <1>6, <1>8, <2>1, <3>1
  <2>4. CASE quality - p.quality <= near
    <3>1. pos = At(p, p, 0, FALSE) BY <1>4, <1>7, <1>9, <1>11, <2>4
    <3>2. p.quality >= quality - near /\ ~(p.quality > quality + near) BY <2>1, <2>2, <2>4
    <3>3. ASSUME NEW o \in points, o.quality >= quality, o.metric <= metric PROVE p.metric <= metric
      <4>1. PICK n \in 1 .. K : front[n].quality >= o.quality /\ front[n].metric <= o.metric BY <1>5
      <4>2. front[n].quality = p.quality BY <1>4, <1>6, <1>8, <2>1, <2>2, <3>3, <4>1
      <4>3. n = K BY <1>8, <4>2
      <4> QED BY <1>6, <2>1, <3>3, <4>1, <4>3
    <3> HIDE DEF p
    <3> QED BY <2>1, <3>1, <3>2, <3>3, EndOwes DEF pos, front
  <2>5. CASE ~(quality - p.quality <= near)
    <3>1. pos = NoReading BY <1>4, <1>7, <1>9, <1>11, <2>5
    <3>2. \A o \in points : o.quality < quality - near BY <1>6, <2>1, <2>3, <2>5
    <3> QED BY <3>1, <3>2 DEF Owed, pos, front
  <2> QED BY <2>4, <2>5
<1>12. CASE quality > front[1].quality /\ higher # {}
  <2> DEFINE k == Min(higher)
             low == front[k - 1]
             high == front[k]
  <2>1. k \in higher /\ \A n \in higher : k <= n
    <3>1. higher \subseteq Nat BY <1>1, <1>7
    <3> HIDE DEF higher
    <3> QED BY <1>12, <3>1, MinIsLeast
  <2> HIDE DEF k
  <2>2. k \in 1 .. K /\ high.quality > quality BY <1>7, <2>1
  <2>3. k # 1 BY <1>4, <1>7, <1>12, <2>2
  <2>4. k - 1 \in 1 .. K /\ k - 1 < k /\ ~(k <= k - 1) BY <1>1, <2>2, <2>3
  <2>5. ~(low.quality > quality) BY <1>7, <2>1, <2>4
  <2>6. /\ low \in Points /\ low.quality \in Int /\ low.metric \in Int
        /\ high \in Points /\ high \in points /\ high.quality \in Int /\ high.metric \in Int
    BY <1>4, <2>2, <2>4
  <2>7. low.quality <= quality /\ low.metric < high.metric BY <1>2, <2>2, <2>4, <2>5, <2>6
  <2>8. pos = At(low, high, quality - low.quality, FALSE) BY <1>4, <1>7, <1>9, <1>12 DEF k
  <2>9. ASSUME NEW o \in points, o.quality >= quality, o.metric <= metric
        PROVE  high.metric <= metric \/ (low.quality = quality /\ low.metric <= metric)
    <3>1. PICK n \in 1 .. K : front[n].quality >= o.quality /\ front[n].metric <= o.metric BY <1>5
    <3>2. front[n].quality \in Int /\ front[n].metric \in Int /\ front[n].quality >= quality /\ front[n].metric <= metric
      BY <1>4, <1>6, <2>9, <3>1
    <3>3. CASE k <= n
      <4>1. n = k \/ k < n BY <2>2, <3>3
      <4>2. high.metric <= front[n].metric BY <1>2, <2>2, <2>6, <3>2, <4>1
      <4> QED BY <2>6, <3>2, <4>2
    <3>4. CASE ~(k <= n)
      <4>1. n \notin higher BY <2>1, <3>4
      <4>2. front[n].quality = quality BY <1>7, <3>2, <4>1
      <4>3. n = k - 1 \/ n < k - 1 BY <2>2, <3>4
      <4>4. n = k - 1
        <5> SUFFICES ASSUME n < k - 1 PROVE FALSE BY <4>3
        <5>1. front[n].quality < low.quality BY <1>2, <2>4
        <5> QED BY <2>6, <2>7, <4>2, <5>1
      <4> QED BY <3>2, <4>2, <4>4
    <3> QED BY <3>3, <3>4
  <2> HIDE DEF low, high
  <2> QED BY <2>2, <2>6, <2>7, <2>8, <2>9, BetweenOwes DEF pos, front
<1> QED
  <2>1. front[1].quality \in Int BY <1>4, <1>7
  <2>2. quality <= front[1].quality \/ quality > front[1].quality BY <2>1
  <2> QED BY <1>10, <1>11, <1>12, <2>2

LEMMA ImageIsFinite ==
  ASSUME NEW S, IsFiniteSet(S), NEW f, NEW T, T = {f[x] : x \in S}
  PROVE  IsFiniteSet(T)
<1> DEFINE g == [x \in S |-> f[x]]
<1>1. g \in [S -> T] /\ \A y \in T : \E x \in S : g[x] = y OBVIOUS
<1> HIDE DEF g
<1>2. g \in Surjection(S, T) BY <1>1, Fun_IsSurj
<1> QED BY <1>2, FS_Surjection

-----------------------------------------------------------------------------
(* The rows of a table *)

LEMMA PointIsPoint ==
  ASSUME NEW value, NEW config, NEW trace, NEW seeds, IsFiniteSet(seeds),
         \A s \in seeds : value[Cell(config, trace, s)] \in Points
  PROVE  Point(value, config, trace, seeds) \in Points
<1>1. \A s \in seeds : /\ value[Cell(config, trace, s)]["quality"] \in Int
                       /\ value[Cell(config, trace, s)]["metric"] \in Int
  BY PointIs
<1>2. Total(value, config, trace, seeds, "quality") \in Int BY <1>1, TotalIsNumber
<1>3. Total(value, config, trace, seeds, "metric") \in Int BY <1>1, TotalIsNumber
<1> QED BY <1>2, <1>3 DEF Point, Points

\* A row of a baseline and some presets.
LEMMA RowIsFair ==
  ASSUME NEW base, NEW trace, NEW seeds, IsFiniteSet(seeds), NEW presets, IsFiniteSet(presets), presets # {},
         NEW V \in SUBSET Points
  PROVE  FairRow(base, trace, seeds, presets, presets, V)
<1> DEFINE of == {Cell(p, trace, s) : p \in presets, s \in seeds}
           own == {Cell(base, trace, s) : s \in seeds}
           With(measured) == [c \in of \cup own |-> IF c \in of THEN measured[c] ELSE [quality |-> 0, metric |-> 0]]
<1>1. ASSUME NEW measured \in [of -> V], NEW over \in {seeds} \cup {{s} : s \in seeds}
      PROVE  FairReading(With(measured), presets, base, trace, over, presets)
  <2> DEFINE value == With(measured)
             points == {Point(value, p, trace, over) : p \in presets}
             at == Point(value, base, trace, over)
             near == Tolerance * Cardinality(over)
  <2>1. over \subseteq seeds /\ IsFiniteSet(over)
    <3>1. CASE over = seeds BY <3>1
    <3>2. CASE over # seeds
      <4>1. PICK s \in seeds : over = {s} BY <3>2
      <4>2. \A x : IsFiniteSet({x}) BY FS_Singleton
      <4> QED BY <4>1, <4>2
    <3> QED BY <3>1, <3>2
  <2>2. ASSUME NEW c \in of \cup own PROVE value[c] \in Points
    <3>1. [quality |-> 0, metric |-> 0] \in Points BY DEF Points
    <3> HIDE DEF of, own
    <3> QED BY <3>1
  <2>3. ASSUME NEW p \in presets \cup {base}, NEW s \in over PROVE value[Cell(p, trace, s)] \in Points
    <3>1. Cell(p, trace, s) \in of \cup own BY <2>1
    <3> HIDE DEF of, own, value
    <3> QED BY <2>2, <3>1
  <2> HIDE DEF value
  <2>4. at \in Points /\ \A p \in presets : Point(value, p, trace, over) \in Points BY <2>1, <2>3, PointIsPoint
  <2>5. points \in SUBSET Points /\ points # {} BY <2>4
  <2>6. IsFiniteSet(points)
    <3> DEFINE f == [p \in presets |-> Point(value, p, trace, over)]
    <3>1. points = {f[p] : p \in presets} OBVIOUS
    <3> HIDE DEF points, f
    <3> QED BY <3>1, ImageIsFinite
  <2>7. near \in Nat
    <3>1. Cardinality(over) \in Nat BY <2>1, FS_CardinalityType
    <3> QED BY <3>1, ReadingAssumption
  <2>8. at.quality \in Int /\ at.metric \in Int BY <2>4, PointIs
  <2>9. Owed(PositionAt(at.quality, Frontier(points), near), points, at.quality, at.metric, near)
    <3> HIDE DEF at, points, near
    <3> QED BY <2>5, <2>6, <2>7, <2>8, PositionIsFair
  <2>10. FairReading(value, presets, base, trace, over, presets) BY <2>9 DEF FairReading, Reading, Owed
  <2> QED BY <2>10 DEF value
<1> HIDE DEF With, of
<1>2. \A measured \in [of -> V] : \A over \in {seeds} \cup {{s} : s \in seeds} :
        FairReading(With(measured), presets, base, trace, over, presets)
  BY <1>1
<1> QED BY <1>2 DEF FairRow, With, of

LEMMA RowsAreFair ==
  ASSUME NEW cells, IsFiniteSet(cells), \A c \in cells : c = Cell(c.config, c.trace, c.seed), NEW trace,
         NEW V \in SUBSET Points
  PROVE  Fair(cells, trace, V)
<1> SUFFICES ASSUME NEW b \in Baselines(cells, trace)
             PROVE  LET seeds == SeedsOf(cells, trace, b)
                        presets == Eligible(cells, trace, b)
                        among == {p \in Configs(cells, trace) :
                                    System[p.template] = Treatment /\ \A s \in seeds : Cell(p, trace, s) \in cells}
                    IN  presets \subseteq among /\ FairRow(b, trace, seeds, presets, among, V)
  BY DEF Fair
<1> DEFINE seeds == SeedsOf(cells, trace, b)
           presets == Eligible(cells, trace, b)
           among == {p \in Configs(cells, trace) :
                       System[p.template] = Treatment /\ \A s \in seeds : Cell(p, trace, s) \in cells}
<1>1. presets # {} BY DEF Baselines
<1>2. among = presets
  <2>1. ASSUME NEW p, NEW s, Cell(p, trace, s) \in cells PROVE s \in SeedsOf(cells, trace, p)
    <3>1. Cell(p, trace, s).trace = trace /\ Cell(p, trace, s).config = p /\ Cell(p, trace, s).seed = s BY DEF Cell
    <3> QED BY <2>1, <3>1 DEF SeedsOf
  <2>2. ASSUME NEW p, NEW s \in SeedsOf(cells, trace, p) PROVE Cell(p, trace, s) \in cells BY <2>2 DEF SeedsOf
  <2>3. \A p \in Configs(cells, trace) :
          SeedsOf(cells, trace, b) \subseteq SeedsOf(cells, trace, p) <=> \A s \in seeds : Cell(p, trace, s) \in cells
    BY <2>1, <2>2
  <2> QED BY <2>3 DEF Eligible
<1>3. IsFiniteSet(seeds)
  <2> DEFINE D == {d \in cells : d.trace = trace /\ d.config = b}
             f == [d \in D |-> d.seed]
  <2>1. D \in SUBSET cells OBVIOUS
  <2>2. seeds = {f[d] : d \in D} BY DEF SeedsOf
  <2> HIDE DEF D, seeds, f
  <2>3. IsFiniteSet(D) BY <2>1, FS_Subset
  <2> QED BY <2>2, <2>3, ImageIsFinite
<1>4. IsFiniteSet(presets)
  <2> DEFINE D == {d \in cells : d.trace = trace}
             all == Configs(cells, trace)
             f == [d \in D |-> d.config]
  <2>1. D \in SUBSET cells OBVIOUS
  <2>2. all = {f[d] : d \in D} BY DEF Configs
  <2>3. presets \in SUBSET all BY DEF Eligible
  <2> HIDE DEF D, all, presets, f
  <2>4. IsFiniteSet(D) BY <2>1, FS_Subset
  <2>5. IsFiniteSet(all) BY <2>2, <2>4, ImageIsFinite
  <2> QED BY <2>3, <2>5, FS_Subset
<1> HIDE DEF seeds, presets, among
<1>5. FairRow(b, trace, seeds, presets, among, V) BY <1>1, <1>2, <1>3, <1>4, RowIsFair
<1>6. presets \subseteq among BY <1>2
<1> QED BY <1>5, <1>6 DEF seeds, presets, among

-----------------------------------------------------------------------------
(* The cells of a report *)

LEMMA AxisIsFinite ==
  ASSUME NEW s \in Scopes, NEW n \in DOMAIN s.blocks, NEW p \in s.blocks[n].patterns, NEW in, Inputs(in)
  PROVE  /\ IsFiniteSet(AxisValues(p, in))
         /\ AxisValues(p, in) \subseteq AxisValues(p, [decisions |-> [d \in Decisions |-> UNION MayDecide[d]]])
<1> DEFINE ever == [decisions |-> [d \in Decisions |-> UNION MayDecide[d]]]
<1>1. p.by \in Decisions \cup {None} /\ IsFiniteSet(p.values) BY LeaseAssumption
<1>2. CASE p.by = None BY <1>1, <1>2 DEF AxisValues
<1>3. CASE p.by # None
  <2>1. p.by \in Decisions BY <1>1, <1>3
  <2>2. in.decisions[p.by] \in {{}} \cup MayDecide[p.by] BY <2>1, InputsAre
  <2>3. IsFiniteSet({}) BY FS_EmptySet
  <2>4. IsFiniteSet(in.decisions[p.by]) BY <2>1, <2>2, <2>3, LeaseAssumption
  <2>5. ever.decisions[p.by] = UNION MayDecide[p.by] BY <2>1
  <2>6. in.decisions[p.by] \subseteq ever.decisions[p.by] BY <2>2, <2>5
  <2> HIDE DEF ever
  <2>7. AxisValues(p, in) = in.decisions[p.by] /\ AxisValues(p, ever) = ever.decisions[p.by]
    BY <1>3 DEF AxisValues
  <2> QED BY <2>4, <2>6, <2>7 DEF ever
<1> QED BY <1>2, <1>3

LEMMA BlockIsFinite ==
  ASSUME NEW s \in Scopes, NEW n \in DOMAIN s.blocks, NEW in, Inputs(in)
  PROVE  IsFiniteSet(Cells(s.blocks[n], in))
<1> DEFINE b == s.blocks[n]
           axes == {AxisValues(r, in) : r \in b.patterns}
           pairs == b.patterns \X UNION axes
           chosen == {q \in pairs : q[2] \in AxisValues(q[1], in)}
           configs == BlockConfigs(b, in)
           triples == (configs \X b.traces) \X b.seeds
           cells == Cells(b, in)
<1>1. IsFiniteSet(b.patterns) /\ IsFiniteSet(b.traces) /\ IsFiniteSet(b.seeds) BY LeaseAssumption
<1>2. \A r \in b.patterns : IsFiniteSet(AxisValues(r, in)) BY AxisIsFinite
<1>3. IsFiniteSet(axes)
  <2> DEFINE f == [r \in b.patterns |-> AxisValues(r, in)]
  <2>1. axes = {f[r] : r \in b.patterns} OBVIOUS
  <2> HIDE DEF axes, f
  <2> QED BY <1>1, <2>1, ImageIsFinite
<1>4. \A v \in axes : IsFiniteSet(v) BY <1>2
<1>5. IsFiniteSet(UNION axes)
  <2> HIDE DEF axes
  <2> QED BY <1>3, <1>4, FS_UNION
<1>6. IsFiniteSet(pairs)
  <2> HIDE DEF axes, b
  <2> QED BY <1>1, <1>5, FS_Product
<1>7. chosen \in SUBSET pairs OBVIOUS
<1>8. IsFiniteSet(chosen)
  <2> HIDE DEF pairs, chosen
  <2> QED BY <1>6, <1>7, FS_Subset
<1>9. IsFiniteSet(configs)
  <2> DEFINE f == [q \in chosen |-> [alias |-> b.alias, template |-> q[1].template, value |-> q[2]]]
  <2>1. configs = {f[q] : q \in chosen} BY DEF BlockConfigs
  <2> HIDE DEF configs, chosen, f
  <2> QED BY <1>8, <2>1, ImageIsFinite
<1>10. IsFiniteSet(triples)
  <2> HIDE DEF configs, b
  <2>1. IsFiniteSet(configs \X b.traces) BY <1>1, <1>9, FS_Product
  <2> QED BY <1>1, <2>1, FS_Product
<1>11. IsFiniteSet(cells)
  <2> DEFINE f == [q \in triples |-> [config |-> q[1][1], trace |-> q[1][2], seed |-> q[2]]]
             all == {f[q] : q \in triples}
  <2>1. ASSUME NEW c \in cells PROVE c \in all
    <3>1. PICK k \in configs, t \in b.traces, x \in b.seeds : c = [config |-> k, trace |-> t, seed |-> x]
      BY <2>1 DEF Cells
    <3> HIDE DEF configs, b
    <3>2. <<<<k, t>>, x>> \in triples OBVIOUS
    <3>3. f[<<<<k, t>>, x>>] = c BY <3>1, <3>2
    <3> QED BY <3>2, <3>3
  <2>2. cells \in SUBSET all BY <2>1
  <2>3. all = {f[q] : q \in triples} OBVIOUS
  <2> HIDE DEF cells, triples, f, all
  <2>4. IsFiniteSet(all) BY <1>10, <2>3, ImageIsFinite
  <2> QED BY <2>2, <2>4, FS_Subset
<1> QED BY <1>11

\* The cells of a render are finitely many, each one that its block may come to list.
LEMMA RenderedCells ==
  ASSUME IInv
  PROVE  /\ IsFiniteSet(Expected)
         /\ \A c \in Expected :
              c = Cell(c.config, c.trace, c.seed) /\ \E n \in DOMAIN scope.blocks : c \in EverIn(scope.blocks[n])
<1>1. CASE Expected = {}
  <2>1. IsFiniteSet({}) BY FS_EmptySet
  <2> QED BY <1>1, <2>1
<1>2. CASE Expected # {}
  <2> DEFINE in == render.in
             sets == {Cells(scope.blocks[n], in) : n \in Rendered(scope, in)}
  <2>1. RenderedFrom(in) /\ scope \in Scopes /\ Expected = DOMAIN Listed(scope, in) BY <1>2, ExpectedAre
  <2>2. Inputs(in) /\ ~Defective(scope, in) BY <2>1 DEF RenderedFrom
  <2> HIDE DEF in
  <2>3. Expected = UNION sets BY <2>1, ListedAre
  <2>4. Rendered(scope, in) \subseteq DOMAIN scope.blocks BY <2>1, RenderedAre
  <2>5. IsFiniteSet(Expected)
    <3>1. DOMAIN scope.blocks = 1 .. Len(scope.blocks) /\ Len(scope.blocks) \in Nat BY <2>1, LeaseAssumption
    <3>2. IsFiniteSet(1 .. Len(scope.blocks)) BY <3>1, FS_Interval
    <3>3. Rendered(scope, in) \in SUBSET (1 .. Len(scope.blocks)) BY <2>4, <3>1
    <3>4. IsFiniteSet(Rendered(scope, in)) BY <3>2, <3>3, FS_Subset
    <3>5. IsFiniteSet(sets)
      <4> DEFINE f == [n \in Rendered(scope, in) |-> Cells(scope.blocks[n], in)]
      <4>1. sets = {f[n] : n \in Rendered(scope, in)} OBVIOUS
      <4> HIDE DEF sets, f
      <4> QED BY <3>4, <4>1, ImageIsFinite
    <3>6. \A v \in sets : IsFiniteSet(v) BY <2>1, <2>2, <2>4, BlockIsFinite
    <3> HIDE DEF sets
    <3> QED BY <2>3, <3>5, <3>6, FS_UNION
  <2>6. ASSUME NEW c \in Expected
        PROVE  c = Cell(c.config, c.trace, c.seed) /\ \E n \in DOMAIN scope.blocks : c \in EverIn(scope.blocks[n])
    <3>1. PICK n \in Rendered(scope, in) : c \in Cells(scope.blocks[n], in) BY <2>3
    <3>2. n \in DOMAIN scope.blocks BY <2>4
    <3> DEFINE b == scope.blocks[n]
               ever == [decisions |-> [d \in Decisions |-> UNION MayDecide[d]]]
    <3>3. PICK k \in BlockConfigs(b, in), t \in b.traces, s \in b.seeds : c = [config |-> k, trace |-> t, seed |-> s]
      BY <3>1 DEF Cells
    <3>4. c = Cell(c.config, c.trace, c.seed) /\ c.config = k BY <3>3 DEF Cell
    <3>5. k \in BlockConfigs(b, ever)
      <4>1. \A p \in b.patterns : AxisValues(p, in) \subseteq AxisValues(p, ever)
        BY <2>1, <2>2, <3>2, AxisIsFinite
      <4>2. PICK p \in b.patterns : \E v \in AxisValues(p, in) :
              k = [alias |-> b.alias, template |-> p.template, value |-> v]
        BY <3>3 DEF BlockConfigs
      <4> PICK v \in AxisValues(p, in) : k = [alias |-> b.alias, template |-> p.template, value |-> v] BY <4>2
      <4>3. v \in AxisValues(p, ever) BY <4>1
      <4> HIDE DEF b, ever
      <4>4. <<p, v>> \in b.patterns \X UNION {AxisValues(r, ever) : r \in b.patterns} BY <4>3
      <4>5. <<p, v>>[1] = p /\ <<p, v>>[2] = v OBVIOUS
      <4> QED BY <4>2, <4>3, <4>4, <4>5 DEF BlockConfigs
    <3>6. c \in Cells(b, ever)
      <4> HIDE DEF b, ever
      <4> QED BY <3>3, <3>5 DEF Cells
    <3>7. ~b.hold BY <2>1, <3>2, RenderedAre DEF Lacks
    <3>8. <<k.template, k.value>> \in Presets BY <2>2, <3>2, <3>3, <3>7 DEF Defective
    <3>9. c \in EverIn(b)
      <4> HIDE DEF b
      <4> QED BY <3>4, <3>6, <3>8 DEF EverIn
    <3> QED BY <3>2, <3>4, <3>9
  <2> QED BY <2>5, <2>6
<1> QED BY <1>1, <1>2

LEMMA ReadingsFair == ASSUME IInv PROVE EqualQualityIsFair
<1> SUFFICES ASSUME NEW g \in DOMAIN scope.groups PROVE InTables(g) \in FairSets BY DEF EqualQualityIsFair
<1> DEFINE cells == InTables(g)
           ever == UNION {EverIn(scope.blocks[n]) : n \in DOMAIN scope.blocks}
           sets == UNION {SUBSET UNION {EverIn(s.blocks[n]) : n \in DOMAIN s.blocks} : s \in LoadedScopes}
           fair(of) == \A trace \in {c.trace : c \in of} : Fair(of, trace, Values)
<1>1. cells \in SUBSET Expected BY DEF InTables, InGroup
<1>2. scope \in LoadedScopes BY DEF IInv
<1> HIDE DEF cells
<1>3. IsFiniteSet(cells) BY <1>1, RenderedCells, FS_Subset
<1>4. \A c \in cells : c = Cell(c.config, c.trace, c.seed) BY <1>1, RenderedCells
<1>5. Values \in SUBSET Points BY LeaseAssumption
<1>6. \A trace : Fair(cells, trace, Values) BY <1>3, <1>4, <1>5, RowsAreFair
<1>7. cells \in SUBSET ever BY <1>1, RenderedCells
<1>8. cells \in sets BY <1>2, <1>7
<1>9. fair(cells) BY <1>6
<1>10. FairSets = UNION {IF fair(of) THEN {of} ELSE {} : of \in sets} BY DEF FairSets
<1> HIDE DEF sets, fair
<1>11. cells \in FairSets BY <1>8, <1>9, <1>10
<1> QED BY <1>11 DEF cells

\* Whatever is measured, and in whatever report, a baseline is read fairly: against the presets that ran on each of its
\* seeds, never worse in the metric than one that is as good, and above the frontier only where it says so.
THEOREM ReadingsAreFair == Spec => []EqualQualityIsFair
BY AlwaysInvariant, ReadingsFair, PTL
=============================================================================
