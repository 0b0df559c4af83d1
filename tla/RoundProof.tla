------------------------------ MODULE RoundProof ------------------------------
(***************************************************************************)
(* Scheduling rounds.  The collector keeps its promise, and no round        *)
(* exceeds the limit that it reports; a round refuses no request that can   *)
(* be scored, spreads its picks, never picks a dominated instance and keeps *)
(* to the budgets; and the gate accepts its decision lines: for any fleet,  *)
(* tables, indexes, configurations, requests and loads.                     *)
(***************************************************************************)
EXTENDS RoundCollector, ArmGate, FiniteSetTheorems, FunctionTheorems, SequenceTheorems, WellFoundedInduction, TLAPS

-----------------------------------------------------------------------------
(* The collector *)

Largest == IF Adaptive THEN Large ELSE Fixed

Reqs == Seq(1 .. submitted)

Types ==
  /\ submitted \in 0 .. MaxRequests
  /\ taken \in Reqs /\ queue \in Reqs /\ carry \in Reqs /\ batch \in Reqs /\ got \in Reqs
  /\ drained \subseteq 1 .. submitted
  /\ cancels \in 0 .. MaxCancels
  /\ pc \in {"idle", "first", "collecting", "taking"}
  /\ size \in 1 .. Largest
  /\ max_batch \in {Fixed, Small, Mid, Large} /\ max_batch \in 1 .. Largest
  /\ ~Adaptive => max_batch = Fixed /\ size = Fixed

\* Who holds requests: a collection opens with the carried ones, and only a getter takes beyond its batch.
Held ==
  /\ pc = "idle" => batch = <<>>
  /\ pc # "idle" => carry = <<>>
  /\ pc = "first" => batch = <<>>
  /\ pc \in {"collecting", "taking"} => batch # <<>>
  /\ pc # "taking" => got = <<>>

\* The room of a round: a getter runs only while there is some, and a cancelled round's requests fit the next.
Room ==
  /\ Len(batch) <= size
  /\ pc = "taking" => Len(batch) < size
  /\ Len(got) <= 1
  /\ Len(carry) <= Largest

CollectorInv == Types /\ Held /\ Room

-----------------------------------------------------------------------------
(* Sizes and sequences *)

LEMMA MaxOfTwo == ASSUME NEW a \in Int, NEW b \in Int PROVE Max({a, b}) = IF a >= b THEN a ELSE b
<1>1. \E x \in {a, b} : \A y \in {a, b} : x >= y
  <2>1. CASE a >= b BY <2>1
  <2>2. CASE b > a BY <2>2
  <2> QED BY <2>1, <2>2
<1>2. Max({a, b}) \in {a, b} /\ \A y \in {a, b} : Max({a, b}) >= y BY <1>1 DEF Max
<1> QED BY <1>2

LEMMA MinOfTwo == ASSUME NEW a \in Int, NEW b \in Int PROVE Min({a, b}) = IF a <= b THEN a ELSE b
<1>1. \E x \in {a, b} : \A y \in {a, b} : x <= y
  <2>1. CASE a <= b BY <2>1
  <2>2. CASE b < a BY <2>2
  <2> QED BY <2>1, <2>2
<1>2. Min({a, b}) \in {a, b} /\ \A y \in {a, b} : Min({a, b}) <= y BY <1>1 DEF Min
<1> QED BY <1>2

\* Every size that adapt() may choose is a possible round size.
LEMMA AdaptiveSizeFits ==
  ASSUME Adaptive, NEW b
  PROVE  AdaptiveSize(b) \in {Small, Mid, Large} /\ AdaptiveSize(b) \in 1 .. Largest
BY CollectorAssumption DEF AdaptiveSize, Largest

\* A round that opens on a backlog has room for as much of it as a round may hold (D123).
LEMMA RoundSizeHoldsBacklog ==
  ASSUME Types, NEW n \in Nat, NEW c \in Nat, c <= n, c <= Largest
  PROVE  /\ SizeOfRound(n) \in 1 .. Largest
         /\ c <= SizeOfRound(n)
         /\ ~Adaptive => SizeOfRound(n) = Fixed
<1>1. CASE ~Adaptive BY <1>1, CollectorAssumption DEF SizeOfRound, Types, Largest
<1>2. CASE Adaptive
  <2>1. Largest = Large /\ Large \in Nat /\ max_batch \in 1 .. Large BY <1>2, CollectorAssumption DEF Types, Largest
  <2>2. Min({n, Large}) = IF n <= Large THEN n ELSE Large BY <2>1, MinOfTwo
  <2> DEFINE m == Min({n, Large})
  <2>3. m \in Nat /\ m <= Large /\ c <= m BY <2>1, <2>2
  <2> HIDE DEF m
  <2>4. Max({max_batch, m}) = IF max_batch >= m THEN max_batch ELSE m BY <2>1, <2>3, MaxOfTwo
  <2>5. SizeOfRound(n) = Max({max_batch, m}) BY <1>2 DEF SizeOfRound, BacklogCap, m
  <2> QED BY <1>2, <2>1, <2>3, <2>4, <2>5
<1> QED BY <1>1, <1>2

LEMMA EmptyReqs == <<>> \in Reqs /\ Len(<<>>) = 0 /\ \A s \in Reqs : s \o <<>> = s /\ <<>> \o s = s
BY EmptySeq, ConcatEmptySeq DEF Reqs

LEMMA LengthsAre == \A s \in Reqs : Len(s) \in Nat /\ (s = <<>> <=> Len(s) = 0)
BY EmptySeq, LenProperties DEF Reqs

LEMMA Joined == \A s, t \in Reqs : s \o t \in Reqs /\ Len(s \o t) = Len(s) + Len(t)
BY ConcatProperties DEF Reqs

LEMMA Regroup == \A s, t, u \in Reqs : (s \o t) \o u = s \o (t \o u)
BY ConcatAssociative DEF Reqs

LEMMA HeadAndTail ==
  ASSUME NEW s \in Reqs, s # <<>>
  PROVE  <<Head(s)>> \in Reqs /\ Len(<<Head(s)>>) = 1 /\ Tail(s) \in Reqs /\ s = <<Head(s)>> \o Tail(s)
<1>1. Head(s) \in 1 .. submitted /\ Tail(s) \in Reqs /\ Len(Tail(s)) = Len(s) - 1
      /\ \A i \in 1 .. Len(Tail(s)) : Tail(s)[i] = s[i + 1]
  BY HeadTailProperties DEF Reqs
<1>2. <<Head(s)>> \in Reqs /\ Len(<<Head(s)>>) = 1 /\ <<Head(s)>>[1] = Head(s) /\ Head(s) = s[1] BY <1>1 DEF Reqs
<1>3. Len(s) \in Nat /\ Len(s) # 0 BY LengthsAre
<1>4. Len(<<Head(s)>> \o Tail(s)) = Len(s) BY <1>1, <1>2, <1>3, Joined
<1>5. \A i \in 1 .. Len(s) : (<<Head(s)>> \o Tail(s))[i] = s[i]
  <2> SUFFICES ASSUME NEW i \in 1 .. Len(s) PROVE (<<Head(s)>> \o Tail(s))[i] = s[i] OBVIOUS
  <2>1. (<<Head(s)>> \o Tail(s))[i] = IF i <= 1 THEN <<Head(s)>>[i] ELSE Tail(s)[i - 1]
    BY <1>1, <1>2, <1>3, ConcatProperties DEF Reqs
  <2>2. CASE i = 1 BY <1>2, <2>1, <2>2
  <2>3. CASE i # 1
    <3>1. i - 1 \in 1 .. Len(Tail(s)) /\ ~(i <= 1) /\ (i - 1) + 1 = i BY <1>1, <1>3, <2>3
    <3> QED BY <1>1, <2>1, <3>1
  <2> QED BY <2>2, <2>3
<1>6. <<Head(s)>> \o Tail(s) \in Reqs BY <1>1, <1>2, Joined
<1> QED BY <1>1, <1>2, <1>4, <1>5, <1>6, SeqEqual DEF Reqs

\* Any round of the first requests: what Deliver takes off the waiting ones.
LEMMA FrontAndRest ==
  ASSUME NEW s \in Reqs, NEW t \in Reqs, s # <<>>
  PROVE  /\ Len(s) \in 1 .. Len(s \o t)
         /\ SubSeq(s \o t, 1, Len(s)) = s
         /\ SubSeq(s \o t, Len(s) + 1, Len(s \o t)) = t
<1>1. Len(s) \in Nat \ {0} /\ Len(t) \in Nat /\ Len(s \o t) = Len(s) + Len(t) /\ s \o t \in Reqs
  BY LengthsAre, Joined
<1>2. SubSeq(s \o t, 1, Len(s)) = s
  <2>1. SubSeq(s \o t, 1, Len(s)) = SubSeq(s, 1, Len(s)) BY <1>1, SubSeqOfConcat1 DEF Reqs
  <2> QED BY <2>1, SubSeqFull DEF Reqs
<1>3. SubSeq(s \o t, Len(s) + 1, Len(s \o t)) = t
  <2>1. CASE t = <<>>
    <3>1. Len(s \o t) < Len(s) + 1 /\ Len(s) + 1 \in Int /\ Len(s \o t) \in Int BY <1>1, <2>1, EmptyReqs
    <3> QED BY <2>1, <3>1, SubSeqEmpty
  <2>2. CASE t # <<>>
    <3> DEFINE a == Len(s)
               b == Len(t)
    <3>1. a \in Nat /\ b \in Nat \ {0} BY <1>1, <2>2, LengthsAre
    <3>2. \A m, n \in a + 1 .. a + b : SubSeq(s \o t, m, n) = SubSeq(t, m - a, n - a)
      BY SubSeqOfConcat2 DEF Reqs
    <3> HIDE DEF a, b
    <3>3. a + 1 \in a + 1 .. a + b /\ a + b \in a + 1 .. a + b /\ (a + 1) - a = 1 /\ (a + b) - a = b BY <3>1
    <3>4. SubSeq(s \o t, a + 1, a + b) = SubSeq(t, 1, b) BY <3>2, <3>3
    <3>5. SubSeq(t, 1, b) = t BY SubSeqFull DEF Reqs, b
    <3> QED BY <1>1, <3>4, <3>5 DEF a, b
  <2> QED BY <2>1, <2>2
<1> QED BY <1>1, <1>2, <1>3

-----------------------------------------------------------------------------
(* The invariant *)

LEMMA InitCollectorInv == CollectorInit => CollectorInv
<1> SUFFICES ASSUME CollectorInit PROVE CollectorInv OBVIOUS
<1>1. max_batch \in {Fixed, Small, Mid, Large} /\ max_batch \in 1 .. Largest /\ (~Adaptive => max_batch = Fixed)
  BY AdaptiveSizeFits, CollectorAssumption DEF CollectorInit, Largest
<1>2. Types BY <1>1, EmptyReqs, CollectorAssumption DEF CollectorInit, Types
<1>3. Largest \in Nat BY CollectorAssumption DEF Largest
<1> QED BY <1>1, <1>2, <1>3, EmptyReqs DEF CollectorInit, CollectorInv, Held, Room

LEMMA SubmitKeepsCollectorInv == ASSUME CollectorInv, Submit PROVE CollectorInv'
<1> USE DEF CollectorInv
<1>1. Reqs \subseteq Reqs'
  <2>1. 1 .. submitted \subseteq 1 .. submitted' BY DEF Submit, Types
  <2> QED BY <2>1, SeqMonotonic DEF Reqs
<1>2. queue' \in Reqs'
  <2>1. submitted + 1 \in 1 .. submitted' BY DEF Submit, Types
  <2>2. queue \in Reqs' BY <1>1 DEF Types
  <2> QED BY <2>1, <2>2, AppendProperties DEF Submit, Reqs
<1>3. Types' BY <1>1, <1>2, CollectorAssumption DEF Submit, Types, Largest
<1> QED BY <1>3 DEF Submit, Held, Room, Largest

LEMMA OpenKeepsCollectorInv == ASSUME CollectorInv, Open PROVE CollectorInv'
<1> USE DEF CollectorInv
<1>1. Reqs' = Reqs /\ Largest' = Largest BY DEF Open, Reqs, Largest
<1> DEFINE c == Len(carry)
           n == Len(carry) + Len(queue)
<1>2. c \in Nat /\ n \in Nat /\ c <= n /\ c <= Largest BY LengthsAre DEF Types, Room
<1>3. size' = SizeOfRound(n) BY DEF Open
<1> HIDE DEF n
<1>4. size' \in 1 .. Largest /\ c <= size' /\ (~Adaptive => size' = Fixed) BY <1>2, <1>3, RoundSizeHoldsBacklog
<1>5. Types' BY <1>1, <1>4, EmptyReqs DEF Open, Types
<1>6. Held' BY DEF Open, Held
<1>7. Room'
  <2>1. Len(batch') <= size' BY <1>4 DEF Open
  <2>2. Len(carry') = 0 /\ Len(got') <= 1 BY EmptyReqs DEF Open, Room
  <2>3. Largest \in Nat BY CollectorAssumption DEF Largest
  <2> QED BY <1>1, <2>1, <2>2, <2>3 DEF Open, Room
<1> QED BY <1>5, <1>6, <1>7

LEMMA FirstGetKeepsCollectorInv == ASSUME CollectorInv, FirstGet PROVE CollectorInv'
<1> USE DEF CollectorInv
<1>1. Reqs' = Reqs /\ Largest' = Largest BY DEF FirstGet, Reqs, Largest
<1>2. batch' \in Reqs /\ Len(batch') = 1 /\ queue' \in Reqs BY HeadAndTail DEF FirstGet, Types
<1>3. Types' BY <1>1, <1>2 DEF FirstGet, Types
<1>4. Held' BY <1>2, EmptyReqs DEF FirstGet, Held
<1>5. Room' BY <1>1, <1>2 DEF FirstGet, Room, Types
<1> QED BY <1>3, <1>4, <1>5

\* A round is delivered with nothing in a getter's hands.
LEMMA DeliverKeepsCollectorInv ==
  ASSUME CollectorInv, Deliver, pc \in {"collecting", "taking"}, got = <<>>
  PROVE  CollectorInv'
<1> USE DEF CollectorInv
<1>1. Reqs' = Reqs /\ Largest' = Largest BY DEF Deliver, Reqs, Largest
<1>2. taken' \in Reqs BY Joined DEF Deliver, Types
<1>3. Types' BY <1>1, <1>2, EmptyReqs DEF Deliver, Types
<1>4. Held' BY DEF Deliver, Held
<1>5. Room' BY <1>1, EmptyReqs DEF Deliver, Room, Types
<1> QED BY <1>3, <1>4, <1>5

LEMMA TakeKeepsCollectorInv == ASSUME CollectorInv, Take PROVE CollectorInv'
<1>1. Reqs' = Reqs /\ Largest' = Largest BY DEF Take, Reqs, Largest
<1> QED BY <1>1 DEF CollectorInv, Take, Types, Held, Room

LEMMA GetterGetsKeepsCollectorInv == ASSUME CollectorInv, GetterGets PROVE CollectorInv'
<1> USE DEF CollectorInv
<1>1. Reqs' = Reqs /\ Largest' = Largest BY DEF GetterGets, Reqs, Largest
<1>2. got' \in Reqs /\ Len(got') = 1 /\ queue' \in Reqs BY HeadAndTail DEF GetterGets, Types
<1>3. Types' BY <1>1, <1>2 DEF GetterGets, Types
<1>4. Held' BY DEF GetterGets, Held
<1>5. Room' BY <1>1, <1>2 DEF GetterGets, Room
<1> QED BY <1>3, <1>4, <1>5

LEMMA TakeDoneKeepsCollectorInv == ASSUME CollectorInv, TakeDone PROVE CollectorInv'
<1> USE DEF CollectorInv
<1>1. Reqs' = Reqs /\ Largest' = Largest BY DEF TakeDone, Reqs, Largest
<1> DEFINE a == Len(batch)
           g == Len(got)
<1>2. a \in Nat /\ g \in Nat \ {0} /\ g <= 1 /\ a < size BY LengthsAre DEF TakeDone, Types, Room
<1>3. batch' \in Reqs /\ Len(batch') = a + g BY Joined DEF TakeDone, Types
<1> HIDE DEF a, g
<1>4. Len(batch') <= size /\ Len(batch') # 0 BY <1>2, <1>3 DEF Types
<1>5. Types' BY <1>1, <1>3, EmptyReqs DEF TakeDone, Types
<1>6. Held' BY <1>4, EmptyReqs DEF TakeDone, Held
<1>7. Room' BY <1>1, <1>4, EmptyReqs DEF TakeDone, Room
<1> QED BY <1>5, <1>6, <1>7

\* The requests that a cancelled round kept fit into one round.
LEMMA CancelKeepsCollectorInv == ASSUME CollectorInv, Cancel PROVE CollectorInv'
<1> USE DEF CollectorInv
<1>1. Reqs' = Reqs /\ Largest' = Largest BY DEF Cancel, Reqs, Largest
<1> DEFINE a == Len(batch)
           g == Len(got)
<1>2. a \in Nat /\ g \in Nat /\ g <= 1 /\ a <= size /\ (g = 0 \/ a < size)
  BY LengthsAre, EmptyReqs DEF Cancel, Types, Room, Held
<1>3. carry' \in Reqs /\ Len(carry') = a + g BY Joined DEF Cancel, Types
<1> HIDE DEF a, g
<1>4. Len(carry') <= Largest
  <2>1. size \in Nat /\ size <= Largest /\ Largest \in Nat BY CollectorAssumption DEF Types, Largest
  <2> QED BY <1>2, <1>3, <2>1
<1>5. Types' BY <1>1, <1>3, EmptyReqs, CollectorAssumption DEF Cancel, Types
<1>6. Held' BY DEF Cancel, Held
<1>7. Room' BY <1>1, <1>4, EmptyReqs DEF Cancel, Room, Types
<1> QED BY <1>5, <1>6, <1>7

LEMMA DrainKeepsCollectorInv == ASSUME CollectorInv, Drain PROVE CollectorInv'
<1> USE DEF CollectorInv
<1>1. Reqs' = Reqs /\ Largest' = Largest BY DEF Drain, Reqs, Largest
<1>2. drained' \subseteq 1 .. submitted
  <2>1. carry \o queue \in Reqs BY Joined DEF Types
  <2>2. Range(carry \o queue) \subseteq 1 .. submitted BY <2>1, RangeOfSeq DEF Reqs
  <2> QED BY <2>2 DEF Drain, Types
<1>3. Types' BY <1>1, <1>2, EmptyReqs DEF Drain, Types
<1>4. Largest \in Nat BY CollectorAssumption DEF Largest
<1> QED BY <1>1, <1>3, <1>4, EmptyReqs DEF Drain, Held, Room

LEMMA AdaptKeepsCollectorInv == ASSUME CollectorInv, Adapt PROVE CollectorInv'
<1>1. Reqs' = Reqs /\ Largest' = Largest BY DEF Adapt, Reqs, Largest
<1>2. max_batch' \in {Small, Mid, Large} /\ max_batch' \in 1 .. Largest BY AdaptiveSizeFits DEF Adapt
<1> QED BY <1>1, <1>2 DEF CollectorInv, Adapt, Types, Held, Room

LEMMA NextKeepsCollectorInv == CollectorInv /\ [CollectorNext]_collectorVars => CollectorInv'
<1> SUFFICES ASSUME CollectorInv, [CollectorNext]_collectorVars PROVE CollectorInv' OBVIOUS
<1>1. CASE CloseFull \/ CloseLate \/ TakeTimeout
  BY <1>1, DeliverKeepsCollectorInv DEF CloseFull, CloseLate, TakeTimeout, CollectorInv, Held
<1>2. CASE UNCHANGED collectorVars BY <1>2 DEF collectorVars, CollectorInv, Types, Held, Room, Reqs, Largest
<1> QED
  BY <1>1, <1>2, SubmitKeepsCollectorInv, OpenKeepsCollectorInv, FirstGetKeepsCollectorInv, TakeKeepsCollectorInv,
     GetterGetsKeepsCollectorInv, TakeDoneKeepsCollectorInv, CancelKeepsCollectorInv, DrainKeepsCollectorInv,
     AdaptKeepsCollectorInv
  DEF CollectorNext, Collect

LEMMA AlwaysCollectorInv == CollectorSpec => []CollectorInv
BY InitCollectorInv, NextKeepsCollectorInv, PTL DEF CollectorSpec

\* A round holds at most the requests that its reported limit allows (rounds.py: next_round, the carried
\* requests of a cancelled collection included).
THEOREM RoundAlwaysFits == CollectorSpec => []RoundFits
<1>1. CollectorInv => RoundFits
  <2> SUFFICES ASSUME CollectorInv PROVE RoundFits OBVIOUS
  <2> USE DEF CollectorInv
  <2>1. CollectorTypeOK
    <3>1. size \in Nat \ {0} BY CollectorAssumption DEF Types, Largest
    <3> QED BY <3>1 DEF Types, CollectorTypeOK, Room, Reqs
  <2>2. Len(batch \o got) <= size
    <3>1. Len(batch) \in Nat /\ Len(got) \in Nat /\ Len(batch \o got) = Len(batch) + Len(got)
      BY LengthsAre, Joined DEF Types
    <3>2. Len(got) = 0 \/ Len(batch) < size BY EmptyReqs DEF Held, Room
    <3> QED BY <3>1, <3>2 DEF Room, Types
  <2> QED BY <2>1, <2>2 DEF RoundFits
<1> QED BY <1>1, AlwaysCollectorInv, PTL

-----------------------------------------------------------------------------
(* The refinement *)

LEMMA WaitingAre ==
  ASSUME Types
  PROVE  Waiting \in Reqs /\ carry \o batch \in Reqs /\ (carry \o batch) \o got \in Reqs
BY Joined DEF Types, Waiting

LEMMA SubmitKeepsPromise == ASSUME CollectorInv, Submit PROVE Promise!Submit
<1> DEFINE p == (carry \o batch) \o got
           x == submitted + 1
<1>1. Types BY DEF CollectorInv
<1>2. p \in Reqs' /\ queue \in Reqs' /\ x \in 1 .. submitted'
  <2>1. 1 .. submitted \subseteq 1 .. submitted' /\ x \in 1 .. submitted' BY <1>1 DEF Submit, Types
  <2>2. p \in Reqs /\ queue \in Reqs BY <1>1, WaitingAre DEF Types
  <2> QED BY <2>1, <2>2, SeqMonotonic DEF Reqs
<1> HIDE DEF p, x
<1>3. p \o Append(queue, x) = Append(p \o queue, x)
  <2>1. Append(queue, x) = queue \o <<x>> /\ <<x>> \in Reqs' BY <1>2, AppendIsConcat DEF Reqs
  <2>2. p \o (queue \o <<x>>) = (p \o queue) \o <<x>>
    <3> DEFINE S == 1 .. submitted'
    <3>1. p \in Seq(S) /\ queue \in Seq(S) /\ <<x>> \in Seq(S) BY <1>2, <2>1 DEF Reqs
    <3> HIDE DEF S
    <3> QED BY <3>1, ConcatAssociative
  <2>3. p \o queue \in Reqs' BY <1>2, ConcatProperties DEF Reqs
  <2>4. Append(p \o queue, x) = (p \o queue) \o <<x>> BY <1>2, <2>3, AppendIsConcat DEF Reqs
  <2> QED BY <2>1, <2>2, <2>4
<1>4. Waiting' = Append(Waiting, x) BY <1>3 DEF Waiting, Submit, p, x
<1> QED BY <1>4 DEF Submit, Promise!Submit, x

\* The waiting requests are the same ones when one moves from hand to hand.
LEMMA MovesKeepWaiting ==
  ASSUME CollectorInv, Open \/ FirstGet \/ Take \/ GetterGets \/ TakeDone \/ Cancel \/ Adapt
  PROVE  UNCHANGED Promise!vars
<1> USE DEF CollectorInv
<1>1. UNCHANGED <<submitted, taken, drained>> BY DEF Open, FirstGet, Take, GetterGets, TakeDone, Cancel, Adapt
<1>2. /\ carry \in Reqs /\ batch \in Reqs /\ got \in Reqs /\ queue \in Reqs
      /\ carry \o batch \in Reqs /\ (carry \o batch) \o got \in Reqs /\ batch \o got \in Reqs
  BY WaitingAre, Joined DEF Types
<1>3. Waiting' = Waiting
  <2>1. CASE Open
    <3>1. batch = <<>> /\ got = <<>> BY <2>1 DEF Open, Held
    <3>2. Waiting = carry \o queue BY <1>2, <3>1, EmptyReqs DEF Waiting
    <3> QED BY <1>2, <2>1, <3>1, <3>2, EmptyReqs DEF Waiting, Open
  <2>2. CASE FirstGet
    <3>1. carry = <<>> /\ batch = <<>> /\ got = <<>> BY <2>2 DEF FirstGet, Held
    <3>2. Waiting = queue BY <1>2, <3>1, EmptyReqs DEF Waiting
    <3>3. <<Head(queue)>> \in Reqs /\ <<Head(queue)>> \o Tail(queue) = queue BY <1>2, <2>2, HeadAndTail DEF FirstGet
    <3>4. Waiting' = ((<<>> \o <<Head(queue)>>) \o <<>>) \o Tail(queue) BY <2>2, <3>1 DEF Waiting, FirstGet
    <3> QED BY <3>2, <3>3, <3>4, EmptyReqs
  <2>3. CASE GetterGets
    <3>1. <<Head(queue)>> \in Reqs /\ Tail(queue) \in Reqs /\ <<Head(queue)>> \o Tail(queue) = queue
      BY <1>2, <2>3, HeadAndTail DEF GetterGets
    <3>2. Waiting = (carry \o batch) \o queue BY <1>2, <2>3, EmptyReqs DEF Waiting, GetterGets
    <3>3. Waiting' = ((carry \o batch) \o <<Head(queue)>>) \o Tail(queue) BY <2>3 DEF Waiting, GetterGets
    <3>4. ((carry \o batch) \o <<Head(queue)>>) \o Tail(queue)
            = (carry \o batch) \o (<<Head(queue)>> \o Tail(queue))
      <4>1. carry \o batch \in Reqs BY <1>2
      <4> HIDE DEF CollectorInv
      <4> QED BY <3>1, <4>1, Regroup, Zenon
    <3> QED BY <3>1, <3>2, <3>3, <3>4
  <2>4. CASE TakeDone
    <3>1. Waiting' = ((carry \o (batch \o got)) \o <<>>) \o queue BY <2>4 DEF Waiting, TakeDone
    <3>2. (carry \o (batch \o got)) \o <<>> = carry \o (batch \o got) BY <1>2, Joined, EmptyReqs
    <3>3. carry \in Reqs /\ batch \in Reqs /\ got \in Reqs BY <1>2
    <3>4. (carry \o batch) \o got = carry \o (batch \o got) BY <3>3, Regroup
    <3> QED BY <3>1, <3>2, <3>4 DEF Waiting
  <2>5. CASE Cancel
    <3>1. carry = <<>> BY <2>5 DEF Cancel, Held
    <3>2. Waiting' = (((batch \o got) \o <<>>) \o <<>>) \o queue BY <2>5 DEF Waiting, Cancel
    <3> QED BY <1>2, <3>1, <3>2, EmptyReqs DEF Waiting
  <2>6. CASE Take \/ Adapt BY <2>6 DEF Take, Adapt, Waiting
  <2> QED BY <2>1, <2>2, <2>3, <2>4, <2>5, <2>6
<1> QED BY <1>1, <1>3 DEF Promise!vars

LEMMA DeliverKeepsPromise ==
  ASSUME CollectorInv, Deliver, pc \in {"collecting", "taking"}, got = <<>>
  PROVE  Promise!TakeRound
<1> USE DEF CollectorInv
<1>1. batch # <<>> /\ carry = <<>> /\ batch \in Reqs /\ queue \in Reqs BY DEF Held, Types
<1>2. Waiting = batch \o queue BY <1>1, EmptyReqs DEF Waiting
<1>3. Waiting' = queue BY <1>1, EmptyReqs DEF Waiting, Deliver
<1> DEFINE n == Len(batch)
<1>4. n \in 1 .. Len(Waiting) /\ SubSeq(Waiting, 1, n) = batch /\ SubSeq(Waiting, n + 1, Len(Waiting)) = queue
  BY <1>1, <1>2, FrontAndRest
<1>5. n <= size /\ size \in 1 .. Largest BY DEF Room, Types
<1> HIDE DEF n
<1>6. Len(Waiting) \in Nat BY WaitingAre, LengthsAre
<1>7. n \in 1 .. Largest /\ n <= Len(Waiting) BY <1>4, <1>5, <1>6, CollectorAssumption DEF Largest
<1>8. taken' = taken \o batch /\ UNCHANGED <<submitted, drained>> BY DEF Deliver
<1> QED BY <1>3, <1>4, <1>7, <1>8 DEF Promise!TakeRound, Largest

LEMMA DrainKeepsPromise == ASSUME CollectorInv, Drain PROVE Promise!Drain
<1> USE DEF CollectorInv
<1>1. carry \in Reqs /\ queue \in Reqs /\ carry \o queue \in Reqs BY Joined DEF Types
<1>2. batch = <<>> /\ got = <<>> BY DEF Drain, Held
<1>3. Waiting = carry \o queue BY <1>1, <1>2, EmptyReqs DEF Waiting
<1>4. Waiting' = <<>> BY <1>2, EmptyReqs DEF Waiting, Drain
<1>5. Range(Waiting) = {Waiting[k] : k \in 1 .. Len(Waiting)}
  <2>1. DOMAIN Waiting = 1 .. Len(Waiting) BY <1>1, <1>3, LenProperties DEF Reqs
  <2> QED BY <2>1 DEF Range
<1> QED BY <1>3, <1>4, <1>5 DEF Drain, Promise!Drain

\* The collector delivers every request once and in order, in rounds of a legal size (rounds.py: RoundCollector):
\* it implements RoundQueue.
THEOREM CollectorKeepsPromise == CollectorSpec => KeepsPromise
<1>1. CollectorInit => Promise!Init BY EmptyReqs DEF CollectorInit, Promise!Init, Waiting
<1>2. CollectorInv /\ [CollectorNext]_collectorVars => [Promise!Next]_(Promise!vars)
  <2> SUFFICES ASSUME CollectorInv, [CollectorNext]_collectorVars PROVE Promise!Next \/ UNCHANGED Promise!vars OBVIOUS
  <2>1. CASE CloseFull \/ CloseLate \/ TakeTimeout
    BY <2>1, DeliverKeepsPromise DEF CloseFull, CloseLate, TakeTimeout, CollectorInv, Held, Promise!Next
  <2>2. CASE UNCHANGED collectorVars BY <2>2 DEF collectorVars, Promise!vars, Waiting
  <2> QED
    BY <2>1, <2>2, SubmitKeepsPromise, DrainKeepsPromise, MovesKeepWaiting DEF CollectorNext, Collect, Promise!Next
<1> QED BY <1>1, <1>2, AlwaysCollectorInv, PTL DEF CollectorSpec, KeepsPromise, Promise!Spec

-----------------------------------------------------------------------------
(* Finite sets *)

LEMMA LeastNatural ==
  ASSUME NEW S, S \subseteq Nat, S # {}
  PROVE  \E n \in S : \A m \in S : n <= m
<1>1. PICK n \in S : \A m \in S : ~ (<<m, n>> \in OpToRel(<, Nat)) BY NatLessThanWellFounded, WFMin
<1>2. \A m \in S : ~(m < n) BY <1>1 DEF OpToRel
<1>3. \A m \in S : m \in Nat /\ n \in Nat OBVIOUS
<1> QED BY <1>2, <1>3

\* A total preorder has a least element.
LEMMA LeastExists ==
  ASSUME NEW S, IsFiniteSet(S), S # {},
         NEW R,
         \A x, y \in S : <<x, y>> \in R \/ <<y, x>> \in R,
         \A x, y, z \in S : <<x, y>> \in R /\ <<y, z>> \in R => <<x, z>> \in R
  PROVE  \E x \in S : \A y \in S : <<x, y>> \in R
<1> DEFINE Below(x) == {y \in S : <<y, x>> \in R}
<1>1. \A x \in S : IsFiniteSet(Below(x)) /\ Cardinality(Below(x)) \in Nat
  BY FS_Subset, FS_CardinalityType
<1> DEFINE T == {Cardinality(Below(x)) : x \in S}
<1>2. PICK n \in T : \A m \in T : n <= m
  <2> HIDE DEF Below
  <2>1. T \subseteq Nat /\ T # {} BY <1>1
  <2> HIDE DEF T
  <2> QED BY <2>1, LeastNatural
<1>3. PICK x \in S : n = Cardinality(Below(x)) BY <1>2
<1>4. SUFFICES ASSUME NEW y \in S, <<x, y>> \notin R PROVE FALSE BY <1>3
<1>5. <<y, x>> \in R BY <1>4
<1>6. Below(y) \subseteq Below(x) BY <1>5
<1>7. x \in Below(x) /\ x \notin Below(y) BY <1>4
<1>8. Cardinality(Below(y)) <= Cardinality(Below(x)) /\ Cardinality(Below(y)) # Cardinality(Below(x))
  <2>1. Below(y) \in SUBSET Below(x) BY <1>6
  <2>2. Below(y) # Below(x) BY <1>7
  <2> HIDE DEF Below
  <2> QED BY <1>1, <2>1, <2>2, FS_Subset
<1>9. Cardinality(Below(x)) <= Cardinality(Below(y))
  <2> HIDE DEF Below
  <2> QED BY <1>2, <1>3
<1> HIDE DEF Below
<1> QED BY <1>1, <1>8, <1>9

LEMMA ImageIsFinite ==
  ASSUME NEW S, IsFiniteSet(S), NEW f, NEW T, T = {f[x] : x \in S}
  PROVE  IsFiniteSet(T)
<1> DEFINE g == [x \in S |-> f[x]]
<1>1. g \in [S -> T] /\ \A y \in T : \E x \in S : g[x] = y OBVIOUS
<1> HIDE DEF g
<1>2. g \in Surjection(S, T) BY <1>1, Fun_IsSurj
<1> QED BY <1>2, FS_Surjection

LEMMA MinIs ==
  ASSUME NEW S, IsFiniteSet(S), S # {}, \A x \in S : x \in Int
  PROVE  Min(S) \in S /\ Min(S) \in Int /\ \A x \in S : Min(S) <= x
<1> DEFINE R == {e \in S \X S : e[1] <= e[2]}
<1>1. \A x, y \in S : <<x, y>> \in R <=> x <= y OBVIOUS
<1> HIDE DEF R
<1>2. \A x, y \in S : <<x, y>> \in R \/ <<y, x>> \in R
  <2>1. \A x, y \in S : x <= y \/ y <= x OBVIOUS
  <2> QED BY <1>1, <2>1
<1>3. \A x, y, z \in S : <<x, y>> \in R /\ <<y, z>> \in R => <<x, z>> \in R BY <1>1
<1>4. \E x \in S : \A y \in S : <<x, y>> \in R BY <1>2, <1>3, LeastExists
<1>5. \E x \in S : \A y \in S : x <= y BY <1>1, <1>4
<1> QED BY <1>5 DEF Min

LEMMA MaxIs ==
  ASSUME NEW S, IsFiniteSet(S), S # {}, \A x \in S : x \in Int
  PROVE  Max(S) \in S /\ Max(S) \in Int /\ \A x \in S : x <= Max(S)
<1> DEFINE R == {e \in S \X S : e[1] >= e[2]}
<1>1. \A x, y \in S : <<x, y>> \in R <=> x >= y OBVIOUS
<1> HIDE DEF R
<1>2. \A x, y \in S : <<x, y>> \in R \/ <<y, x>> \in R
  <2>1. \A x, y \in S : x >= y \/ y >= x OBVIOUS
  <2> QED BY <1>1, <2>1
<1>3. \A x, y, z \in S : <<x, y>> \in R /\ <<y, z>> \in R => <<x, z>> \in R BY <1>1
<1>4. \E x \in S : \A y \in S : <<x, y>> \in R BY <1>2, <1>3, LeastExists
<1>5. \E x \in S : \A y \in S : x >= y BY <1>1, <1>4
<1> QED BY <1>5 DEF Max

-----------------------------------------------------------------------------
(* Sums and products of a function's values *)

One(t) == CHOOSE s \in t : TRUE

\* What a sum, or a product, of some of the values is, by that of one value less.
Folded(f, kind, fold, t) ==
  IF t = {} THEN IF kind = "product" THEN 1 ELSE 0
  ELSE IF kind = "product" THEN f[One(t)] * fold[t \ {One(t)}] ELSE f[One(t)] + fold[t \ {One(t)}]

IsFold(f, kind, fold, D) == fold = [t \in D |-> Folded(f, kind, fold, t)]

LEMMA OneLess ==
  ASSUME NEW S, IsFiniteSet(S), NEW t \in SUBSET S, t # {}
  PROVE  /\ One(t) \in t /\ One(t) \in S /\ t \ {One(t)} \in SUBSET S /\ IsFiniteSet(t \ {One(t)})
         /\ Cardinality(t) \in Nat \ {0} /\ Cardinality(t \ {One(t)}) = Cardinality(t) - 1
<1>1. One(t) \in t BY DEF One
<1>2. IsFiniteSet(t) BY FS_Subset
<1>3. t \ {One(t)} \in SUBSET S /\ IsFiniteSet(t \ {One(t)}) /\ Cardinality(t \ {One(t)}) = Cardinality(t) - 1
  BY <1>1, <1>2, FS_RemoveElement
<1>4. Cardinality(t) \in Nat /\ Cardinality(t \ {One(t)}) \in Nat BY <1>2, <1>3, FS_CardinalityType
<1> QED BY <1>1, <1>3, <1>4

LEMMA FoldExists ==
  ASSUME NEW S, IsFiniteSet(S), NEW f, NEW kind \in {"sum", "product"}
  PROVE  \E fold : IsFold(f, kind, fold, SUBSET S)
<1> DEFINE n == Cardinality(S)
           D(k) == {t \in SUBSET S : Cardinality(t) <= k}
           T == {k \in 0 .. n : ~\E fold : IsFold(f, kind, fold, D(k))}
<1>1. n \in Nat /\ \A t \in SUBSET S : IsFiniteSet(t) /\ Cardinality(t) \in Nat /\ Cardinality(t) <= n
  BY FS_Subset, FS_CardinalityType
<1> HIDE DEF n
<1>2. SUFFICES ASSUME T # {} PROVE FALSE
  <2>1. n \in 0 .. n BY <1>1
  <2>2. D(n) = SUBSET S BY <1>1
  <2> HIDE DEF D
  <2>3. \E fold : IsFold(f, kind, fold, D(n)) BY <2>1
  <2> QED BY <2>2, <2>3
<1>3. PICK k \in T : \A l \in T : k <= l
  <2>1. T \subseteq Nat BY <1>1
  <2> HIDE DEF T
  <2> QED BY <1>2, <2>1, LeastNatural
<1>4. k # 0
  <2> DEFINE none == [t \in D(0) |-> IF kind = "product" THEN 1 ELSE 0]
  <2>1. \A t \in D(0) : t = {}
    <3>1. \A t \in SUBSET S : IsFiniteSet(t) /\ Cardinality(t) <= 0 => t = {} BY <1>1, FS_EmptySet
    <3> QED BY <1>1, <3>1
  <2>2. IsFold(f, kind, none, D(0))
    <3> HIDE DEF D
    <3> QED BY <2>1 DEF IsFold, Folded
  <2> HIDE DEF D, none
  <2> QED BY <1>3, <2>2
<1>5. k \in Nat /\ k \in 1 .. n /\ k - 1 \in 0 .. n /\ k - 1 \notin T
  <2>1. k \in 0 .. n BY <1>3
  <2>2. k \in Nat /\ k \in 1 .. n /\ k - 1 \in 0 .. n /\ ~(k <= k - 1) BY <1>1, <1>4, <2>1
  <2> HIDE DEF T
  <2> QED BY <1>3, <2>2
<1>6. PICK less : IsFold(f, kind, less, D(k - 1))
  <2> HIDE DEF D
  <2> QED BY <1>5
<1> DEFINE fold == [t \in D(k) |-> Folded(f, kind, less, t)]
<1>7. ASSUME NEW t \in D(k), t # {} PROVE t \ {One(t)} \in D(k - 1) BY <1>1, <1>5, <1>7, OneLess
<1>8. ASSUME NEW t \in D(k - 1) PROVE t \in D(k) /\ fold[t] = less[t]
  <2>1. t \in D(k) BY <1>1, <1>5
  <2> HIDE DEF D
  <2>2. less[t] = Folded(f, kind, less, t) BY <1>6 DEF IsFold
  <2> QED BY <2>1, <2>2
<1>9. ASSUME NEW t \in D(k) PROVE fold[t] = Folded(f, kind, fold, t)
  <2>1. fold[t] = Folded(f, kind, less, t)
    <3> HIDE DEF D
    <3> QED OBVIOUS
  <2>2. t # {} => fold[t \ {One(t)}] = less[t \ {One(t)}]
    <3> HIDE DEF D, fold
    <3> QED BY <1>7, <1>8
  <2> HIDE DEF fold
  <2> QED BY <2>1, <2>2 DEF Folded
<1>10. IsFold(f, kind, fold, D(k))
  <2>1. fold = [t \in D(k) |-> fold[t]]
    <3> HIDE DEF D
    <3> QED OBVIOUS
  <2> HIDE DEF fold, D
  <2> QED BY <1>9, <2>1 DEF IsFold
<1> HIDE DEF fold, D
<1> QED BY <1>3, <1>10

\* Every part of a sum of natural numbers is one, and no less than its own parts.
LEMMA SumIs ==
  ASSUME NEW f, IsFiniteSet(DOMAIN f), \A x \in DOMAIN f : f[x] \in Nat
  PROVE  SumFunction(f) \in Nat /\ \A x \in DOMAIN f : f[x] <= SumFunction(f)
<1> DEFINE S == DOMAIN f
           sum == CHOOSE fold : IsFold(f, "sum", fold, SUBSET S)
<1>1. SumFunction(f) = sum[S]
  BY DEF SumFunction, SumFunctionOnSet, FoldFunctionOnSet, MapThenFoldSet, IsFold, Folded, One
<1>2. IsFold(f, "sum", sum, SUBSET S) BY FoldExists
<1> HIDE DEF sum
<1>3. \A t \in SUBSET S : sum[t] = Folded(f, "sum", sum, t) BY <1>2 DEF IsFold
<1> DEFINE Fine(t) == sum[t] \in Nat /\ \A x \in t : f[x] <= sum[t]
           T == {k \in Nat : \E t \in SUBSET S : Cardinality(t) = k /\ ~Fine(t)}
<1>4. ASSUME NEW t \in SUBSET S, ~Fine(t) PROVE FALSE
  <2>1. T \subseteq Nat /\ T # {}
    <3>1. Cardinality(t) \in Nat BY FS_Subset, FS_CardinalityType
    <3> HIDE DEF Fine
    <3> QED BY <1>4, <3>1
  <2>2. PICK k \in T : \A l \in T : k <= l
    <3> HIDE DEF T
    <3> QED BY <2>1, LeastNatural
  <2>3. PICK u \in SUBSET S : Cardinality(u) = k /\ ~Fine(u) BY <2>2
  <2>4. u # {}
    <3>1. u = {} => sum[u] = 0 BY <1>3 DEF Folded
    <3> QED BY <2>3, <3>1
  <2> DEFINE v == u \ {One(u)}
  <2>5. One(u) \in u /\ f[One(u)] \in Nat /\ v \in SUBSET S /\ k \in Nat \ {0} /\ Cardinality(v) = k - 1
    BY <2>3, <2>4, OneLess
  <2>6. Fine(v)
    <3>1. k - 1 \in Nat /\ ~(k <= k - 1) BY <2>5
    <3>2. k - 1 \notin T
      <4> HIDE DEF T
      <4> QED BY <2>2, <3>1
    <3> HIDE DEF Fine
    <3> QED BY <2>5, <3>1, <3>2
  <2>7. sum[u] = f[One(u)] + sum[v] BY <1>3, <2>3, <2>4 DEF Folded
  <2>8. \A x \in u : x = One(u) \/ x \in v OBVIOUS
  <2>9. \A x \in u : f[x] \in Nat OBVIOUS
  <2> HIDE DEF v
  <2>10. sum[u] \in Nat BY <2>5, <2>6, <2>7
  <2>11. ASSUME NEW x \in u PROVE f[x] <= sum[u]
    <3>1. CASE x = One(u) BY <2>5, <2>6, <2>7, <3>1
    <3>2. CASE x \in v BY <2>5, <2>6, <2>7, <2>9, <3>2
    <3> QED BY <2>8, <3>1, <3>2
  <2> QED BY <2>3, <2>10, <2>11
<1>5. Fine(S) BY <1>4
<1> QED BY <1>1, <1>5

\* A product of positive numbers is one, and every number divides it.
LEMMA ProductIs ==
  ASSUME NEW f, IsFiniteSet(DOMAIN f), \A x \in DOMAIN f : f[x] \in Nat \ {0}
  PROVE  Product(f) \in Nat \ {0} /\ \A x \in DOMAIN f : \E k \in Nat \ {0} : Product(f) = f[x] * k
<1> DEFINE S == DOMAIN f
           product == CHOOSE fold : IsFold(f, "product", fold, SUBSET S)
<1>1. Product(f) = product[S]
  BY DEF Product, FoldFunction, FoldFunctionOnSet, MapThenFoldSet, IsFold, Folded, One
<1>2. IsFold(f, "product", product, SUBSET S) BY FoldExists
<1> HIDE DEF product
<1>3. \A t \in SUBSET S : product[t] = Folded(f, "product", product, t) BY <1>2 DEF IsFold
<1> DEFINE Fine(t) == product[t] \in Nat \ {0} /\ \A x \in t : \E k \in Nat \ {0} : product[t] = f[x] * k
           T == {k \in Nat : \E t \in SUBSET S : Cardinality(t) = k /\ ~Fine(t)}
<1>4. ASSUME NEW t \in SUBSET S, ~Fine(t) PROVE FALSE
  <2>1. T \subseteq Nat /\ T # {}
    <3>1. Cardinality(t) \in Nat BY FS_Subset, FS_CardinalityType
    <3> HIDE DEF Fine
    <3> QED BY <1>4, <3>1
  <2>2. PICK k \in T : \A l \in T : k <= l
    <3> HIDE DEF T
    <3> QED BY <2>1, LeastNatural
  <2>3. PICK u \in SUBSET S : Cardinality(u) = k /\ ~Fine(u) BY <2>2
  <2>4. u # {}
    <3>1. u = {} => product[u] = 1 BY <1>3 DEF Folded
    <3> QED BY <2>3, <3>1
  <2> DEFINE v == u \ {One(u)}
  <2>5. One(u) \in u /\ f[One(u)] \in Nat \ {0} /\ v \in SUBSET S /\ k \in Nat \ {0} /\ Cardinality(v) = k - 1
    BY <2>3, <2>4, OneLess
  <2>6. Fine(v)
    <3>1. k - 1 \in Nat /\ ~(k <= k - 1) BY <2>5
    <3>2. k - 1 \notin T
      <4> HIDE DEF T
      <4> QED BY <2>2, <3>1
    <3> HIDE DEF Fine
    <3> QED BY <2>5, <3>1, <3>2
  <2>7. product[u] = f[One(u)] * product[v] BY <1>3, <2>3, <2>4 DEF Folded
  <2>8. \A x \in u : x = One(u) \/ x \in v OBVIOUS
  <2>9. \A x \in u : f[x] \in Nat \ {0} OBVIOUS
  <2> HIDE DEF v
  <2>10. \A a, b \in Nat \ {0} : a * b \in Nat \ {0} OBVIOUS
  <2>11. product[u] \in Nat \ {0} BY <2>5, <2>6, <2>7, <2>10
  <2>12. ASSUME NEW x \in u PROVE \E m \in Nat \ {0} : product[u] = f[x] * m
    <3>1. CASE x = One(u) BY <2>6, <2>7, <3>1
    <3>2. CASE x \in v
      <4>1. PICK m \in Nat \ {0} : product[v] = f[x] * m BY <2>6, <3>2
      <4>2. \A a, b, c \in Nat \ {0} : a * (b * c) = b * (a * c) OBVIOUS
      <4>3. product[u] = f[x] * (f[One(u)] * m) BY <2>5, <2>7, <2>9, <4>1, <4>2
      <4> QED BY <2>5, <2>10, <4>3
    <3> QED BY <2>8, <3>1, <3>2
  <2> QED BY <2>3, <2>11, <2>12
<1>5. Fine(S) BY <1>4
<1> QED BY <1>1, <1>5

-----------------------------------------------------------------------------
(* Estimates *)

LEMMA Quotients ==
  /\ \A a \in Nat, b \in Nat \ {0} : a \div b \in Nat
  /\ \A a \in Nat, b \in Nat \ {0} : b * (a \div b) <= a
  /\ \A a, b \in Nat, c \in Nat \ {0} : a <= b => a \div c <= b \div c
  /\ \A a \in Nat, b \in Nat \ {0} : (b * a) \div b = a
OBVIOUS

LEMMA WeightIs ==
  ASSUME NEW p \in DOMAIN Distance, NEW S, IsFiniteSet(S), S \subseteq DOMAIN Distance[p], NEW row
  PROVE  Weight(p, S, row) \in Nat \ {0}
<1> DEFINE f == [r \in S \ {row} |-> Distance[p][r] + 1]
<1>1. S \ {row} \in SUBSET S OBVIOUS
<1>2. IsFiniteSet(S \ {row}) BY <1>1, FS_Subset
<1>3. DOMAIN f = S \ {row} /\ \A x \in DOMAIN f : f[x] \in Nat \ {0}
  <2>1. \A x \in S : Distance[p][x] \in Nat BY DistanceAssumption
  <2> QED BY <2>1
<1>4. Weight(p, S, row) = Product(f) BY DEF Weight
<1> HIDE DEF f
<1> QED BY <1>2, <1>3, <1>4, ProductIs

LEMMA AverageIs ==
  ASSUME NEW p \in DOMAIN Distance, NEW S, IsFiniteSet(S), S # {}, S \subseteq DOMAIN Distance[p],
         NEW values, \A row \in S : values[row] \in Nat
  PROVE  Average(values, p, S) \in Nat
<1> DEFINE f == [row \in S |-> Weight(p, S, row) * values[row]]
           w == [row \in S |-> Weight(p, S, row)]
<1>1. \A row \in S : Weight(p, S, row) \in Nat \ {0} BY WeightIs
<1>2. DOMAIN f = S /\ \A row \in DOMAIN f : f[row] \in Nat
  <2>1. \A a \in Nat \ {0}, b \in Nat : a * b \in Nat OBVIOUS
  <2> QED BY <1>1, <2>1
<1>3. DOMAIN w = S /\ \A row \in DOMAIN w : w[row] \in Nat \ {0} BY <1>1
<1>4. Average(values, p, S) = SumFunction(f) \div SumFunction(w) BY DEF Average
<1> HIDE DEF f, w
<1>5. SumFunction(f) \in Nat BY <1>2, SumIs
<1>6. SumFunction(w) \in Nat /\ \A row \in S : w[row] <= SumFunction(w) BY <1>3, SumIs
<1>7. SumFunction(w) \in Nat \ {0}
  <2>1. PICK row \in S : TRUE OBVIOUS
  <2> QED BY <1>3, <1>6, <2>1
<1> QED BY <1>4, <1>5, <1>7, Quotients

LEMMA NearestAre ==
  ASSUME NEW e, e.index \in DOMAIN Indexes, IndexOK(Indexes[e.index]), NEW p \in DOMAIN Distance,
         NEW S \in Nearest(Indexes[e.index], p)
  PROVE  IsFiniteSet(S) /\ S # {} /\ S \subseteq Indexes[e.index].rows /\ S \subseteq DOMAIN Distance[p]
<1> DEFINE x == Indexes[e.index]
           both == {x.k, Cardinality(x.rows)}
<1>1. IsFiniteSet(x.rows) /\ x.k \in Int /\ x.rows \subseteq DOMAIN Distance[p] BY IndexAssumption
<1>2. x.k >= 1 /\ x.rows # {} BY DEF IndexOK
<1>3. S \in SUBSET x.rows /\ Cardinality(S) = Min(both) BY DEF Nearest, kSubset
<1>4. IsFiniteSet(S) BY <1>1, <1>3, FS_Subset
<1>5. Cardinality(x.rows) \in Nat \ {0} BY <1>1, <1>2, FS_CardinalityType, FS_EmptySet
<1>6. Min(both) >= 1
  <2>1. Min(both) = IF x.k <= Cardinality(x.rows) THEN x.k ELSE Cardinality(x.rows) BY <1>1, <1>5, MinOfTwo
  <2> QED BY <1>1, <1>2, <1>5, <2>1
<1>7. S # {} BY <1>3, <1>6, FS_EmptySet
<1> QED BY <1>1, <1>3, <1>4, <1>7

\* What the estimator has for a prompt: a quality and a length for each model of the index.
LEMMA EstimatesAre ==
  ASSUME NEW e, e.index \in DOMAIN Indexes, NEW models, EstimatorLoads(e, models), NEW p \in DOMAIN Distance,
         NEW found \in Estimates(e, p)
  PROVE  /\ found.quality \in [Indexes[e.index].models -> Nat]
         /\ found.length \in [Indexes[e.index].models -> Nat]
<1> DEFINE x == Indexes[e.index]
<1>1. IndexOK(x) BY DEF EstimatorLoads
<1>2. PICK S \in Nearest(x, p) :
        /\ found.quality =
             [m \in x.models |-> IF e.prior = "knn" THEN Average(x.labels[m], p, S) ELSE MeanLabel(x, m)]
        /\ found.length = [m \in x.models |-> Average(x.lengths[m], p, S)]
  BY DEF Estimates
<1>3. IsFiniteSet(S) /\ S # {} /\ S \subseteq x.rows /\ S \subseteq DOMAIN Distance[p] BY <1>1, NearestAre
<1>4. ASSUME NEW m \in x.models
      PROVE  \A row \in x.rows : x.lengths[m][row] \in Nat /\ x.labels[m][row] \in Nat
  <2>1. /\ m \in DOMAIN x.lengths /\ x.rows \subseteq DOMAIN x.lengths[m]
        /\ \A row \in x.rows : x.lengths[m][row] >= 0 /\ x.labels[m][row] \in 0 .. LabelMax
    BY <1>1 DEF IndexOK
  <2>2. \A row \in x.rows : x.lengths[m][row] \in Int BY <2>1, IndexAssumption
  <2> QED BY <2>1, <2>2
<1>5. \A m \in x.models : Average(x.lengths[m], p, S) \in Nat /\ Average(x.labels[m], p, S) \in Nat
  BY <1>3, <1>4, AverageIs
<1>6. ASSUME NEW m \in x.models PROVE MeanLabel(x, m) \in Nat
  <2> DEFINE f == [row \in x.rows |-> x.labels[m][row]]
  <2>1. DOMAIN f = x.rows /\ \A row \in DOMAIN f : f[row] \in Nat BY <1>4
  <2>2. MeanLabel(x, m) = SumFunction(f) \div Cardinality(x.rows) BY DEF MeanLabel
  <2>3. IsFiniteSet(x.rows) /\ x.rows # {} BY <1>1, IndexAssumption DEF IndexOK
  <2>4. Cardinality(x.rows) \in Nat \ {0} BY <2>3, FS_CardinalityType, FS_EmptySet
  <2> HIDE DEF f, x
  <2>5. SumFunction(f) \in Nat BY <2>1, <2>3, SumIs
  <2> QED BY <2>2, <2>4, <2>5, Quotients
<1> QED BY <1>2, <1>5, <1>6

-----------------------------------------------------------------------------
(* Latencies *)

LEMMA Products ==
  /\ \A a, b \in Nat : a * b \in Nat
  /\ \A a, b \in Nat \ {0} : a * b \in Nat \ {0}
  /\ \A a, b, c \in Nat : a <= b => a * c <= b * c /\ c * a <= c * b
OBVIOUS

\* A part of a gap is no more than the gap, and grows with it.
LEMMA Parts ==
  /\ \A a \in Nat, d \in Nat \ {0}, e \in Nat : e <= d => (a * e) \div d \in Nat /\ (a * e) \div d <= a
  /\ \A a \in Nat, d \in Nat \ {0}, e, f \in Nat : e <= f => (a * e) \div d <= (a * f) \div d
<1>1. ASSUME NEW a \in Nat, NEW d \in Nat \ {0}, NEW e \in Nat, e <= d
      PROVE  (a * e) \div d \in Nat /\ (a * e) \div d <= a
  <2>1. a * e \in Nat /\ a * d \in Nat /\ a * e <= a * d BY <1>1, Products
  <2>2. (d * a) \div d = a /\ d * a = a * d BY Quotients
  <2>3. (a * e) \div d \in Nat BY <2>1, Quotients
  <2>4. (a * e) \div d <= (a * d) \div d BY <2>1, Quotients
  <2> QED BY <2>2, <2>3, <2>4
<1>2. ASSUME NEW a \in Nat, NEW d \in Nat \ {0}, NEW e \in Nat, NEW f \in Nat, e <= f
      PROVE  (a * e) \div d <= (a * f) \div d
  <2>1. a * e \in Nat /\ a * f \in Nat /\ a * e <= a * f BY <1>2, Products
  <2> QED BY <2>1, Quotients
<1> QED BY <1>1, <1>2

Points == Seq([b : Int, ms : Int])

\* Where a batch lies on a curve: k points are at or below it.
At(points, b, k) ==
  /\ k \in 0 .. Len(points)
  /\ \A j \in 1 .. Len(points) : j <= k <=> points[j].b <= b
  /\ k = 0 => OnCurve(points, b) = points[1].ms
  /\ k = Len(points) => OnCurve(points, b) = points[k].ms
  /\ k \in 1 .. Len(points) - 1 =>
       OnCurve(points, b) =
         points[k].ms
           + ((points[k + 1].ms - points[k].ms) * (b - points[k].b)) \div (points[k + 1].b - points[k].b)

LEMMA CurveIs ==
  ASSUME NEW points \in Points, CurveOK(points)
  PROVE  /\ Len(points) \in Nat \ {0}
         /\ \A k \in 1 .. Len(points) : points[k].b \in Int /\ points[k].ms \in Nat \ {0}
         /\ \A j, k \in 1 .. Len(points) : j < k => points[j].b < points[k].b
         /\ \A j, k \in 1 .. Len(points) : j <= k => points[j].ms <= points[k].ms
<1>1. Len(points) \in Nat /\ points # <<>> /\ DOMAIN points = 1 .. Len(points)
      /\ \A k \in 1 .. Len(points) : points[k] \in [b : Int, ms : Int]
  <2> DEFINE S == [b : Int, ms : Int]
  <2>1. points \in Seq(S) /\ points # <<>> BY DEF CurveOK, Points
  <2> HIDE DEF S
  <2>2. Len(points) \in Nat /\ DOMAIN points = 1 .. Len(points) BY <2>1, LenProperties
  <2>3. \A k \in 1 .. Len(points) : points[k] \in S BY <2>1, ElementOfSeq
  <2> QED BY <2>1, <2>2, <2>3 DEF S
<1>2. Len(points) # 0 BY <1>1, EmptySeq DEF Points
<1>3. \A k \in 1 .. Len(points) : points[k].b \in Int /\ points[k].ms \in Nat \ {0} BY <1>1 DEF CurveOK
<1>4. \A j, k \in 1 .. Len(points) : j < k => points[j].b < points[k].b /\ points[j].ms <= points[k].ms BY DEF CurveOK
<1>5. ASSUME NEW j \in 1 .. Len(points), NEW k \in 1 .. Len(points), j <= k PROVE points[j].ms <= points[k].ms
  <2>1. j = k \/ j < k BY <1>1, <1>5
  <2> QED BY <1>3, <1>4, <2>1
<1> QED BY <1>1, <1>2, <1>3, <1>4, <1>5

LEMMA CurveAt ==
  ASSUME NEW points \in Points, CurveOK(points), NEW b \in Int
  PROVE  \E k : At(points, b, k)
<1> DEFINE n == Len(points)
           below == {k \in 1 .. n : points[k].b <= b}
<1>1. /\ n \in Nat \ {0}
      /\ \A k \in 1 .. n : points[k].b \in Int
      /\ \A j, k \in 1 .. n : j < k => points[j].b < points[k].b
  BY CurveIs
<1>2. OnCurve(points, b) =
        CASE below = {} -> points[1].ms
          [] below = 1 .. n -> points[n].ms
          [] OTHER -> points[Max(below)].ms
                        + ((points[Max(below) + 1].ms - points[Max(below)].ms) * (b - points[Max(below)].b))
                            \div (points[Max(below) + 1].b - points[Max(below)].b)
  BY DEF OnCurve
<1>3. \A j \in 1 .. n : j \in below <=> points[j].b <= b OBVIOUS
<1>4. CASE below = {}
  <2>1. OnCurve(points, b) = points[1].ms
    <3>1. below # 1 .. n BY <1>1, <1>4
    <3> HIDE DEF below
    <3> QED BY <1>2, <1>4, <3>1
  <2>2. \A j \in 1 .. n : j <= 0 <=> points[j].b <= b BY <1>1, <1>3, <1>4
  <2> QED BY <1>1, <2>1, <2>2 DEF At
<1>5. CASE below # {}
  <2> DEFINE k == Max(below)
  <2>1. k \in below /\ \A j \in below : j <= k
    <3>1. IsFiniteSet(1 .. n) BY <1>1, FS_Interval
    <3>2. below \in SUBSET (1 .. n) OBVIOUS
    <3>3. IsFiniteSet(below) BY <3>1, <3>2, FS_Subset
    <3>4. \A x \in below : x \in Int OBVIOUS
    <3> HIDE DEF below
    <3> QED BY <1>5, <3>3, <3>4, MaxIs
  <2>2. k \in 1 .. n /\ points[k].b <= b BY <2>1
  <2>3. ASSUME NEW j \in 1 .. n PROVE j <= k <=> points[j].b <= b
    <3>1. points[j].b <= b => j <= k BY <1>3, <2>1
    <3>2. j <= k => points[j].b <= points[k].b
      <4> HIDE DEF k, below
      <4> QED BY <1>1, <2>2
    <3>3. points[j].b \in Int /\ points[k].b \in Int BY <1>1, <2>2
    <3> HIDE DEF k, below
    <3> QED BY <2>2, <3>1, <3>2, <3>3
  <2>4. below = 1 .. n <=> k = n
    <3> HIDE DEF k
    <3>1. below = 1 .. n => k = n BY <1>1, <2>1, <2>2
    <3>2. k = n => below = 1 .. n BY <1>3, <2>3
    <3> QED BY <3>1, <3>2
  <2>5. At(points, b, k)
    <3> HIDE DEF below
    <3>1. k = n => OnCurve(points, b) = points[k].ms BY <1>2, <1>5, <2>4
    <3>2. k \in 1 .. n - 1 =>
            OnCurve(points, b) =
              points[k].ms
                + ((points[k + 1].ms - points[k].ms) * (b - points[k].b)) \div (points[k + 1].b - points[k].b)
      <4>1. k \in 1 .. n - 1 => k # n BY <1>1
      <4> QED BY <1>2, <1>5, <2>4, <4>1
    <3> HIDE DEF k
    <3> QED BY <1>1, <2>2, <2>3, <3>1, <3>2 DEF At
  <2> QED BY <2>5
<1> QED BY <1>4, <1>5

\* Between two points, a time is between theirs.
LEMMA OnCurveBetween ==
  ASSUME NEW points \in Points, CurveOK(points), NEW b \in Int, NEW k, At(points, b, k)
  PROVE  /\ OnCurve(points, b) \in Nat \ {0}
         /\ k \in 1 .. Len(points) => points[k].ms <= OnCurve(points, b)
         /\ k \in 0 .. Len(points) - 1 => OnCurve(points, b) <= points[k + 1].ms
<1> DEFINE n == Len(points)
           at == OnCurve(points, b)
<1>1. /\ n \in Nat \ {0}
      /\ \A j \in 1 .. n : points[j].b \in Int /\ points[j].ms \in Nat \ {0}
      /\ \A i, j \in 1 .. n : i < j => points[i].b < points[j].b
      /\ \A i, j \in 1 .. n : i <= j => points[i].ms <= points[j].ms
  BY CurveIs
<1>2. k \in 0 .. n /\ k \in Nat BY DEF At
<1>3. CASE k = 0
  <2>1. at = points[1].ms /\ 1 \in 1 .. n BY <1>1, <1>3 DEF At
  <2> QED BY <1>1, <1>3, <2>1
<1>4. CASE k = n
  <2>1. at = points[n].ms /\ n \in 1 .. n BY <1>1, <1>4 DEF At
  <2> QED BY <1>1, <1>4, <2>1
<1>5. CASE k \in 1 .. n - 1
  <2> DEFINE p == points[k]
             q == points[k + 1]
             part == ((q.ms - p.ms) * (b - p.b)) \div (q.b - p.b)
  <2>1. k \in 1 .. n /\ k + 1 \in 1 .. n /\ k < k + 1 /\ ~(k + 1 <= k) /\ k <= k BY <1>1, <1>5
  <2>2. at = p.ms + part BY <1>5 DEF At
  <2>3. p.b <= b /\ ~(q.b <= b) BY <2>1 DEF At
  <2>4. /\ p.ms \in Nat \ {0} /\ q.ms \in Nat \ {0} /\ p.ms <= q.ms
        /\ p.b \in Int /\ q.b \in Int /\ p.b < q.b
    BY <1>1, <2>1
  <2>5. part \in Nat /\ part <= q.ms - p.ms
    <3> DEFINE a == q.ms - p.ms
               d == q.b - p.b
               e == b - p.b
    <3>1. a \in Nat /\ d \in Nat \ {0} /\ e \in Nat /\ e <= d BY <2>3, <2>4
    <3> HIDE DEF a, d, e
    <3>2. (a * e) \div d \in Nat /\ (a * e) \div d <= a BY <3>1, Parts
    <3> QED BY <3>2 DEF a, d, e
  <2> HIDE DEF p, q, part
  <2>6. at \in Nat \ {0} /\ p.ms <= at /\ at <= q.ms BY <2>2, <2>4, <2>5
  <2> QED BY <2>6 DEF p, q
<1>6. k = 0 \/ k = n \/ k \in 1 .. n - 1 BY <1>1, <1>2
<1> QED BY <1>3, <1>4, <1>5, <1>6

\* A larger batch is not faster (D47).
LEMMA OnCurveGrows ==
  ASSUME NEW points \in Points, CurveOK(points), NEW b \in Int, NEW c \in Int, b <= c
  PROVE  OnCurve(points, b) <= OnCurve(points, c)
<1> DEFINE n == Len(points)
<1>1. /\ n \in Nat \ {0}
      /\ \A j \in 1 .. n : points[j].b \in Int /\ points[j].ms \in Nat \ {0}
      /\ \A i, j \in 1 .. n : i < j => points[i].b < points[j].b
      /\ \A i, j \in 1 .. n : i <= j => points[i].ms <= points[j].ms
  BY CurveIs
<1>2. PICK k : At(points, b, k) BY CurveAt
<1>3. PICK m : At(points, c, m) BY CurveAt
<1>4. k \in 0 .. n /\ m \in 0 .. n BY <1>2, <1>3 DEF At
<1>5. k <= m
  <2>1. CASE k = 0 BY <1>1, <1>4, <2>1
  <2>2. CASE k # 0
    <3>1. k \in 1 .. n BY <1>4, <2>2
    <3>2. points[k].b <= b BY <1>2, <3>1 DEF At
    <3>3. points[k].b <= c BY <1>1, <3>1, <3>2
    <3> QED BY <1>3, <3>1, <3>3 DEF At
  <2> QED BY <2>1, <2>2
<1>6. OnCurve(points, b) \in Nat /\ OnCurve(points, c) \in Nat BY <1>2, <1>3, OnCurveBetween
<1>7. CASE k < m
  <2>1. k \in 0 .. n - 1 /\ m \in 1 .. n /\ k + 1 \in 1 .. n /\ k + 1 <= m BY <1>1, <1>4, <1>7
  <2>2. OnCurve(points, b) <= points[k + 1].ms BY <1>2, <2>1, OnCurveBetween
  <2>3. points[m].ms <= OnCurve(points, c) BY <1>3, <2>1, OnCurveBetween
  <2>4. points[k + 1].ms <= points[m].ms /\ points[k + 1].ms \in Nat /\ points[m].ms \in Nat BY <1>1, <2>1
  <2> QED BY <1>6, <2>2, <2>3, <2>4
<1>8. CASE k = m
  <2>1. CASE k = 0 \/ k = n
    <3>1. OnCurve(points, b) = OnCurve(points, c) BY <1>2, <1>3, <1>8, <2>1 DEF At
    <3> QED BY <1>6, <3>1
  <2>2. CASE k \in 1 .. n - 1
    <3> DEFINE p == points[k]
               a == points[k + 1].ms - p.ms
               d == points[k + 1].b - p.b
               e == b - p.b
               f == c - p.b
    <3>1. k \in 1 .. n /\ k + 1 \in 1 .. n /\ k < k + 1 /\ k <= k + 1 /\ k <= k BY <1>1, <2>2
    <3>2. p.b <= b BY <1>2, <3>1 DEF At
    <3>3. OnCurve(points, b) = p.ms + (a * e) \div d BY <1>2, <2>2 DEF At
    <3>4. OnCurve(points, c) = p.ms + (a * f) \div d BY <1>3, <1>8, <2>2 DEF At
    <3>5. /\ a \in Nat /\ d \in Nat \ {0} /\ e \in Nat /\ f \in Nat /\ e <= f /\ p.ms \in Nat
      <4>1. /\ p.ms \in Nat \ {0} /\ points[k + 1].ms \in Nat \ {0} /\ p.b \in Int /\ points[k + 1].b \in Int
            /\ p.b < points[k + 1].b /\ p.ms <= points[k + 1].ms
        BY <1>1, <3>1
      <4> QED BY <3>2, <4>1
    <3> HIDE DEF p, a, d, e, f
    <3>6. (a * e) \div d <= (a * f) \div d BY <3>5, Parts
    <3>7. a * e \in Nat /\ a * f \in Nat BY <3>5, Products
    <3>8. (a * e) \div d \in Nat /\ (a * f) \div d \in Nat BY <3>5, <3>7, Quotients
    <3> QED BY <3>3, <3>4, <3>5, <3>6, <3>8
  <2>3. k = 0 \/ k = n \/ k \in 1 .. n - 1 BY <1>1, <1>4
  <2> QED BY <2>1, <2>2, <2>3
<1>9. k < m \/ k = m BY <1>4, <1>5
<1> QED BY <1>7, <1>8, <1>9

\* A request on an instance: lengths for finitely many models, the tier's among them.
Served(l, t, s, lengths, prompt_tokens) ==
  /\ LatencyOK(l) /\ t \in Tiers /\ s \in Loads
  /\ IsFiniteSet(DOMAIN lengths) /\ lengths \in [DOMAIN lengths -> Nat]
  /\ Model[t] \in DOMAIN lengths /\ prompt_tokens \in Nat

\* The learned heads predict numbers.
HeadsPredict == \A t \in Tiers, s \in Loads, longest \in Nat : Booster(t, s, longest) \in Int

LEMMA RangeIs ==
  ASSUME NEW f, IsFiniteSet(DOMAIN f)
  PROVE  IsFiniteSet(Range(f)) /\ \A y : y \in Range(f) <=> \E x \in DOMAIN f : y = f[x]
<1>1. Range(f) = {f[x] : x \in DOMAIN f} BY DEF Range
<1>2. IsFiniteSet(Range(f))
  <2> DEFINE T == Range(f)
  <2> HIDE DEF T
  <2>1. T = {f[x] : x \in DOMAIN f} BY <1>1 DEF T
  <2>2. IsFiniteSet(T) BY <2>1, ImageIsFinite
  <2> QED BY <2>2 DEF T
<1> QED BY <1>1, <1>2

LEMMA LongestIs ==
  ASSUME NEW lengths, IsFiniteSet(DOMAIN lengths), \A m \in DOMAIN lengths : lengths[m] \in Nat
  PROVE  Longest(lengths) \in Nat \ {0} /\ \A m \in DOMAIN lengths : lengths[m] <= Longest(lengths)
<1> DEFINE S == {1} \cup Range(lengths)
<1>1. IsFiniteSet(Range(lengths)) /\ \A y : y \in Range(lengths) <=> \E x \in DOMAIN lengths : y = lengths[x]
  BY RangeIs
<1>2. IsFiniteSet(S)
  <2>1. \A x : IsFiniteSet({x}) BY FS_Singleton
  <2>2. IsFiniteSet({1}) BY <2>1
  <2> QED BY <1>1, <2>2, FS_Union
<1>3. \A x \in S : x \in Int BY <1>1
<1>4. 1 \in S /\ \A m \in DOMAIN lengths : lengths[m] \in S BY <1>1
<1>5. Longest(lengths) = Max(S) BY DEF Longest
<1> HIDE DEF S
<1>6. Max(S) \in Int /\ \A x \in S : x <= Max(S) BY <1>2, <1>3, <1>4, MaxIs
<1> QED BY <1>4, <1>5, <1>6

LEMMA TablesAre ==
  ASSUME NEW t \in Tiers
  PROVE  /\ Slots \in Nat \ {0}
         /\ ConstantTPOT[t] \in Nat \ {0}
         /\ CurveTPOT[t] \in Points /\ CurveOK(CurveTPOT[t])
         /\ PrefillLine[t].intercept \in Nat \ {0} /\ PrefillLine[t].per_token \in Nat \ {0}
<1>1. /\ Slots >= 1
      /\ t \in DOMAIN ConstantTPOT /\ ConstantTPOT[t] >= 1
      /\ t \in DOMAIN CurveTPOT /\ CurveOK(CurveTPOT[t])
      /\ t \in DOMAIN PrefillLine /\ PrefillLine[t].intercept >= 1 /\ PrefillLine[t].per_token >= 1
  BY LatencyAssumption DEF TablesOK
<1>2. Slots \in Nat /\ ConstantTPOT[t] \in Int /\ CurveTPOT[t] \in Points
      /\ PrefillLine[t] \in [intercept : Int, per_token : Int]
  BY <1>1, TableAssumption DEF Points
<1> QED BY <1>1, <1>2

LEMMA TimesAre ==
  ASSUME NEW t \in Tiers, NEW source
  PROVE  /\ \A b \in Int : TPOTAt(source, t, b) \in Nat \ {0}
         /\ \A b, c \in Int : b <= c => TPOTAt(source, t, b) <= TPOTAt(source, t, c)
         /\ HeadsPredict => \A s \in Loads, n \in Nat : TPOT(source, t, s, n) \in Nat \ {0}
<1>1. ConstantTPOT[t] \in Nat \ {0} /\ CurveTPOT[t] \in Points /\ CurveOK(CurveTPOT[t]) BY TablesAre
<1>2. \A b \in Int : OnCurve(CurveTPOT[t], b) \in Nat \ {0} BY <1>1, CurveAt, OnCurveBetween
<1>3. \A b, c \in Int : b <= c => OnCurve(CurveTPOT[t], b) <= OnCurve(CurveTPOT[t], c) BY <1>1, OnCurveGrows
<1>4. ASSUME HeadsPredict, NEW s \in Loads, NEW n \in Nat PROVE TPOT(source, t, s, n) \in Nat \ {0}
  <2>1. Booster(t, s, n) \in Int BY <1>4 DEF HeadsPredict
  <2> DEFINE head == Booster(t, s, n)
  <2> HIDE DEF head
  <2>2. head \in Int BY <2>1 DEF head
  <2>3. Max({1, head}) = IF 1 >= head THEN 1 ELSE head BY <2>2, MaxOfTwo
  <2>4. TPOT(source, t, s, n) = IF source = "constant" THEN ConstantTPOT[t] ELSE Max({1, head}) BY DEF TPOT, head
  <2> QED BY <1>1, <2>2, <2>3, <2>4
<1> QED BY <1>1, <1>2, <1>3, <1>4 DEF TPOTAt

LEMMA PendingIs ==
  ASSUME NEW s \in Loads
  PROVE  /\ PendingPerSlot(s) \in Nat
         /\ \A u \in Loads : u.running = s.running /\ u.pending <= s.pending => PendingPerSlot(u) <= PendingPerSlot(s)
         /\ PendingPerSlot(Idle) = 0
<1>1. \A u \in Loads : u.running \in Nat /\ u.pending \in Nat BY DEF Loads
<1>2. \A a \in Nat : Max({a, 1}) \in Nat \ {0}
  <2>1. \A a \in Nat : Max({a, 1}) = IF a >= 1 THEN a ELSE 1 BY MaxOfTwo
  <2> QED BY <2>1
<1>3. \A u \in Loads : PendingPerSlot(u) = u.pending \div Max({u.running, 1}) BY DEF PendingPerSlot
<1>4. PendingPerSlot(s) \in Nat
  <2> DEFINE d == Max({s.running, 1})
             a == s.pending
  <2>1. a \in Nat /\ d \in Nat \ {0} BY <1>1, <1>2
  <2>2. PendingPerSlot(s) = a \div d BY <1>3
  <2> HIDE DEF d, a
  <2>3. a \div d \in Nat BY <2>1, Quotients
  <2> QED BY <2>2, <2>3
<1>5. \A u \in Loads : u.running = s.running /\ u.pending <= s.pending => PendingPerSlot(u) <= PendingPerSlot(s)
  <2> TAKE u \in Loads
  <2> HAVE u.running = s.running /\ u.pending <= s.pending
  <2> DEFINE d == Max({s.running, 1})
             a == u.pending
             b == s.pending
  <2>1. s.running \in Nat /\ a \in Nat /\ b \in Nat /\ a <= b BY <1>1
  <2>2. d \in Nat \ {0} BY <1>2, <2>1
  <2>3. PendingPerSlot(u) = a \div d /\ PendingPerSlot(s) = b \div d BY <1>3
  <2> HIDE DEF d, a, b
  <2>4. a \div d <= b \div d BY <2>1, <2>2, Quotients
  <2> QED BY <2>3, <2>4
<1>6. PendingPerSlot(Idle) = 0
  <2>1. Idle \in Loads /\ Idle.running = 0 /\ Idle.pending = 0 BY DEF Idle, Loads
  <2>2. PendingPerSlot(Idle) = 0 \div Max({0, 1}) BY <1>3, <2>1
  <2>3. Max({0, 1}) \in Nat \ {0} BY <1>2
  <2>4. \A a \in Nat \ {0} : 0 \div a = 0 OBVIOUS
  <2> QED BY <2>2, <2>3, <2>4
<1> QED BY <1>4, <1>5, <1>6

\* A latency is a number, and a positive one unless an empty answer is expected.
LEMMA LatencyIs ==
  ASSUME HeadsPredict, NEW l, NEW t, NEW s, NEW lengths, NEW n, Served(l, t, s, lengths, n)
  PROVE  /\ Latency(l, t, s, lengths, n) \in Nat
         /\ Latency(l, t, s, lengths, n) > 0 \/ (~l.prefill /\ l.envelope # "queue_aware" /\ lengths[Model[t]] = 0)
<1> DEFINE own == lengths[Model[t]]
           tpot == TPOT(l.source, t, s, Longest(lengths))
           per == PendingPerSlot(s)
           b == s.running + s.waiting
           at == Enveloped(l, t, s, lengths)
<1>1. /\ t \in Tiers /\ s \in Loads /\ own \in Nat /\ n \in Nat
      /\ \A m \in DOMAIN lengths : lengths[m] \in Nat
      /\ IsFiniteSet(DOMAIN lengths)
  BY DEF Served
<1>2. Longest(lengths) \in Nat BY <1>1, LongestIs
<1>3. tpot \in Nat \ {0} BY <1>1, <1>2, TimesAre
<1>4. per \in Nat BY <1>1, PendingIs
<1>5. b \in Int /\ Slots \in Nat BY <1>1, TablesAre DEF Loads
<1>6. TPOTAt(l.source, t, b + 1) \in Nat \ {0} /\ TPOTAt(l.source, t, Slots) \in Nat \ {0} BY <1>1, <1>5, TimesAre
<1>7. Max({1, own}) \in Nat \ {0}
  <2>1. Max({1, own}) = IF 1 >= own THEN 1 ELSE own BY <1>1, MaxOfTwo
  <2> QED BY <1>1, <2>1
<1> HIDE DEF own, tpot, per, b
<1>8. l.envelope \in {"own_length", "queue_aware", "batch_aware"} BY DEF Served, LatencyOK, LatencyPairs
<1>9. at \in Nat /\ (l.envelope = "queue_aware" \/ own # 0 => at > 0)
  <2>1. CASE l.envelope = "own_length"
    <3>1. at = tpot * own BY <2>1 DEF Enveloped, own, tpot
    <3> QED BY <1>1, <1>3, <2>1, <3>1, Products
  <2>2. CASE l.envelope = "queue_aware"
    <3>1. at = QueueAware(tpot, s, own) BY <2>2 DEF Enveloped, own, tpot
    <3>2. at = Max({1, own}) * tpot \/ at = (per + Max({1, own})) * tpot BY <3>1 DEF QueueAware, per
    <3>3. per + Max({1, own}) \in Nat \ {0} BY <1>4, <1>7
    <3>4. at \in Nat \ {0} BY <1>3, <1>7, <3>2, <3>3, Products
    <3> QED BY <3>4
  <2>3. CASE l.envelope = "batch_aware"
    <3>1. at = BatchAware(l.source, t, s, own) BY <2>3 DEF Enveloped, own
    <3>2. at = TPOTAt(l.source, t, b + 1) * own \/ at = TPOTAt(l.source, t, Slots) * (own + per)
      BY <3>1 DEF BatchAware, b, per
    <3>3. own + per \in Nat /\ (own # 0 => own + per # 0) BY <1>1, <1>4
    <3> QED BY <1>1, <1>6, <2>3, <3>2, <3>3, Products
  <2> QED BY <1>8, <2>1, <2>2, <2>3
<1>10. Prefill(l, t, n) \in Nat /\ (l.prefill => Prefill(l, t, n) > 0)
  <2>1. PrefillLine[t].intercept \in Nat \ {0} /\ PrefillLine[t].per_token \in Nat \ {0} BY <1>1, TablesAre
  <2>2. PrefillLine[t].per_token * n \in Nat BY <1>1, <2>1, Products
  <2> QED BY <2>1, <2>2 DEF Prefill
<1>11. Latency(l, t, s, lengths, n) = at + Prefill(l, t, n) BY DEF Latency
<1> HIDE DEF at
<1> QED BY <1>9, <1>10, <1>11 DEF own

\* Nowhere less of a load.
Lighter(u, s) == u.running <= s.running /\ u.waiting <= s.waiting /\ PendingPerSlot(u) <= PendingPerSlot(s)

\* But for the learned heads, a latency grows with the load.
LEMMA LatencyGrows ==
  ASSUME NEW l, NEW t, NEW s, NEW u \in Loads, NEW lengths, NEW n, Served(l, t, s, lengths, n),
         Lighter(u, s), l.source # "xgboost"
  PROVE  Latency(l, t, u, lengths, n) <= Latency(l, t, s, lengths, n)
<1> DEFINE own == lengths[Model[t]]
           tpot == ConstantTPOT[t]
           atU == Enveloped(l, t, u, lengths)
           atS == Enveloped(l, t, s, lengths)
<1>1. /\ t \in Tiers /\ s \in Loads /\ own \in Nat /\ n \in Nat BY DEF Served
<1>2. tpot \in Nat \ {0} /\ Slots \in Nat \ {0} BY <1>1, TablesAre
<1>3. Max({1, own}) \in Nat \ {0}
  <2>1. Max({1, own}) = IF 1 >= own THEN 1 ELSE own BY <1>1, MaxOfTwo
  <2> QED BY <1>1, <2>1
<1>4. PendingPerSlot(u) \in Nat /\ PendingPerSlot(s) \in Nat /\ PendingPerSlot(u) <= PendingPerSlot(s)
  BY <1>1, PendingIs DEF Lighter
<1>5. /\ u.running \in Nat /\ u.waiting \in Nat /\ s.running \in Nat /\ s.waiting \in Nat
      /\ u.running <= s.running /\ u.waiting <= s.waiting
  BY <1>1 DEF Loads, Lighter
<1>6. \/ l.source = "constant" /\ l.envelope \in {"own_length", "queue_aware"}
      \/ l.envelope = "batch_aware"
  BY DEF Served, LatencyOK, LatencyPairs
<1> HIDE DEF own, tpot
<1>7. atU \in Nat /\ atS \in Nat /\ atU <= atS
  <2>1. CASE l.source = "constant" /\ l.envelope = "own_length"
    <3>1. atU = tpot * own /\ atS = tpot * own BY <2>1 DEF Enveloped, TPOT, own, tpot
    <3>2. tpot * own \in Nat BY <1>1, <1>2, Products
    <3> QED BY <3>1, <3>2
  <2>2. CASE l.source = "constant" /\ l.envelope = "queue_aware"
    <3> DEFINE m == Max({1, own})
               v == PendingPerSlot(u)
               w == PendingPerSlot(s)
    <3>1. atU = QueueAware(tpot, u, own) /\ atS = QueueAware(tpot, s, own) BY <2>2 DEF Enveloped, TPOT, own, tpot
    <3>2. /\ atU = IF u.running < Slots /\ u.waiting = 0 THEN m * tpot ELSE (v + m) * tpot
          /\ atS = IF s.running < Slots /\ s.waiting = 0 THEN m * tpot ELSE (w + m) * tpot
      BY <3>1 DEF QueueAware
    <3>3. (s.running < Slots /\ s.waiting = 0) => (u.running < Slots /\ u.waiting = 0) BY <1>2, <1>5
    <3>4. m \in Nat /\ v \in Nat /\ w \in Nat /\ v <= w /\ tpot \in Nat BY <1>2, <1>3, <1>4
    <3> HIDE DEF m, v, w, atU, atS
    <3>5. m <= w + m /\ v + m <= w + m /\ v + m \in Nat /\ w + m \in Nat BY <3>4
    <3>6. m * tpot <= (w + m) * tpot /\ (v + m) * tpot <= (w + m) * tpot BY <3>4, <3>5, Products
    <3>7. m * tpot \in Nat /\ (v + m) * tpot \in Nat /\ (w + m) * tpot \in Nat BY <3>4, <3>5, Products
    <3> QED BY <3>2, <3>3, <3>6, <3>7
  <2>3. CASE l.envelope = "batch_aware"
    <3> DEFINE T(b) == TPOTAt(l.source, t, b)
               a == u.running + u.waiting
               b == s.running + s.waiting
               v == PendingPerSlot(u)
               w == PendingPerSlot(s)
    <3>1. atU = BatchAware(l.source, t, u, own) /\ atS = BatchAware(l.source, t, s, own)
      BY <2>3 DEF Enveloped, own
    <3>2. /\ atU = IF a < Slots THEN T(a + 1) * own ELSE T(Slots) * (own + v)
          /\ atS = IF b < Slots THEN T(b + 1) * own ELSE T(Slots) * (own + w)
      BY <3>1 DEF BatchAware
    <3>3. /\ a \in Nat /\ b \in Nat /\ a <= b /\ v \in Nat /\ w \in Nat /\ v <= w /\ Slots \in Nat /\ own \in Nat
      BY <1>1, <1>2, <1>4, <1>5
    <3>4. /\ \A x \in Int : T(x) \in Nat \ {0}
          /\ \A x, y \in Int : x <= y => T(x) <= T(y)
      BY <1>1, TimesAre
    <3> HIDE DEF T, a, b, v, w, atU, atS
    <3>5. own + v \in Nat /\ own + w \in Nat /\ own + v <= own + w /\ own <= own + w BY <3>3
    <3>6. T(a + 1) \in Nat /\ T(b + 1) \in Nat /\ T(Slots) \in Nat BY <3>3, <3>4
    <3>7. T(a + 1) * own \in Nat /\ T(b + 1) * own \in Nat /\ T(Slots) * (own + v) \in Nat
          /\ T(Slots) * (own + w) \in Nat /\ T(Slots) * own \in Nat
      BY <3>3, <3>5, <3>6, Products
    <3>8. CASE b < Slots
      <4>1. a < Slots /\ T(a + 1) <= T(b + 1) BY <3>3, <3>4, <3>8
      <4>2. T(a + 1) * own <= T(b + 1) * own BY <3>3, <3>6, <4>1, Products
      <4> QED BY <3>2, <3>7, <3>8, <4>1, <4>2
    <3>9. CASE ~(b < Slots) /\ a < Slots
      <4>1. T(a + 1) <= T(Slots) BY <3>3, <3>4, <3>9
      <4>2. T(a + 1) * own <= T(Slots) * own BY <3>3, <3>6, <4>1, Products
      <4>3. T(Slots) * own <= T(Slots) * (own + w) BY <3>3, <3>5, <3>6, Products
      <4> QED BY <3>2, <3>7, <3>9, <4>2, <4>3
    <3>10. CASE ~(b < Slots) /\ ~(a < Slots)
      <4>1. T(Slots) * (own + v) <= T(Slots) * (own + w) BY <3>5, <3>6, Products
      <4> QED BY <3>2, <3>7, <3>10, <4>1
    <3> QED BY <3>8, <3>9, <3>10
  <2> QED BY <1>6, <2>1, <2>2, <2>3
<1>8. Prefill(l, t, n) \in Nat
  <2>1. PrefillLine[t].intercept \in Nat /\ PrefillLine[t].per_token \in Nat BY <1>1, TablesAre
  <2>2. PrefillLine[t].per_token * n \in Nat BY <1>1, <2>1, Products
  <2> QED BY <2>1, <2>2 DEF Prefill
<1>9. Latency(l, t, u, lengths, n) = atU + Prefill(l, t, n) /\ Latency(l, t, s, lengths, n) = atS + Prefill(l, t, n)
  BY DEF Latency
<1> HIDE DEF atU, atS
<1> QED BY <1>7, <1>8, <1>9

-----------------------------------------------------------------------------
(* A round's requests, candidates and costs *)

Typed ==
  /\ cfg \in Configs /\ LatencyOK(cfg.latency) /\ EstimatorLoads(cfg.estimator, Models)
  /\ request \in [Requests -> Arriving(cfg.estimator)]
  /\ state \in [Instances -> Loads]
  /\ last_assigned \in [Instances -> 0 .. RoundSize]
  /\ l_run \in Nat
  /\ Decided \subseteq Requests

LEMMA InstancesAre ==
  /\ IsFiniteSet(Instances) /\ Instances # {} /\ IsFiniteSet(Requests) /\ Requests # {}
  /\ Instances \subseteq Int /\ Requests \subseteq Int
  /\ \A i \in Instances : Tier[i] \in Tiers
  /\ \A t \in Tiers : Model[t] \in Models /\ Price[t].cost_in \in Nat /\ Price[t].cost_out \in Nat \ {0}
  /\ Models # {}
<1>1. Fleet \in Nat \ {0} /\ RoundSize \in Nat \ {0} BY RoundAssumption
<1>2. IsFiniteSet(Instances) /\ IsFiniteSet(Requests) BY <1>1, FS_Interval DEF Instances, Requests
<1>3. 1 \in Instances /\ 1 \in Requests BY <1>1 DEF Instances, Requests
<1>4. Instances \subseteq Int /\ Requests \subseteq Int BY <1>1 DEF Instances, Requests
<1>5. \A i \in Instances : Tier[i] \in Tiers BY DEF Tiers
<1>6. \A t \in Tiers : Model[t] \in Models BY DEF Models
<1>7. \A t \in Tiers : Price[t].cost_in \in Nat /\ Price[t].cost_out \in Nat \ {0} BY RoundAssumption
<1>8. Models # {} BY <1>3, <1>5, <1>6
<1> QED BY <1>2, <1>3, <1>4, <1>5, <1>6, <1>7, <1>8

LEMMA RequestIs ==
  ASSUME Typed, NEW r \in Requests
  PROVE  /\ request[r].prompt_tokens \in Nat \ {0} /\ request[r].max_tokens \in Nat \ {0} /\ request[r].budget \in Nat
         /\ IsFiniteSet(Estimated(r)) /\ Models \subseteq Estimated(r)
         /\ request[r].length \in [Estimated(r) -> Nat] /\ request[r].quality \in [Estimated(r) -> Nat]
<1> DEFINE e == cfg.estimator
           q == request[r]
           index == Indexes[e.index]
<1>1. q \in Arriving(e) BY DEF Typed
<1>2. PICK p \in Profiles :
        q \in {[prompt_tokens |-> p.prompt_tokens, budget |-> p.budget, max_tokens |-> p.max_tokens,
                quality |-> x.quality, length |-> x.length] : x \in Estimates(e, p.prompt)}
  BY <1>1 DEF Arriving
<1>3. PICK x \in Estimates(e, p.prompt) :
        q = [prompt_tokens |-> p.prompt_tokens, budget |-> p.budget, max_tokens |-> p.max_tokens,
             quality |-> x.quality, length |-> x.length]
  BY <1>2
<1>4. /\ p.prompt \in DOMAIN Distance
      /\ p.prompt_tokens \in Nat \ {0} /\ p.max_tokens \in Nat \ {0} /\ p.budget \in Nat
      /\ e.index \in DOMAIN Indexes
  BY RoundAssumption DEF Typed
<1>5. EstimatorLoads(e, Models) BY DEF Typed
<1>6. x.quality \in [index.models -> Nat] /\ x.length \in [index.models -> Nat] BY <1>3, <1>4, <1>5, EstimatesAre
<1>7. Models \subseteq index.models /\ IsFiniteSet(index.models)
  BY <1>4, <1>5, IndexAssumption DEF EstimatorLoads
<1>8. Estimated(r) = index.models BY <1>3, <1>6 DEF Estimated
<1> HIDE DEF e, index
<1> QED BY <1>3, <1>4, <1>6, <1>7, <1>8

LEMMA CostsAre ==
  ASSUME Typed, NEW r \in Requests, NEW i \in Instances
  PROVE  /\ \A n \in Nat : Cost(Tier[i], r, n) \in Nat
         /\ \A m, n \in Nat : m <= n => Cost(Tier[i], r, m) <= Cost(Tier[i], r, n)
         /\ OwnLength(Tier[i], r) \in Nat /\ Quality(i, r) \in Nat /\ CostOf(i, r) \in Nat
         /\ Expected(Tier[i], r) \in Nat /\ WorstCase(i, r) \in Nat
<1> DEFINE q == request[r]
           in == Price[Tier[i]].cost_in
           out == Price[Tier[i]].cost_out
           own == OwnLength(Tier[i], r)
<1>1. /\ q.prompt_tokens \in Nat /\ q.max_tokens \in Nat
      /\ Models \subseteq Estimated(r) /\ q.length \in [Estimated(r) -> Nat] /\ q.quality \in [Estimated(r) -> Nat]
  BY RequestIs
<1>2. Tier[i] \in Tiers /\ Model[Tier[i]] \in Models BY InstancesAre
<1>3. in \in Nat /\ out \in Nat BY <1>2, InstancesAre
<1>4. own \in Nat /\ Quality(i, r) \in Nat BY <1>1, <1>2 DEF OwnLength, Quality
<1>5. \A n \in Nat : Cost(Tier[i], r, n) = q.prompt_tokens * in + n * out BY DEF Cost
<1>6. Expected(Tier[i], r) = Min({own, q.max_tokens}) BY DEF Expected
<1> HIDE DEF q, in, out, own
<1>7. q.prompt_tokens * in \in Nat BY <1>1, <1>3, Products
<1>8. \A m, n \in Nat : m <= n => m * out <= n * out BY <1>3, Products
<1>9. \A n \in Nat : n * out \in Nat BY <1>3, Products
<1>10. \A n \in Nat : Cost(Tier[i], r, n) \in Nat BY <1>5, <1>7, <1>9
<1>11. \A m, n \in Nat : m <= n => Cost(Tier[i], r, m) <= Cost(Tier[i], r, n) BY <1>5, <1>7, <1>8, <1>9
<1>12. Expected(Tier[i], r) \in Nat
  <2>1. Min({own, q.max_tokens}) = IF own <= q.max_tokens THEN own ELSE q.max_tokens BY <1>1, <1>4, MinOfTwo DEF own
  <2> QED BY <1>1, <1>4, <1>6, <2>1 DEF own
<1>13. CostOf(i, r) \in Nat /\ WorstCase(i, r) \in Nat BY <1>1, <1>4, <1>10 DEF CostOf, WorstCase, own, q
<1> QED BY <1>4, <1>10, <1>11, <1>12, <1>13 DEF own

\* What an instance is asked for costs no more than the budget, but for the one token that is always asked for.
LEMMA ClampIs ==
  ASSUME Typed, NEW r \in Requests, NEW i \in Instances
  PROVE  /\ Clamp(Tier[i], r) \in Nat \ {0}
         /\ request[r].budget > 0 =>
              Clamp(Tier[i], r) = 1 \/ Cost(Tier[i], r, Clamp(Tier[i], r)) <= request[r].budget
<1> DEFINE q == request[r]
           out == Price[Tier[i]].cost_out
           prompt == q.prompt_tokens * Price[Tier[i]].cost_in
           rest == q.budget - prompt
           n == rest \div out
           can == Affordable(Tier[i], r)
           clamp == Clamp(Tier[i], r)
<1>1. q.prompt_tokens \in Nat /\ q.max_tokens \in Nat \ {0} /\ q.budget \in Nat BY RequestIs
<1>2. Tier[i] \in Tiers /\ Price[Tier[i]].cost_in \in Nat /\ out \in Nat \ {0} BY InstancesAre
<1>3. prompt \in Nat BY <1>1, <1>2, Products
<1>4. can = IF rest <= 0 THEN 1 ELSE Max({1, n}) BY DEF Affordable
<1>5. clamp = IF q.budget = 0 THEN q.max_tokens ELSE Min({q.max_tokens, can}) BY DEF Clamp
<1>6. Cost(Tier[i], r, clamp) = prompt + clamp * out BY DEF Cost
<1> HIDE DEF q, out, prompt, can, clamp
<1>7. rest > 0 => n \in Nat /\ out * n <= rest
  <2>1. rest \in Int BY <1>1, <1>3
  <2> HIDE DEF rest
  <2> QED BY <1>2, <2>1, Quotients
<1>8. can \in Nat \ {0} /\ (can = 1 \/ (rest > 0 /\ can = n))
  <2> HIDE DEF rest, n
  <2>1. n \in Nat => Max({1, n}) = IF 1 >= n THEN 1 ELSE n BY MaxOfTwo
  <2> QED BY <1>1, <1>3, <1>4, <1>7, <2>1 DEF rest
<1>9. clamp \in Nat \ {0} /\ (q.budget > 0 => clamp <= can)
  <2>1. Min({q.max_tokens, can}) = IF q.max_tokens <= can THEN q.max_tokens ELSE can BY <1>1, <1>8, MinOfTwo
  <2> QED BY <1>1, <1>5, <1>8, <2>1
<1>10. ASSUME q.budget > 0 PROVE clamp = 1 \/ prompt + clamp * out <= q.budget
  <2>1. CASE can = 1 BY <1>8, <1>9, <1>10, <2>1
  <2>2. CASE rest > 0 /\ can = n
    <3>1. clamp * out <= n * out /\ clamp * out \in Nat /\ n * out \in Nat
      <4>1. n \in Nat /\ clamp \in Nat /\ clamp <= n /\ out \in Nat BY <1>2, <1>7, <1>9, <1>10, <2>2
      <4> HIDE DEF n
      <4> QED BY <4>1, Products
    <3>2. n * out = out * n
      <4>1. n \in Nat /\ out \in Nat BY <1>2, <1>7, <2>2
      <4> HIDE DEF n
      <4> QED BY <4>1
    <3> HIDE DEF n
    <3> QED BY <1>1, <1>3, <1>7, <2>2, <3>1, <3>2
  <2> QED BY <1>8, <2>1, <2>2
<1> QED BY <1>6, <1>9, <1>10 DEF q, clamp

\* The largest and the smallest of the values of a function on a finite set.
LEMMA ExtremesAre ==
  ASSUME NEW S, IsFiniteSet(S), S # {}, NEW f, \A x \in S : f[x] \in Nat, NEW T, T = {f[x] : x \in S}
  PROVE  /\ Max(T) \in T /\ Max(T) \in Nat /\ \A x \in S : f[x] <= Max(T)
         /\ Min(T) \in T /\ Min(T) \in Nat /\ \A x \in S : Min(T) <= f[x]
         /\ Min(T) <= Max(T)
<1>1. IsFiniteSet(T) BY ImageIsFinite
<1>2. T # {} /\ (\A y \in T : y \in Nat) /\ \A x \in S : f[x] \in T OBVIOUS
<1>3. \A y \in T : y \in Int BY <1>2
<1>4. Max(T) \in T /\ \A y \in T : y <= Max(T) BY <1>1, <1>2, <1>3, MaxIs
<1>5. Min(T) \in T /\ \A y \in T : Min(T) <= y BY <1>1, <1>2, <1>3, MinIs
<1> QED BY <1>2, <1>4, <1>5

LEMMA CandidatesAre ==
  ASSUME Typed, NEW r \in Requests
  PROVE  /\ Candidates(r) \subseteq Instances /\ Candidates(r) # {} /\ IsFiniteSet(Candidates(r))
         /\ Cheapest(r) # {}
<1>1. IsFiniteSet(Instances) /\ Instances # {} BY InstancesAre
<1>2. Cheapest(r) # {}
  <2> DEFINE f == [i \in Instances |-> WorstCase(i, r)]
             T == {f[i] : i \in Instances}
  <2>1. \A i \in Instances : f[i] \in Nat BY CostsAre
  <2>2. Min(T) \in T /\ \A i \in Instances : Min(T) <= f[i]
    <3> HIDE DEF f
    <3>1. T = {f[i] : i \in Instances} OBVIOUS
    <3> HIDE DEF T
    <3> QED BY <1>1, <2>1, <3>1, ExtremesAre
  <2>3. PICK i \in Instances : Min(T) = f[i] BY <2>2
  <2>4. \A j \in Instances : WorstCase(i, r) <= WorstCase(j, r) BY <2>2, <2>3
  <2>5. i \in Cheapest(r) BY <2>4 DEF Cheapest
  <2> QED BY <2>5
<1>3. Admitted(r) \subseteq Instances /\ Cheapest(r) \subseteq Instances BY DEF Admitted, Cheapest
<1>4. Candidates(r) \subseteq Instances /\ Candidates(r) # {} BY <1>1, <1>2, <1>3 DEF Candidates
<1>5. IsFiniteSet(Candidates(r)) BY <1>1, <1>4, FS_Subset
<1> QED BY <1>2, <1>4, <1>5

LEMMA LoadsAre ==
  ASSUME Typed, HeadsPredict, NEW r \in Requests, NEW i \in Instances, NEW s \in Loads
  PROVE  /\ Served(cfg.latency, Tier[i], s, request[r].length, request[r].prompt_tokens)
         /\ LatencyIn(i, r, s) \in Nat
         /\ LatencyIn(i, r, s) > 0 \/ (~cfg.latency.prefill /\ cfg.latency.envelope # "queue_aware"
                                        /\ OwnLength(Tier[i], r) = 0)
<1> DEFINE q == request[r]
           t == Tier[i]
           l == cfg.latency
<1>1. /\ q.prompt_tokens \in Nat /\ IsFiniteSet(Estimated(r)) /\ Models \subseteq Estimated(r)
      /\ q.length \in [Estimated(r) -> Nat]
  BY RequestIs
<1>2. t \in Tiers /\ Model[t] \in Models BY InstancesAre
<1>3. LatencyOK(l) BY DEF Typed
<1>4. DOMAIN q.length = Estimated(r) BY DEF Estimated
<1>5. Served(l, t, s, q.length, q.prompt_tokens) BY <1>1, <1>2, <1>3, <1>4 DEF Served
<1>6. LatencyIn(i, r, s) = Latency(l, t, s, q.length, q.prompt_tokens) BY DEF LatencyIn
<1>7. q.length[Model[t]] = OwnLength(t, r) BY DEF OwnLength
<1> HIDE DEF q, t, l
<1>8. /\ Latency(l, t, s, q.length, q.prompt_tokens) \in Nat
      /\ Latency(l, t, s, q.length, q.prompt_tokens) > 0
         \/ (~l.prefill /\ l.envelope # "queue_aware" /\ q.length[Model[t]] = 0)
  BY <1>5, LatencyIs
<1> QED BY <1>5, <1>6, <1>7, <1>8 DEF q, t, l

LEMMA IdleIs == Idle \in Loads /\ \A s \in Loads : Lighter(Idle, s)
<1>1. Idle \in Loads /\ Idle.running = 0 /\ Idle.waiting = 0 BY DEF Idle, Loads
<1>2. ASSUME NEW s \in Loads PROVE Lighter(Idle, s)
  <2>1. s.running \in Nat /\ s.waiting \in Nat BY DEF Loads
  <2>2. PendingPerSlot(s) \in Nat /\ PendingPerSlot(Idle) = 0 BY PendingIs
  <2> QED BY <1>1, <2>1, <2>2 DEF Lighter
<1> QED BY <1>1, <1>2

LEMMA LatenciesAre ==
  ASSUME Typed, HeadsPredict, NEW r \in Requests, NEW i \in Instances
  PROVE  /\ LatencyOf(i, r) \in Nat /\ Unloaded(i, r) \in Nat
         /\ \/ LatencyOf(i, r) > 0 /\ Unloaded(i, r) > 0
            \/ (~cfg.latency.prefill /\ cfg.latency.envelope # "queue_aware" /\ OwnLength(Tier[i], r) = 0)
         /\ cfg.latency.source # "xgboost" => Unloaded(i, r) <= LatencyOf(i, r)
<1>1. state[i] \in Loads BY DEF Typed
<1>2. Idle \in Loads /\ Lighter(Idle, state[i]) BY <1>1, IdleIs
<1>3. /\ LatencyIn(i, r, state[i]) \in Nat
      /\ LatencyIn(i, r, state[i]) > 0 \/ (~cfg.latency.prefill /\ cfg.latency.envelope # "queue_aware"
                                        /\ OwnLength(Tier[i], r) = 0)
  BY <1>1, LoadsAre
<1>4. /\ LatencyIn(i, r, Idle) \in Nat
      /\ LatencyIn(i, r, Idle) > 0 \/ (~cfg.latency.prefill /\ cfg.latency.envelope # "queue_aware"
                                        /\ OwnLength(Tier[i], r) = 0)
  BY <1>2, LoadsAre
<1>5. cfg.latency.source # "xgboost" => LatencyIn(i, r, Idle) <= LatencyIn(i, r, state[i])
  <2> DEFINE lengths == request[r].length
             n == request[r].prompt_tokens
             l == cfg.latency
             t == Tier[i]
             s == state[i]
  <2>1. Served(l, t, s, lengths, n) BY <1>1, LoadsAre
  <2>2. /\ LatencyIn(i, r, Idle) = Latency(l, t, Idle, lengths, n)
        /\ LatencyIn(i, r, s) = Latency(l, t, s, lengths, n)
    BY DEF LatencyIn
  <2>3. Lighter(Idle, s) BY <1>2
  <2> HIDE DEF lengths, n, l, t, s
  <2>4. l.source # "xgboost" => Latency(l, t, Idle, lengths, n) <= Latency(l, t, s, lengths, n)
    BY <1>2, <2>1, <2>3, LatencyGrows
  <2> QED BY <2>2, <2>4 DEF l, s
<1> QED BY <1>3, <1>4, <1>5 DEF LatencyOf, Unloaded

-----------------------------------------------------------------------------
(* The scales, the terms and the score *)

LEMMA LRunIs ==
  ASSUME Typed, HeadsPredict, NEW r \in Requests
  PROVE  /\ LRun(r) \in Nat /\ l_run <= LRun(r) /\ \A i \in Candidates(r) : LatencyOf(i, r) <= LRun(r)
         /\ LRun(r) = l_run \/ \E i \in Candidates(r) : LRun(r) = LatencyOf(i, r)
<1> DEFINE C == Candidates(r)
           f == [i \in C |-> LatencyOf(i, r)]
           L == {LatencyOf(i, r) : i \in C}
           S == {l_run} \cup L
<1>1. C \subseteq Instances /\ IsFiniteSet(C) BY CandidatesAre
<1>2. \A i \in C : LatencyOf(i, r) \in Nat BY <1>1, LatenciesAre
<1>3. l_run \in Nat BY DEF Typed
<1>4. LRun(r) = Max(S) BY DEF LRun
<1>5. IsFiniteSet(L)
  <2>1. L = {f[i] : i \in C} OBVIOUS
  <2> HIDE DEF L, f, C
  <2> QED BY <1>1, <2>1, ImageIsFinite
<1>6. \A x \in S : x \in Nat BY <1>2, <1>3
<1>7. l_run \in S /\ \A i \in C : LatencyOf(i, r) \in S OBVIOUS
<1>8. \A x \in S : x = l_run \/ \E i \in C : x = LatencyOf(i, r) OBVIOUS
<1> HIDE DEF L, C
<1>9. IsFiniteSet(S)
  <2>1. \A x : IsFiniteSet({x}) BY FS_Singleton
  <2>2. IsFiniteSet({l_run}) BY <2>1
  <2> QED BY <1>5, <2>2, FS_Union
<1> HIDE DEF S
<1>10. \A x \in S : x \in Int BY <1>6
<1>11. Max(S) \in S /\ \A x \in S : x <= Max(S) BY <1>7, <1>9, <1>10, MaxIs
<1> QED BY <1>4, <1>6, <1>7, <1>8, <1>11 DEF C

LEMMA ScopeIs ==
  ASSUME Typed, NEW r \in Requests
  PROVE  /\ IsFiniteSet(Scope(r)) /\ Scope(r) # {} /\ Scope(r) \subseteq Requests \X Instances
         /\ \A i \in Candidates(r) : <<r, i>> \in Own(r) /\ <<r, i>> \in Scope(r)
         /\ \A x \in Own(r) : x[1] = r /\ x[2] \in Candidates(r)
         /\ IsFiniteSet(Own(r)) /\ Own(r) # {}
<1>1. Candidates(r) \subseteq Instances /\ Candidates(r) # {} BY CandidatesAre
<1>2. Own(r) \subseteq Requests \X Instances /\ (\A i \in Candidates(r) : <<r, i>> \in Own(r))
      /\ \A x \in Own(r) : x[1] = r /\ x[2] \in Candidates(r)
  BY <1>1 DEF Own
<1>3. Scope(r) \subseteq Requests \X Instances /\ Own(r) \subseteq Scope(r) BY <1>2 DEF Scope
<1>4. IsFiniteSet(Requests \X Instances)
  <2>1. IsFiniteSet(Requests) /\ IsFiniteSet(Instances) BY InstancesAre
  <2> QED BY <2>1, FS_Product
<1>5. IsFiniteSet(Scope(r)) BY <1>3, <1>4, FS_Subset
<1>6. IsFiniteSet(Own(r)) BY <1>2, <1>4, FS_Subset
<1> QED BY <1>1, <1>2, <1>3, <1>5, <1>6

\* The scales are numbers, and they cover every candidate: score() refuses none.
LEMMA ScalesAre ==
  ASSUME Typed, HeadsPredict, NEW r \in Requests
  PROVE  /\ Scales(r).q_min \in Nat /\ Scales(r).q_max \in Nat /\ Scales(r).q_min <= Scales(r).q_max
         /\ Scales(r).c_max \in Nat /\ Scales(r).l_max \in Nat
         /\ Covers(Scales(r), r)
<1> DEFINE D == Scope(r)
           O == Own(r)
           q == [x \in D |-> Quality(x[2], x[1])]
           c == [x \in D |-> CostOf(x[2], x[1])]
           l == [x \in O |-> LatencyOf(x[2], r)]
           Q == {Quality(x[2], x[1]) : x \in D}
           C == {CostOf(x[2], x[1]) : x \in D}
           L == {LatencyOf(x[2], r) : x \in O}
<1>1. /\ IsFiniteSet(D) /\ D # {} /\ D \subseteq Requests \X Instances /\ IsFiniteSet(O) /\ O # {}
      /\ \A i \in Candidates(r) : <<r, i>> \in D /\ <<r, i>> \in O
      /\ \A x \in O : x[2] \in Candidates(r)
  BY ScopeIs
<1>2. \A x \in D : x[1] \in Requests /\ x[2] \in Instances BY <1>1
<1>3. Candidates(r) \subseteq Instances BY CandidatesAre
<1>4. \A x \in D : q[x] \in Nat /\ c[x] \in Nat BY <1>2, CostsAre
<1>5. \A x \in O : l[x] \in Nat BY <1>1, <1>3, LatenciesAre
<1>6. Q = {q[x] : x \in D} /\ C = {c[x] : x \in D} /\ L = {l[x] : x \in O} OBVIOUS
<1>7. \A i \in Candidates(r) :
        q[<<r, i>>] = Quality(i, r) /\ c[<<r, i>>] = CostOf(i, r) /\ l[<<r, i>>] = LatencyOf(i, r)
  BY <1>1
<1>8. /\ Scales(r).q_min = Min(Q) /\ Scales(r).q_max = Max(Q) /\ Scales(r).c_max = Max(C)
      /\ Scales(r).l_max = IF cfg.over = "round" THEN LRun(r) ELSE Max(L)
  BY DEF Scales
<1> HIDE DEF D, O, q, c, l, Q, C, L
<1>9. Min(Q) \in Nat /\ Max(Q) \in Nat /\ Min(Q) <= Max(Q) /\ \A x \in D : Min(Q) <= q[x] /\ q[x] <= Max(Q)
  BY <1>1, <1>4, <1>6, ExtremesAre
<1>10. Max(C) \in Nat /\ \A x \in D : c[x] <= Max(C) BY <1>1, <1>4, <1>6, ExtremesAre
<1>11. Max(L) \in Nat /\ \A x \in O : l[x] <= Max(L) BY <1>1, <1>5, <1>6, ExtremesAre
<1>12. LRun(r) \in Nat /\ \A i \in Candidates(r) : LatencyOf(i, r) <= LRun(r) BY LRunIs
<1>13. \A i \in Candidates(r) :
         /\ Scales(r).q_min <= Quality(i, r) /\ Quality(i, r) <= Scales(r).q_max
         /\ CostOf(i, r) <= Scales(r).c_max
         /\ LatencyOf(i, r) <= Scales(r).l_max
  BY <1>1, <1>7, <1>8, <1>9, <1>10, <1>11, <1>12
<1> QED BY <1>8, <1>9, <1>10, <1>11, <1>12, <1>13 DEF Covers

LEMMA Strictly ==
  /\ \A a, b \in Nat, c \in Nat \ {0} : a < b => a * c < b * c /\ c * a < c * b
  /\ \A a, b, c \in Nat : a * (b * c) = (a * b) * c
OBVIOUS

\* Of two multiples that are equal, the larger is that of the smaller number.
LEMMA Multiples ==
  ASSUME NEW a \in Nat \ {0}, NEW b \in Nat \ {0}, NEW k \in Nat, NEW m \in Nat, a * k = b * m
  PROVE  /\ a <= b => m <= k
         /\ a < b /\ m # 0 => m < k
<1>1. a * k \in Nat /\ b * m \in Nat /\ b * k \in Nat /\ a * m \in Nat BY Products
<1>2. ASSUME a <= b, k < m PROVE FALSE
  <2>1. a * k <= b * k BY <1>2, Products
  <2>2. b * k < b * m BY <1>2, Strictly
  <2> QED BY <1>1, <2>1, <2>2
<1>3. ASSUME a < b, m # 0, k <= m PROVE FALSE
  <2>1. a * m < b * m BY <1>3, Strictly
  <2>2. a * k <= a * m BY <1>3, Products
  <2> QED BY <1>1, <2>1, <2>2
<1> QED BY <1>2, <1>3

Lats(r) == Product([l \in {LatencyOf(j, r) : j \in Candidates(r)} |-> l])

Ref(r) == Min({Unloaded(j, r) : j \in Candidates(r)})

\* fixed_ref: a common multiple of the latencies, and the one reference.
LEMMA ReferenceIs ==
  ASSUME Typed, HeadsPredict, NEW r \in Requests, Positive(r)
  PROVE  /\ Lats(r) \in Nat \ {0}
         /\ \A i \in Candidates(r) :
              /\ LatencyOf(i, r) \in Nat \ {0} /\ Lats(r) \div LatencyOf(i, r) \in Nat \ {0}
              /\ LatencyOf(i, r) * (Lats(r) \div LatencyOf(i, r)) = Lats(r)
         /\ cfg.normalization = "fixed_ref" => Ref(r) \in Nat \ {0} /\ \A i \in Candidates(r) : Ref(r) <= Unloaded(i, r)
<1> DEFINE C == Candidates(r)
           f == [i \in C |-> LatencyOf(i, r)]
           L == {LatencyOf(i, r) : i \in C}
           g == [l \in L |-> l]
           h == [i \in C |-> Unloaded(i, r)]
           U == {Unloaded(i, r) : i \in C}
<1>1. C \subseteq Instances /\ IsFiniteSet(C) /\ C # {} BY CandidatesAre
<1>2. \A i \in C : LatencyOf(i, r) \in Nat \ {0} /\ Unloaded(i, r) \in Nat BY <1>1, LatenciesAre DEF Positive
<1>3. cfg.normalization = "fixed_ref" => \A i \in C : Unloaded(i, r) > 0 BY DEF Positive
<1>4. IsFiniteSet(L)
  <2>1. L = {f[i] : i \in C} OBVIOUS
  <2> HIDE DEF L, f, C
  <2> QED BY <1>1, <2>1, ImageIsFinite
<1>5. DOMAIN g = L /\ \A l \in L : g[l] = l /\ l \in Nat \ {0} BY <1>2
<1>6. Lats(r) = Product(g) BY DEF Lats
<1>7. \A i \in C : LatencyOf(i, r) \in L OBVIOUS
<1>8. Product(g) \in Nat \ {0} /\ \A l \in L : \E k \in Nat \ {0} : Product(g) = l * k
  <2> HIDE DEF L, g, C
  <2>1. IsFiniteSet(DOMAIN g) /\ \A l \in DOMAIN g : g[l] \in Nat \ {0} BY <1>4, <1>5
  <2> QED BY <1>5, <2>1, ProductIs
<1>9. ASSUME NEW i \in C
      PROVE  Lats(r) \div LatencyOf(i, r) \in Nat \ {0} /\ LatencyOf(i, r) * (Lats(r) \div LatencyOf(i, r)) = Lats(r)
  <2> HIDE DEF L, g
  <2> DEFINE a == LatencyOf(i, r)
             p == Lats(r)
  <2>1. a \in Nat \ {0} BY <1>2
  <2>2. \E k \in Nat \ {0} : p = a * k BY <1>6, <1>7, <1>8
  <2> HIDE DEF a, p
  <2>3. PICK k \in Nat \ {0} : p = a * k BY <2>2
  <2>4. p \div a = k BY <2>1, <2>3, Quotients
  <2> QED BY <2>3, <2>4 DEF a, p
<1>10. ASSUME cfg.normalization = "fixed_ref"
       PROVE  Ref(r) \in Nat \ {0} /\ \A i \in C : Ref(r) <= Unloaded(i, r)
  <2>1. U = {h[i] : i \in C} /\ (\A i \in C : h[i] \in Nat /\ h[i] = Unloaded(i, r)) BY <1>2
  <2>2. Ref(r) = Min(U) BY DEF Ref
  <2>3. \A u \in U : u > 0 BY <1>3, <1>10
  <2> HIDE DEF U, h, C
  <2>4. Min(U) \in U /\ Min(U) \in Nat /\ \A i \in C : Min(U) <= h[i] BY <1>1, <2>1, ExtremesAre
  <2> QED BY <2>1, <2>2, <2>3, <2>4
<1> QED BY <1>2, <1>6, <1>8, <1>9, <1>10

TermsOf(i, r) == Terms(i, r, Scales(r))

\* A candidate's terms are numbers; all candidates share their denominators.
LEMMA TermsAre ==
  ASSUME Typed, HeadsPredict, NEW r \in Requests, Positive(r), NEW i \in Candidates(r)
  PROVE  /\ TermsOf(i, r).quality = [num |-> Quality(i, r) - Scales(r).q_min,
                                     den |-> Scales(r).q_max - Scales(r).q_min + 1]
         /\ TermsOf(i, r).cost = [num |-> (Scales(r).c_max + 1) - CostOf(i, r), den |-> Scales(r).c_max + 1]
         /\ TermsOf(i, r).latency =
              IF cfg.normalization = "fixed_ref" THEN [num |-> Ref(r) * (Lats(r) \div LatencyOf(i, r)), den |-> Lats(r)]
              ELSE [num |-> (Scales(r).l_max + 1) - LatencyOf(i, r), den |-> Scales(r).l_max + 1]
         /\ TermsOf(i, r).quality.num \in Nat /\ TermsOf(i, r).quality.den \in Nat \ {0}
         /\ TermsOf(i, r).cost.num \in Nat /\ TermsOf(i, r).cost.den \in Nat \ {0}
         /\ TermsOf(i, r).latency.num \in Nat /\ TermsOf(i, r).latency.den \in Nat \ {0}
<1> DEFINE s == Scales(r)
<1>1. s.q_min \in Nat /\ s.q_max \in Nat /\ s.q_min <= s.q_max /\ s.c_max \in Nat /\ s.l_max \in Nat BY ScalesAre
<1>2. Covers(s, r) BY ScalesAre
<1>3. s.q_min <= Quality(i, r) /\ Quality(i, r) <= s.q_max /\ CostOf(i, r) <= s.c_max /\ LatencyOf(i, r) <= s.l_max
  BY <1>2 DEF Covers
<1>4. i \in Instances BY CandidatesAre
<1>5. Quality(i, r) \in Nat /\ CostOf(i, r) \in Nat /\ LatencyOf(i, r) \in Nat BY <1>4, CostsAre, LatenciesAre
<1>6. /\ TermsOf(i, r).quality = [num |-> Quality(i, r) - s.q_min, den |-> s.q_max - s.q_min + 1]
      /\ TermsOf(i, r).cost = [num |-> (s.c_max + 1) - CostOf(i, r), den |-> s.c_max + 1]
      /\ TermsOf(i, r).latency =
              IF cfg.normalization = "fixed_ref" THEN [num |-> Ref(r) * (Lats(r) \div LatencyOf(i, r)), den |-> Lats(r)]
              ELSE [num |-> (s.l_max + 1) - LatencyOf(i, r), den |-> s.l_max + 1]
  <2>1. TermsOf(i, r) = Terms(i, r, s) BY DEF TermsOf
  <2> HIDE DEF s
  <2>2. Terms(i, r, s).quality = [num |-> Quality(i, r) - s.q_min, den |-> s.q_max - s.q_min + 1] BY DEF Terms
  <2>3. Terms(i, r, s).cost = [num |-> (s.c_max + 1) - CostOf(i, r), den |-> s.c_max + 1] BY DEF Terms
  <2>4. Terms(i, r, s).latency =
          IF cfg.normalization = "fixed_ref" THEN [num |-> Ref(r) * (Lats(r) \div LatencyOf(i, r)), den |-> Lats(r)]
          ELSE [num |-> (s.l_max + 1) - LatencyOf(i, r), den |-> s.l_max + 1]
    BY DEF Terms, Lats, Ref
  <2> QED BY <2>1, <2>2, <2>3, <2>4
<1> DEFINE t == TermsOf(i, r)
<1> HIDE DEF s, t
<1>7. t.quality.num \in Nat /\ t.quality.den \in Nat \ {0} BY <1>1, <1>3, <1>5, <1>6 DEF t
<1>8. t.cost.num \in Nat /\ t.cost.den \in Nat \ {0} BY <1>1, <1>3, <1>5, <1>6 DEF t
<1>9. t.latency.num \in Nat /\ t.latency.den \in Nat \ {0}
  <2>1. CASE cfg.normalization = "fixed_ref"
    <3> DEFINE k == Lats(r) \div LatencyOf(i, r)
               R == Ref(r)
    <3>1. R \in Nat /\ k \in Nat /\ Lats(r) \in Nat \ {0} BY <2>1, ReferenceIs
    <3>2. t.latency = [num |-> R * k, den |-> Lats(r)] BY <1>6, <2>1 DEF t
    <3> HIDE DEF k, R
    <3>3. R * k \in Nat BY <3>1, Products
    <3> QED BY <3>1, <3>2, <3>3
  <2>2. CASE cfg.normalization # "fixed_ref" BY <1>1, <1>3, <1>5, <1>6, <2>2 DEF t
  <2> QED BY <2>1, <2>2
<1> QED BY <1>6, <1>7, <1>8, <1>9 DEF s, t

TermIs(t) ==
  /\ t.quality.num \in Nat /\ t.quality.den \in Nat \ {0}
  /\ t.cost.num \in Nat /\ t.cost.den \in Nat \ {0}
  /\ t.latency.num \in Nat /\ t.latency.den \in Nat \ {0}

LEMMA ProductGrows ==
  ASSUME NEW w \in Nat, NEW x \in Nat, NEW y \in Nat, x <= y, NEW d \in Nat \ {0}, NEW e \in Nat \ {0}
  PROVE  /\ w * x * d * e \in Nat /\ w * y * d * e \in Nat
         /\ w * x * d * e <= w * y * d * e
         /\ w > 0 /\ x < y => w * x * d * e < w * y * d * e
<1>1. w * x \in Nat /\ w * y \in Nat /\ w * x <= w * y /\ (w > 0 /\ x < y => w * x < w * y) BY Products, Strictly
<1> DEFINE a == w * x
           b == w * y
<1> HIDE DEF a, b
<1>2. a \in Nat /\ b \in Nat /\ a <= b BY <1>1 DEF a, b
<1>3. a * d \in Nat /\ b * d \in Nat /\ a * d <= b * d /\ (a < b => a * d < b * d) BY <1>2, Products, Strictly
<1> DEFINE f == a * d
           g == b * d
<1> HIDE DEF f, g
<1>4. f \in Nat /\ g \in Nat /\ f <= g BY <1>3 DEF f, g
<1>5. f * e \in Nat /\ g * e \in Nat /\ f * e <= g * e /\ (f < g => f * e < g * e) BY <1>4, Products, Strictly
<1>6. w > 0 /\ x < y => f < g BY <1>1, <1>3 DEF a, b, f, g
<1> QED BY <1>5, <1>6 DEF a, b, f, g

\* A score is a number; it is no smaller where no term is, and larger where a term with a weight is.
LEMMA ScoreIs ==
  ASSUME Typed, NEW t, NEW u, TermIs(t), TermIs(u),
         t.quality.den = u.quality.den, t.cost.den = u.cost.den, t.latency.den = u.latency.den,
         t.quality.num <= u.quality.num, t.cost.num <= u.cost.num, t.latency.num <= u.latency.num
  PROVE  /\ Score(t) \in Nat /\ Score(u) \in Nat /\ Score(t) <= Score(u)
         /\ \/ Weighted(cfg.w_quality, t.quality.num < u.quality.num)
            \/ Weighted(cfg.w_cost, t.cost.num < u.cost.num)
            \/ Weighted(cfg.w_latency, t.latency.num < u.latency.num)
            => Score(t) < Score(u)
<1> DEFINE tq == cfg.w_quality * t.quality.num * t.cost.den * t.latency.den
           uq == cfg.w_quality * u.quality.num * t.cost.den * t.latency.den
           tc == cfg.w_cost * t.cost.num * t.quality.den * t.latency.den
           uc == cfg.w_cost * u.cost.num * t.quality.den * t.latency.den
           tl == cfg.w_latency * t.latency.num * t.quality.den * t.cost.den
           ul == cfg.w_latency * u.latency.num * t.quality.den * t.cost.den
<1>1. cfg.w_quality \in Nat /\ cfg.w_cost \in Nat /\ cfg.w_latency \in Nat BY RoundAssumption DEF Typed
<1>2. /\ t.quality.num \in Nat /\ t.quality.den \in Nat \ {0} /\ u.quality.num \in Nat
      /\ t.cost.num \in Nat /\ t.cost.den \in Nat \ {0} /\ u.cost.num \in Nat
      /\ t.latency.num \in Nat /\ t.latency.den \in Nat \ {0} /\ u.latency.num \in Nat
  BY DEF TermIs
<1>3. tq \in Nat /\ uq \in Nat /\ tq <= uq /\ (cfg.w_quality > 0 /\ t.quality.num < u.quality.num => tq < uq)
  BY <1>1, <1>2, ProductGrows
<1>4. tc \in Nat /\ uc \in Nat /\ tc <= uc /\ (cfg.w_cost > 0 /\ t.cost.num < u.cost.num => tc < uc)
  BY <1>1, <1>2, ProductGrows
<1>5. tl \in Nat /\ ul \in Nat /\ tl <= ul /\ (cfg.w_latency > 0 /\ t.latency.num < u.latency.num => tl < ul)
  BY <1>1, <1>2, ProductGrows
<1>6. Score(t) = tq + tc + tl BY DEF Score
<1>7. Score(u) = uq + uc + ul BY DEF Score
<1> HIDE DEF tq, uq, tc, uc, tl, ul
<1> QED BY <1>3, <1>4, <1>5, <1>6, <1>7 DEF Weighted

\* Of two candidates, the one that is nowhere worse has the higher score, or the same.
LEMMA ScoredAre ==
  ASSUME Typed, HeadsPredict, NEW r \in Requests, Positive(r), NEW i \in Candidates(r), NEW j \in Candidates(r)
  PROVE  /\ Scored(r)[i].score \in Nat
         /\ Quality(i, r) <= Quality(j, r) /\ CostOf(j, r) <= CostOf(i, r) /\ LatencyOf(j, r) <= LatencyOf(i, r) =>
              /\ Scored(r)[i].score <= Scored(r)[j].score
              /\ \/ Weighted(cfg.w_quality, Quality(i, r) < Quality(j, r))
                 \/ Weighted(cfg.w_cost, CostOf(j, r) < CostOf(i, r))
                 \/ Weighted(cfg.w_latency, LatencyOf(j, r) < LatencyOf(i, r))
                 => Scored(r)[i].score < Scored(r)[j].score
<1> DEFINE t == TermsOf(i, r)
           u == TermsOf(j, r)
           s == Scales(r)
<1>1. Scored(r)[i].score = Score(t) /\ Scored(r)[j].score = Score(u) BY DEF Scored, TermsOf
<1>2. i \in Instances /\ j \in Instances BY CandidatesAre
<1>3. /\ Quality(i, r) \in Nat /\ CostOf(i, r) \in Nat /\ LatencyOf(i, r) \in Nat
      /\ Quality(j, r) \in Nat /\ CostOf(j, r) \in Nat /\ LatencyOf(j, r) \in Nat
  BY <1>2, CostsAre, LatenciesAre
<1>4. s.q_min \in Nat /\ s.c_max \in Nat /\ s.l_max \in Nat BY ScalesAre
<1>5. /\ t.quality = [num |-> Quality(i, r) - s.q_min, den |-> s.q_max - s.q_min + 1]
      /\ t.cost = [num |-> (s.c_max + 1) - CostOf(i, r), den |-> s.c_max + 1]
      /\ t.latency =
              IF cfg.normalization = "fixed_ref" THEN [num |-> Ref(r) * (Lats(r) \div LatencyOf(i, r)), den |-> Lats(r)]
              ELSE [num |-> (s.l_max + 1) - LatencyOf(i, r), den |-> s.l_max + 1]
  BY TermsAre
<1>6. /\ u.quality = [num |-> Quality(j, r) - s.q_min, den |-> s.q_max - s.q_min + 1]
      /\ u.cost = [num |-> (s.c_max + 1) - CostOf(j, r), den |-> s.c_max + 1]
      /\ u.latency =
              IF cfg.normalization = "fixed_ref" THEN [num |-> Ref(r) * (Lats(r) \div LatencyOf(j, r)), den |-> Lats(r)]
              ELSE [num |-> (s.l_max + 1) - LatencyOf(j, r), den |-> s.l_max + 1]
  BY TermsAre
<1>7. TermIs(t) /\ TermIs(u) BY TermsAre DEF TermIs
<1> HIDE DEF t, u, s
<1>8. t.quality.den = u.quality.den /\ t.cost.den = u.cost.den /\ t.latency.den = u.latency.den BY <1>5, <1>6
<1>9. Score(t) \in Nat
  <2>1. t.quality.num <= t.quality.num /\ t.cost.num <= t.cost.num /\ t.latency.num <= t.latency.num BY <1>7 DEF TermIs
  <2>2. t.quality.den = t.quality.den /\ t.cost.den = t.cost.den /\ t.latency.den = t.latency.den OBVIOUS
  <2> QED BY <1>7, <2>1, <2>2, ScoreIs
<1>10. ASSUME Quality(i, r) <= Quality(j, r), CostOf(j, r) <= CostOf(i, r), LatencyOf(j, r) <= LatencyOf(i, r)
       PROVE  /\ Score(t) <= Score(u)
              /\ \/ Weighted(cfg.w_quality, Quality(i, r) < Quality(j, r))
                 \/ Weighted(cfg.w_cost, CostOf(j, r) < CostOf(i, r))
                 \/ Weighted(cfg.w_latency, LatencyOf(j, r) < LatencyOf(i, r))
                 => Score(t) < Score(u)
  <2>1. /\ t.quality.num <= u.quality.num
        /\ Quality(i, r) < Quality(j, r) => t.quality.num < u.quality.num
    BY <1>3, <1>4, <1>5, <1>6, <1>10
  <2>2. /\ t.cost.num <= u.cost.num
        /\ CostOf(j, r) < CostOf(i, r) => t.cost.num < u.cost.num
    BY <1>3, <1>4, <1>5, <1>6, <1>10
  <2>3. /\ t.latency.num <= u.latency.num
        /\ LatencyOf(j, r) < LatencyOf(i, r) => t.latency.num < u.latency.num
    <3>1. CASE cfg.normalization = "fixed_ref"
      <4> DEFINE a == LatencyOf(j, r)
                 b == LatencyOf(i, r)
                 k == Lats(r) \div a
                 m == Lats(r) \div b
      <4>1. /\ a \in Nat \ {0} /\ b \in Nat \ {0} /\ k \in Nat \ {0} /\ m \in Nat \ {0}
            /\ a * k = Lats(r) /\ b * m = Lats(r) /\ Ref(r) \in Nat \ {0}
        BY <3>1, ReferenceIs
      <4>2. t.latency.num = Ref(r) * m /\ u.latency.num = Ref(r) * k BY <1>5, <1>6, <3>1
      <4>3. a <= b BY <1>10
      <4> HIDE DEF k, m
      <4>4. m <= k /\ (a < b => m < k)
        <5> HIDE DEF a, b
        <5> QED BY <4>1, <4>3, Multiples
      <4>5. Ref(r) * m <= Ref(r) * k /\ (a < b => Ref(r) * m < Ref(r) * k)
        <5> HIDE DEF a, b
        <5> QED BY <4>1, <4>4, Products, Strictly
      <4> QED BY <4>2, <4>5
    <3>2. CASE cfg.normalization # "fixed_ref" BY <1>3, <1>4, <1>5, <1>6, <1>10, <3>2
    <3> QED BY <3>1, <3>2
  <2>4. /\ Score(t) <= Score(u)
        /\ \/ Weighted(cfg.w_quality, t.quality.num < u.quality.num)
           \/ Weighted(cfg.w_cost, t.cost.num < u.cost.num)
           \/ Weighted(cfg.w_latency, t.latency.num < u.latency.num)
           => Score(t) < Score(u)
    BY <1>7, <1>8, <2>1, <2>2, <2>3, ScoreIs
  <2> QED BY <2>1, <2>2, <2>3, <2>4 DEF Weighted
<1> QED BY <1>1, <1>9, <1>10

LEMMA PickIs ==
  ASSUME Typed, HeadsPredict, NEW r \in Requests, Positive(r)
  PROVE  /\ Pick(r, Scored(r)) \in Candidates(r)
         /\ \A j \in Candidates(r) : Preferred(Pick(r, Scored(r)), j, Scored(r))
<1> DEFINE C == Candidates(r)
           scored == Scored(r)
           R == {x \in C \X C : Preferred(x[1], x[2], scored)}
<1>1. C \subseteq Instances /\ C # {} /\ IsFiniteSet(C) BY CandidatesAre
<1>2. \A i \in C : i \in Int BY <1>1, InstancesAre
<1>3. \A i \in C : scored[i].score \in Nat BY ScoredAre
<1>4. \A i \in C : QueueDepth(i) \in Nat
  <2>1. \A i \in C : state[i] \in Loads BY <1>1 DEF Typed
  <2> QED BY <2>1 DEF QueueDepth, Loads
<1>5. \A i \in C : last_assigned[i] \in Int
  <2>1. RoundSize \in Nat BY RoundAssumption
  <2>2. \A i \in C : last_assigned[i] \in 0 .. RoundSize BY <1>1 DEF Typed
  <2> QED BY <2>1, <2>2
<1> HIDE DEF C, scored
<1>6. \A i, j \in C : <<i, j>> \in R <=> Preferred(i, j, scored) OBVIOUS
<1>7. \A i, j \in C : Preferred(i, j, scored) \/ Preferred(j, i, scored)
  BY <1>2, <1>3, <1>4, <1>5 DEF Preferred
<1>8. \A i, j, k \in C : Preferred(i, j, scored) /\ Preferred(j, k, scored) => Preferred(i, k, scored)
  BY <1>2, <1>3, <1>4, <1>5 DEF Preferred
<1> HIDE DEF R
<1>9. \E i \in C : \A j \in C : <<i, j>> \in R
  <2>1. \A i, j \in C : <<i, j>> \in R \/ <<j, i>> \in R BY <1>6, <1>7
  <2>2. \A i, j, k \in C : <<i, j>> \in R /\ <<j, k>> \in R => <<i, k>> \in R BY <1>6, <1>8
  <2> QED BY <1>1, <2>1, <2>2, LeastExists
<1>10. \E i \in C : \A j \in C : Preferred(i, j, scored) BY <1>6, <1>9
<1>11. Pick(r, scored) = CHOOSE i \in C : \A j \in C : Preferred(i, j, scored) BY DEF Pick, C
<1>12. Pick(r, scored) \in C /\ \A j \in C : Preferred(Pick(r, scored), j, scored) BY <1>10, <1>11
<1> QED BY <1>12 DEF C, scored

-----------------------------------------------------------------------------
(* The invariant *)

\* A decided request went to one of its candidates, and was clamped for that one.
Kept ==
  \A r \in Decided :
    /\ decided[r].instance \in Candidates(r)
    /\ \A i \in Instances : decided[r].instance = i => decided[r].max_tokens = Clamp(Tier[i], r)
    /\ decided[r].admitted_all = (FilterRuns(r) => Admitted(r) # {})

RoundInv == Typed /\ Kept

LEMMA InitRoundInv == Init => RoundInv
<1> SUFFICES ASSUME Init PROVE RoundInv OBVIOUS
<1>1. DOMAIN <<>> = {} OBVIOUS
<1>2. Decided = {} BY <1>1 DEF Init, Decided
<1>3. state \in [Instances -> Loads] BY RoundAssumption DEF Init
<1>4. last_assigned \in [Instances -> 0 .. RoundSize] BY RoundAssumption DEF Init
<1>5. cfg \in Configs /\ LatencyOK(cfg.latency) /\ EstimatorLoads(cfg.estimator, Models)
      /\ request \in [Requests -> Arriving(cfg.estimator)] /\ l_run \in Nat
  BY DEF Init
<1> QED BY <1>2, <1>3, <1>4, <1>5 DEF RoundInv, Typed, Kept

\* What is asked of a request depends on the configuration and the request alone.
LEMMA SameQuestions ==
  ASSUME cfg' = cfg, request' = request, NEW r
  PROVE  /\ Candidates(r)' = Candidates(r)
         /\ \A t : Clamp(t, r)' = Clamp(t, r)
         /\ FilterRuns(r)' = FilterRuns(r)
         /\ Admitted(r)' = Admitted(r)
<1>1. FilterRuns(r)' = FilterRuns(r) BY DEF FilterRuns
<1>2. Admitted(r)' = Admitted(r) BY DEF Admitted, Cost, Expected, OwnLength
<1>3. Cheapest(r)' = Cheapest(r) BY DEF Cheapest, WorstCase, Cost
<1>4. \A t : Clamp(t, r)' = Clamp(t, r) BY DEF Clamp, Affordable
<1>5. Candidates(r)' = Candidates(r) BY <1>1, <1>2, <1>3 DEF Candidates
<1> QED BY <1>1, <1>2, <1>4, <1>5

\* The largest, the smallest and the mean of the lengths are numbers.
LEMMA LptKeyIs ==
  ASSUME Typed, NEW r \in Requests, NEW lpt
  PROVE  LptKey(r, lpt) \in Nat /\ Cardinality(Estimated(r)) \in Nat \ {0}
         /\ LptKey(r, lpt) \div Cardinality(Estimated(r)) \in Nat
<1> DEFINE f == request[r].length
           E == Estimated(r)
           n == Cardinality(E)
<1>1. IsFiniteSet(E) /\ Models \subseteq E /\ f \in [E -> Nat] BY RequestIs
<1>2. E # {} BY <1>1, InstancesAre
<1>3. DOMAIN f = E BY DEF Estimated
<1>4. n \in Nat \ {0} BY <1>1, <1>2, FS_CardinalityType, FS_EmptySet
<1>5. Lengths(r) = {f[m] : m \in E} BY <1>3 DEF Lengths, Range
<1> HIDE DEF f, E
<1>6. \A m \in E : f[m] \in Nat BY <1>1
<1>7. Min(Lengths(r)) \in Nat /\ Max(Lengths(r)) \in Nat BY <1>1, <1>2, <1>5, <1>6, ExtremesAre
<1>8. SumFunction(f) \in Nat BY <1>1, <1>3, <1>6, SumIs
<1>9. LptKey(r, lpt) = CASE lpt = "min" -> n * Min(Lengths(r))
                         [] lpt = "mean" -> SumFunction(f)
                         [] OTHER -> n * Max(Lengths(r))
  BY DEF LptKey, E, f
<1> HIDE DEF n
<1>10. n * Min(Lengths(r)) \in Nat /\ n * Max(Lengths(r)) \in Nat BY <1>4, <1>7, Products
<1>11. LptKey(r, lpt) \in Nat
  <2>1. CASE lpt = "min" BY <1>9, <1>10, <2>1
  <2>2. CASE lpt = "mean" BY <1>8, <1>9, <2>2
  <2>3. CASE lpt # "min" /\ lpt # "mean" BY <1>9, <1>10, <2>3
  <2> QED BY <2>1, <2>2, <2>3
<1> DEFINE k == LptKey(r, lpt)
<1> HIDE DEF k
<1>12. k \in Nat BY <1>11 DEF k
<1>13. k \div n \in Nat BY <1>4, <1>12, Quotients
<1> QED BY <1>4, <1>11, <1>13 DEF k, n, E

LEMMA TokensAre ==
  ASSUME Typed, NEW r \in Requests, NEW i \in Instances
  PROVE  DecodeTokens(i, r) \in Nat \ {0}
<1> DEFINE a == OwnLength(Tier[i], r)
           b == LptKey(r, cfg.lpt) \div Cardinality(Estimated(r))
<1>1. a \in Nat BY CostsAre
<1>2. b \in Nat BY LptKeyIs
<1>3. DecodeTokens(i, r) = Max({1, a}) \/ DecodeTokens(i, r) = Max({1, b}) BY DEF DecodeTokens
<1> HIDE DEF a, b
<1>4. Max({1, a}) = IF 1 >= a THEN 1 ELSE a BY <1>1, MaxOfTwo
<1>5. Max({1, b}) = IF 1 >= b THEN 1 ELSE b BY <1>2, MaxOfTwo
<1> QED BY <1>1, <1>2, <1>3, <1>4, <1>5

\* What a decision does: it picks, counts the pick, and writes the evidence down.
Evidence(r, i) ==
  [instance |-> i, tokens |-> DecodeTokens(i, r), max_tokens |-> Clamp(Tier[i], r),
   round_pos |-> Cardinality(Decided), lpt_key |-> LptKey(r, cfg.lpt),
   admitted_all |-> FilterRuns(r) => Admitted(r) # {}, scored |-> Scored(r),
   scales |-> IF cfg.over = "round" THEN {Scales(r)} ELSE {}]

LEMMA DecideIs ==
  ASSUME NEW r \in Requests, NEW i, Decide(r), i = Pick(r, Scored(r))
  PROVE  /\ r \notin Decided /\ Positive(r) /\ cfg' = cfg /\ request' = request
         /\ l_run' = IF cfg.over = "round" THEN LRun(r) ELSE l_run
         /\ state' = Counted(i, DecodeTokens(i, r))
         /\ last_assigned' = [last_assigned EXCEPT ![i] = Cardinality(Decided) + 1]
         /\ Decided' = Decided \cup {r}
         /\ decided'[r] = Evidence(r, i) /\ \A q \in Decided : decided'[q] = decided[q]
<1>1. r \notin Decided BY DEF Decide, IsNext
<1>2. /\ Positive(r) /\ cfg' = cfg /\ request' = request
      /\ l_run' = IF cfg.over = "round" THEN LRun(r) ELSE l_run
      /\ state' = Counted(i, DecodeTokens(i, r))
      /\ last_assigned' = [last_assigned EXCEPT ![i] = Cardinality(Decided) + 1]
  BY DEF Decide
<1>3. decided' = [q \in Decided \cup {r} |-> IF q = r THEN Evidence(r, i) ELSE decided[q]] BY DEF Decide, Evidence
<1> DEFINE e == Evidence(r, i)
<1> HIDE DEF e
<1>4. decided' = [q \in Decided \cup {r} |-> IF q = r THEN e ELSE decided[q]] BY <1>3 DEF e
<1>5. Decided' = Decided \cup {r}
  <2>1. Decided' = DOMAIN decided' BY DEF Decided
  <2> QED BY <1>4, <2>1
<1>6. decided'[r] = e /\ \A q \in Decided : decided'[q] = decided[q] BY <1>1, <1>4
<1> QED BY <1>1, <1>2, <1>5, <1>6 DEF e

LEMMA DecideKeepsRoundInv ==
  ASSUME RoundInv, HeadsPredict, NEW r \in Requests, Decide(r)
  PROVE  RoundInv'
<1> DEFINE i == Pick(r, Scored(r))
           n == DecodeTokens(i, r)
<1>1. Typed /\ Kept BY DEF RoundInv
<1>2. /\ r \notin Decided /\ Positive(r) /\ cfg' = cfg /\ request' = request
      /\ l_run' = IF cfg.over = "round" THEN LRun(r) ELSE l_run
      /\ state' = Counted(i, n)
      /\ last_assigned' = [last_assigned EXCEPT ![i] = Cardinality(Decided) + 1]
      /\ Decided' = Decided \cup {r}
      /\ decided'[r] = Evidence(r, i) /\ \A q \in Decided : decided'[q] = decided[q]
  BY DecideIs
<1>3. i \in Candidates(r) BY <1>1, <1>2, PickIs
<1>4. i \in Instances BY <1>1, <1>3, CandidatesAre
<1>5. n \in Nat BY <1>1, <1>4, TokensAre
<1> HIDE DEF i, n
<1>6. Cardinality(Decided) + 1 \in 0 .. RoundSize
  <2>1. IsFiniteSet(Requests) /\ Cardinality(Requests) = RoundSize
    <3>1. RoundSize \in Nat BY RoundAssumption
    <3> QED BY <3>1, FS_Interval DEF Requests
  <2>2. Decided \subseteq Requests BY <1>1 DEF Typed
  <2>3. IsFiniteSet(Decided) BY <2>1, <2>2, FS_Subset
  <2>4. IsFiniteSet(Decided \cup {r}) /\ Cardinality(Decided \cup {r}) = Cardinality(Decided) + 1
    BY <1>2, <2>3, FS_AddElement
  <2>5. Cardinality(Decided \cup {r}) <= RoundSize
    <3> DEFINE D == Decided \cup {r}
    <3>1. D \subseteq Requests BY <2>2
    <3> HIDE DEF D
    <3>2. Cardinality(D) <= Cardinality(Requests) BY <2>1, <3>1, FS_Subset
    <3> QED BY <2>1, <3>2 DEF D
  <2>6. Cardinality(Decided) \in Nat BY <2>3, FS_CardinalityType
  <2>7. RoundSize \in Nat BY RoundAssumption
  <2> QED BY <2>4, <2>5, <2>6, <2>7
<1>7. Typed'
  <2>1. state' \in [Instances -> Loads]
    <3>1. state \in [Instances -> Loads] BY <1>1 DEF Typed
    <3>2. state[i] \in Loads BY <1>4, <3>1
    <3> DEFINE a == state[i]
               s == [running |-> a.running, waiting |-> a.waiting + 1, pending |-> a.pending + n]
    <3>3. s \in Loads
      <4>1. a.running \in Nat /\ a.waiting \in Nat /\ a.pending \in Nat BY <3>2 DEF Loads
      <4> HIDE DEF a
      <4>2. a.waiting + 1 \in Nat /\ a.pending + n \in Nat BY <1>5, <4>1
      <4> QED BY <4>1, <4>2 DEF Loads
    <3>4. state' = [state EXCEPT ![i] = s]
      <4>1. state' = [state EXCEPT ![i].waiting = @ + 1, ![i].pending = @ + n] BY <1>2 DEF Counted
      <4>2. a = [running |-> a.running, waiting |-> a.waiting, pending |-> a.pending] BY <3>2 DEF Loads
      <4> DEFINE once == [state EXCEPT ![i].waiting = @ + 1]
                 first == [running |-> a.running, waiting |-> a.waiting + 1, pending |-> a.pending]
      <4>3. once = [state EXCEPT ![i] = first]
        <5>1. once = [state EXCEPT ![i] = [a EXCEPT !.waiting = @ + 1]] OBVIOUS
        <5>2. [a EXCEPT !.waiting = @ + 1] = first
          <6> HIDE DEF a
          <6> QED BY <4>2
        <5> QED BY <5>1, <5>2
      <4>4. state' = [once EXCEPT ![i] = [once[i] EXCEPT !.pending = @ + n]] BY <4>1
      <4>5. once[i] = first /\ once \in [Instances -> Loads] /\ DOMAIN once = Instances
        <5> HIDE DEF once
        <5>1. first \in Loads
          <6>1. a.running \in Nat /\ a.waiting \in Nat /\ a.pending \in Nat BY <3>2 DEF Loads
          <6> HIDE DEF a
          <6> QED BY <6>1 DEF Loads
        <5> HIDE DEF first
        <5> QED BY <1>4, <3>1, <4>3, <5>1
      <4>6. [first EXCEPT !.pending = @ + n] = s
        <5> HIDE DEF a
        <5> QED OBVIOUS
      <4> HIDE DEF once, first, s, a
      <4>7. state' = [once EXCEPT ![i] = s] BY <4>4, <4>5, <4>6
      <4> QED BY <1>4, <3>1, <4>3, <4>5, <4>7
    <3> HIDE DEF s, a
    <3> QED BY <1>4, <3>1, <3>3, <3>4
  <2>2. last_assigned' \in [Instances -> 0 .. RoundSize] BY <1>1, <1>2, <1>6 DEF Typed
  <2>3. l_run' \in Nat
    <3>1. l_run \in Nat BY <1>1 DEF Typed
    <3>2. LRun(r) \in Nat BY <1>1, LRunIs
    <3> QED BY <1>2, <3>1, <3>2
  <2>4. Decided' \subseteq Requests BY <1>1, <1>2 DEF Typed
  <2>5. (cfg \in Configs /\ LatencyOK(cfg.latency) /\ EstimatorLoads(cfg.estimator, Models)
         /\ request \in [Requests -> Arriving(cfg.estimator)])'
    BY <1>1, <1>2 DEF Typed
  <2> QED BY <2>1, <2>2, <2>3, <2>4, <2>5 DEF Typed
<1>8. Kept'
  <2> SUFFICES ASSUME NEW q \in Decided'
               PROVE  /\ decided'[q].instance \in Candidates(q)'
                      /\ \A j \in Instances : decided'[q].instance = j => decided'[q].max_tokens = Clamp(Tier[j], q)'
                      /\ decided'[q].admitted_all = (FilterRuns(q)' => Admitted(q)' # {})
    BY DEF Kept
  <2>1. Candidates(q)' = Candidates(q) /\ (\A t : Clamp(t, q)' = Clamp(t, q))
        /\ FilterRuns(q)' = FilterRuns(q) /\ Admitted(q)' = Admitted(q)
    BY <1>2, SameQuestions
  <2>2. CASE q = r
    <3>1. decided'[q] = Evidence(q, i) BY <1>2, <2>2
    <3>2. decided'[q].instance = i /\ decided'[q].max_tokens = Clamp(Tier[i], q) BY <3>1 DEF Evidence
    <3>3. decided'[q].admitted_all = (FilterRuns(q) => Admitted(q) # {}) BY <3>1 DEF Evidence
    <3>4. decided'[q].instance \in Candidates(q)' BY <1>3, <2>1, <2>2, <3>2
    <3>5. \A j \in Instances : decided'[q].instance = j => decided'[q].max_tokens = Clamp(Tier[j], q)' BY <2>1, <3>2
    <3>6. decided'[q].admitted_all = (FilterRuns(q)' => Admitted(q)' # {}) BY <2>1, <3>3
    <3> QED BY <3>4, <3>5, <3>6
  <2>3. CASE q # r
    <3>1. q \in Decided /\ decided'[q] = decided[q] BY <1>2, <2>3
    <3>2. decided[q].instance \in Candidates(q) BY <1>1, <3>1 DEF Kept
    <3>3. \A j \in Instances : decided[q].instance = j => decided[q].max_tokens = Clamp(Tier[j], q)
      BY <1>1, <3>1 DEF Kept
    <3>4. decided[q].admitted_all = (FilterRuns(q) => Admitted(q) # {}) BY <1>1, <3>1 DEF Kept
    <3>5. \A j \in Instances : decided'[q].instance = j => decided'[q].max_tokens = Clamp(Tier[j], q)'
      BY <2>1, <3>1, <3>3
    <3>6. decided'[q].admitted_all = (FilterRuns(q)' => Admitted(q)' # {}) BY <2>1, <3>1, <3>4
    <3> QED BY <2>1, <3>1, <3>2, <3>5, <3>6
  <2> QED BY <2>2, <2>3
<1> QED BY <1>7, <1>8 DEF RoundInv

LEMMA StepKeepsRoundInv == ASSUME HeadsPredict, RoundInv, [Next]_vars PROVE RoundInv'
<1>1. ASSUME NEW r \in Requests, Decide(r) PROVE RoundInv' BY <1>1, DecideKeepsRoundInv
<1>2. CASE UNCHANGED vars
  <2>1. /\ cfg' = cfg /\ request' = request /\ state' = state /\ last_assigned' = last_assigned /\ l_run' = l_run
        /\ decided' = decided
    BY <1>2 DEF vars
  <2>2. Decided' = Decided BY <2>1 DEF Decided
  <2>3. Typed' BY <2>1, <2>2 DEF RoundInv, Typed
  <2>4. Kept'
    <3> SUFFICES ASSUME NEW q \in Decided'
                 PROVE  /\ decided'[q].instance \in Candidates(q)'
                        /\ \A j \in Instances : decided'[q].instance = j => decided'[q].max_tokens = Clamp(Tier[j], q)'
                        /\ decided'[q].admitted_all = (FilterRuns(q)' => Admitted(q)' # {})
      BY DEF Kept
    <3>1. Candidates(q)' = Candidates(q) /\ (\A t : Clamp(t, q)' = Clamp(t, q))
          /\ FilterRuns(q)' = FilterRuns(q) /\ Admitted(q)' = Admitted(q)
      BY <2>1, SameQuestions
    <3>2. decided[q].instance \in Candidates(q)
          /\ (\A j \in Instances : decided[q].instance = j => decided[q].max_tokens = Clamp(Tier[j], q))
          /\ decided[q].admitted_all = (FilterRuns(q) => Admitted(q) # {})
      BY <2>2 DEF RoundInv, Kept
    <3> QED BY <2>1, <3>1, <3>2
  <2> QED BY <2>3, <2>4 DEF RoundInv
<1> QED BY <1>1, <1>2 DEF Next

LEMMA AlwaysRoundInv == ASSUME HeadsPredict PROVE Spec => []RoundInv
<1>1. Init => RoundInv BY InitRoundInv
<1>2. RoundInv /\ [Next]_vars => RoundInv' BY StepKeepsRoundInv
<1> QED BY <1>1, <1>2, PTL DEF Spec

LEMMA BudgetsHold == ASSUME RoundInv PROVE BudgetHolds
<1> SUFFICES ASSUME NEW r \in Decided, request[r].budget > 0
             PROVE  LET i == decided[r].instance
                    IN  /\ cfg.admission =>
                             IF decided[r].admitted_all
                             THEN Cost(Tier[i], r, Expected(Tier[i], r)) <= request[r].budget
                             ELSE \A j \in Instances : WorstCase(i, r) <= WorstCase(j, r)
                        /\ decided[r].max_tokens = 1 \/ Cost(Tier[i], r, decided[r].max_tokens) <= request[r].budget
  BY DEF BudgetHolds
<1> DEFINE i == decided[r].instance
<1>1. Typed /\ r \in Requests BY DEF RoundInv, Typed
<1>2. i \in Candidates(r) BY DEF RoundInv, Kept
<1>3. i \in Instances BY <1>1, <1>2, CandidatesAre
<1>4. decided[r].max_tokens = Clamp(Tier[i], r) BY <1>3 DEF RoundInv, Kept
<1>5. decided[r].admitted_all = (FilterRuns(r) => Admitted(r) # {}) BY DEF RoundInv, Kept
<1>6. decided[r].max_tokens = 1 \/ Cost(Tier[i], r, decided[r].max_tokens) <= request[r].budget
  BY <1>1, <1>3, <1>4, ClampIs
<1>7. ASSUME cfg.admission
      PROVE  IF decided[r].admitted_all
             THEN Cost(Tier[i], r, Expected(Tier[i], r)) <= request[r].budget
             ELSE \A j \in Instances : WorstCase(i, r) <= WorstCase(j, r)
  <2>1. FilterRuns(r) BY <1>7 DEF FilterRuns
  <2>2. CASE Admitted(r) # {}
    <3>1. Candidates(r) = Admitted(r) BY <2>1, <2>2 DEF Candidates
    <3>2. Cost(Tier[i], r, Expected(Tier[i], r)) <= request[r].budget BY <1>2, <3>1 DEF Admitted
    <3>3. decided[r].admitted_all BY <1>5, <2>2
    <3> QED BY <3>2, <3>3
  <2>3. CASE Admitted(r) = {}
    <3>1. Candidates(r) = Cheapest(r) BY <2>1, <2>3 DEF Candidates
    <3>2. \A j \in Instances : WorstCase(i, r) <= WorstCase(j, r) BY <1>2, <3>1 DEF Cheapest
    <3>3. ~decided[r].admitted_all BY <1>5, <2>1, <2>3
    <3> QED BY <3>2, <3>3
  <2> QED BY <2>2, <2>3
<1> QED BY <1>6, <1>7

\* With the admission filter a pick's expected cost is within the budget, or no instance's worst case is cheaper; and
\* what the engine is asked for costs no more than the budget, but for the one token that is always asked for
\* (budget.py, and _admitted and _worst_case of assign.py).
THEOREM BudgetAlwaysHolds == HeadsPredict => (Spec => []BudgetHolds)
<1> SUFFICES ASSUME HeadsPredict PROVE Spec => []BudgetHolds OBVIOUS
<1>1. Spec => []RoundInv BY AlwaysRoundInv
<1>2. RoundInv => BudgetHolds BY BudgetsHold
<1> QED BY <1>1, <1>2, PTL

LEMMA RoundIsTyped == ASSUME RoundInv, HeadsPredict PROVE TypeOK
<1>1. /\ cfg \in Configs /\ (\A r \in Requests : request[r] \in Arriving(cfg.estimator))
      /\ state \in [Instances -> Loads]
      /\ last_assigned \in [Instances -> 0 .. RoundSize] /\ l_run \in Nat /\ Decided \subseteq Requests
  BY DEF RoundInv, Typed
<1>2. ASSUME NEW r \in Decided PROVE decided[r].instance \in Instances /\ decided[r].max_tokens \in Nat \ {0}
  <2>1. Typed /\ r \in Requests BY DEF RoundInv, Typed
  <2>2. decided[r].instance \in Instances BY <2>1, CandidatesAre DEF RoundInv, Kept
  <2>3. decided[r].max_tokens = Clamp(Tier[decided[r].instance], r) BY <2>2 DEF RoundInv, Kept
  <2> QED BY <2>1, <2>2, <2>3, ClampIs
<1> QED BY <1>1, <1>2 DEF TypeOK

LEMMA NoneRefused == ASSUME RoundInv, HeadsPredict PROVE NeverRefused
<1>1. Typed BY DEF RoundInv
<1>2. TypeOK BY RoundIsTyped
<1>3. \A r \in Requests : Models \subseteq Estimated(r) BY <1>1, RequestIs
<1>4. \A r \in Requests : Covers(Scales(r), r) BY <1>1, ScalesAre
<1>5. ASSUME NEW r \in Requests, ~Positive(r)
      PROVE  /\ ~cfg.latency.prefill
             /\ cfg.latency.envelope # "queue_aware"
             /\ \E i \in Candidates(r) : OwnLength(Tier[i], r) = 0
  <2>1. PICK i \in Candidates(r) : ~(LatencyOf(i, r) > 0 /\ Unloaded(i, r) > 0) BY <1>5 DEF Positive
  <2>2. i \in Instances BY <1>1, CandidatesAre
  <2> QED BY <1>1, <2>1, <2>2, LatenciesAre
<1> QED BY <1>2, <1>3, <1>4, <1>5 DEF NeverRefused

\* schedule_round and score() refuse no request of a round, but where an expected length of 0 is the whole latency.
THEOREM NoneIsRefused == HeadsPredict => (Spec => []NeverRefused)
<1> SUFFICES ASSUME HeadsPredict PROVE Spec => []NeverRefused OBVIOUS
<1>1. Spec => []RoundInv BY AlwaysRoundInv
<1>2. RoundInv => NeverRefused BY NoneRefused
<1> QED BY <1>1, <1>2, PTL

\* A step decides one request, for its pick.
LEMMA StepIs ==
  ASSUME RoundInv, HeadsPredict, [Next]_vars, NEW r \in Requests, NEW i \in Instances, Step(r, i)
  PROVE  Typed /\ Positive(r) /\ i \in Candidates(r) /\ \A j \in Candidates(r) : Preferred(i, j, Scored(r))
<1>1. Typed BY DEF RoundInv
<1>2. r \notin Decided /\ decided' # decided /\ r \in DOMAIN decided' /\ decided'[r].instance = i BY DEF Step
<1>3. PICK q \in Requests : Decide(q) BY <1>2 DEF Next, vars
<1> DEFINE k == Pick(q, Scored(q))
<1>4. Positive(q) /\ Decided' = Decided \cup {q} /\ decided'[q] = Evidence(q, k) BY <1>3, DecideIs
<1>5. q = r
  <2>1. r \in Decided' BY <1>2 DEF Decided
  <2> QED BY <1>2, <1>4, <2>1
<1>6. i = k BY <1>2, <1>4, <1>5 DEF Evidence
<1>7. k \in Candidates(q) /\ \A j \in Candidates(q) : Preferred(k, j, Scored(q)) BY <1>1, <1>4, PickIs
<1> QED BY <1>1, <1>4, <1>5, <1>6, <1>7

LEMMA NoBetter ==
  ASSUME RoundInv, HeadsPredict, [Next]_vars, NEW r \in Requests, NEW i \in Instances, Step(r, i),
         NEW j \in Candidates(r), Quality(j, r) >= Quality(i, r), CostOf(j, r) <= CostOf(i, r),
         LatencyOf(j, r) <= LatencyOf(i, r)
  PROVE  ~ \/ Weighted(cfg.w_quality, Quality(j, r) > Quality(i, r))
           \/ Weighted(cfg.w_cost, CostOf(j, r) < CostOf(i, r))
           \/ Weighted(cfg.w_latency, LatencyOf(j, r) < LatencyOf(i, r))
<1> DEFINE scored == Scored(r)
<1>1. Typed /\ Positive(r) /\ i \in Candidates(r) /\ Preferred(i, j, scored) BY StepIs
<1>2. j \in Instances BY <1>1, CandidatesAre
<1>3. Quality(i, r) \in Nat /\ Quality(j, r) \in Nat BY <1>1, <1>2, CostsAre
<1>4. Quality(i, r) <= Quality(j, r) /\ (Quality(j, r) > Quality(i, r) <=> Quality(i, r) < Quality(j, r)) BY <1>3
<1>5. /\ scored[i].score \in Nat
      /\ \/ Weighted(cfg.w_quality, Quality(i, r) < Quality(j, r))
         \/ Weighted(cfg.w_cost, CostOf(j, r) < CostOf(i, r))
         \/ Weighted(cfg.w_latency, LatencyOf(j, r) < LatencyOf(i, r))
         => scored[i].score < scored[j].score
  BY <1>1, <1>4, ScoredAre
<1>6. scored[j].score \in Nat BY <1>1, ScoredAre
<1>7. scored[j].score <= scored[i].score
  <2> HIDE DEF scored
  <2>1. scored[i].score > scored[j].score \/ scored[i].score = scored[j].score BY <1>1 DEF Preferred
  <2> QED BY <1>5, <1>6, <2>1
<1> HIDE DEF scored
<1> QED BY <1>4, <1>5, <1>6, <1>7 DEF Weighted

\* No pick is beaten on every count (score.py: score and pick), under either normalization and either scale.
THEOREM NoCandidateIsBetter == HeadsPredict => (Spec => NoBetterCandidate)
<1> SUFFICES ASSUME HeadsPredict PROVE Spec => NoBetterCandidate OBVIOUS
<1> DEFINE Beaten ==
      \A r \in Requests, i \in Instances :
         Step(r, i) =>
           ~\E j \in Candidates(r) :
              /\ Quality(j, r) >= Quality(i, r)
              /\ CostOf(j, r) <= CostOf(i, r)
              /\ LatencyOf(j, r) <= LatencyOf(i, r)
              /\ \/ Weighted(cfg.w_quality, Quality(j, r) > Quality(i, r))
                 \/ Weighted(cfg.w_cost, CostOf(j, r) < CostOf(i, r))
                 \/ Weighted(cfg.w_latency, LatencyOf(j, r) < LatencyOf(i, r))
<1>1. Spec => []RoundInv BY AlwaysRoundInv
<1>2. RoundInv /\ [Next]_vars => [Beaten]_vars BY NoBetter
<1>3. [][Beaten]_vars <=> NoBetterCandidate BY DEF NoBetterCandidate
<1> QED BY <1>1, <1>2, <1>3, PTL DEF Spec

LEMMA TwinIsNoShorter ==
  ASSUME RoundInv, HeadsPredict, [Next]_vars, NEW r \in Requests, NEW i \in Instances, NEW j \in Instances, Step(r, i),
         cfg.latency.source # "xgboost", Tier[i] = Tier[j], state[j].pending <= state[i].pending,
         state[j].running = state[i].running
  PROVE  state[j].waiting >= state[i].waiting
<1> DEFINE scored == Scored(r)
<1>1. Typed /\ Positive(r) /\ i \in Candidates(r) /\ \A x \in Candidates(r) : Preferred(i, x, scored) BY StepIs
<1>2. state[i] \in Loads /\ state[j] \in Loads BY <1>1 DEF Typed
<1>3. /\ state[i].running \in Nat /\ state[i].waiting \in Nat
      /\ state[j].running \in Nat /\ state[j].waiting \in Nat
  BY <1>2 DEF Loads
<1>4. j \in Candidates(r)
  <2>1. i \in Admitted(r) => j \in Admitted(r) BY DEF Admitted
  <2>2. i \in Cheapest(r) => j \in Cheapest(r) BY DEF Cheapest, WorstCase
  <2> QED BY <1>1, <2>1, <2>2 DEF Candidates
<1>5. /\ Quality(i, r) = Quality(j, r) /\ CostOf(i, r) = CostOf(j, r)
      /\ Quality(i, r) \in Nat /\ CostOf(i, r) \in Nat
  BY <1>1, CostsAre DEF Quality, CostOf
<1>6. SUFFICES ASSUME state[j].waiting < state[i].waiting PROVE FALSE BY <1>3
<1>7. LatencyOf(j, r) <= LatencyOf(i, r)
  <2> DEFINE lengths == request[r].length
             n == request[r].prompt_tokens
             l == cfg.latency
             t == Tier[i]
             u == state[j]
             s == state[i]
  <2>1. Served(l, t, s, lengths, n) BY <1>1, <1>2, LoadsAre
  <2>2. LatencyOf(j, r) = Latency(l, t, u, lengths, n) /\ LatencyOf(i, r) = Latency(l, t, s, lengths, n)
    BY DEF LatencyOf, LatencyIn
  <2>3. PendingPerSlot(u) <= PendingPerSlot(s)
    <3>1. u \in Loads /\ s \in Loads /\ u.running = s.running /\ u.pending <= s.pending BY <1>2
    <3> HIDE DEF u, s
    <3> QED BY <3>1, PendingIs
  <2>4. Lighter(u, s) BY <1>3, <1>6, <2>3 DEF Lighter
  <2>5. u \in Loads /\ l.source # "xgboost" BY <1>2
  <2> HIDE DEF lengths, n, l, t, s, u
  <2>6. Latency(l, t, u, lengths, n) <= Latency(l, t, s, lengths, n) BY <2>1, <2>4, <2>5, LatencyGrows
  <2> QED BY <2>2, <2>6
<1>8. scored[i].score \in Nat /\ scored[j].score \in Nat /\ scored[i].score <= scored[j].score
  <2>1. scored[i].score \in Nat /\ scored[j].score \in Nat BY <1>1, <1>4, ScoredAre
  <2>2. Quality(i, r) <= Quality(j, r) /\ CostOf(j, r) <= CostOf(i, r) BY <1>5
  <2>3. scored[i].score <= scored[j].score BY <1>1, <1>4, <1>7, <2>2, ScoredAre
  <2> QED BY <2>1, <2>3
<1>9. Preferred(i, j, scored) BY <1>1, <1>4
<1> HIDE DEF scored
<1>10. QueueDepth(j) < QueueDepth(i) BY <1>3, <1>6 DEF QueueDepth
<1>11. QueueDepth(i) \in Nat /\ QueueDepth(j) \in Nat BY <1>3 DEF QueueDepth
<1> QED BY <1>8, <1>9, <1>10, <1>11 DEF Preferred

\* The picks of a round spread over the instances of a tier: one with a longer queue than its twin's and no less
\* pending work never wins (latency.py, score.py: pick).
THEOREM TwinsAreSpread == HeadsPredict => (Spec => ShorterTwinWins)
<1> SUFFICES ASSUME HeadsPredict PROVE Spec => ShorterTwinWins OBVIOUS
<1> DEFINE Spread ==
      \A r \in Requests, i, j \in Instances :
         Step(r, i) /\ cfg.latency.source # "xgboost" /\ Tier[i] = Tier[j] /\ state[j].pending <= state[i].pending
           /\ state[j].running = state[i].running
           => state[j].waiting >= state[i].waiting
<1>1. Spec => []RoundInv BY AlwaysRoundInv
<1>2. RoundInv /\ [Next]_vars => [Spread]_vars BY TwinIsNoShorter
<1>3. [][Spread]_vars <=> ShorterTwinWins BY DEF ShorterTwinWins
<1> QED BY <1>1, <1>2, <1>3, PTL DEF Spec

-----------------------------------------------------------------------------
(* The gate: the lines of a round *)

\* The line of request r with evidence e.
Noted(r, e) ==
  [request |-> [prompt_tokens |-> request[r].prompt_tokens, max_tokens |-> request[r].max_tokens,
                budget_cost |-> request[r].budget],
   lengths |-> request[r].length, feature_tokens |-> Longest(request[r].length),
   round_size |-> RoundSize, evidence |-> e]

LEMMA LineIs ==
  ASSUME NEW r, NEW e, NEW line, line = Noted(r, e)
  PROVE  /\ line.evidence = e /\ line.lengths = request[r].length /\ line.round_size = RoundSize
         /\ line.feature_tokens = Longest(request[r].length)
         /\ CandidatesOf(line) = DOMAIN e.scored
         /\ Latencies(line) = {e.scored[i].lat : i \in DOMAIN e.scored}
         /\ \A i, n : LineCost(line, i, n) = Cost(Tier[i], r, n)
         /\ \A i : LengthOn(line, i) = OwnLength(Tier[i], r)
         /\ \A i : PredictedCost(line, i) = CostOf(i, r)
         /\ line.request.max_tokens = request[r].max_tokens /\ line.request.budget_cost = request[r].budget
<1>1. /\ line.evidence = e /\ line.lengths = request[r].length /\ line.round_size = RoundSize
      /\ line.feature_tokens = Longest(request[r].length)
      /\ line.request.max_tokens = request[r].max_tokens /\ line.request.budget_cost = request[r].budget
      /\ line.request.prompt_tokens = request[r].prompt_tokens
  BY DEF Noted
<1>2. CandidatesOf(line) = DOMAIN e.scored BY <1>1 DEF CandidatesOf
<1>3. Latencies(line) = {e.scored[i].lat : i \in DOMAIN e.scored} BY <1>1, <1>2 DEF Latencies
<1>4. \A i, n : LineCost(line, i, n) = Cost(Tier[i], r, n) BY <1>1 DEF LineCost, Cost
<1>5. \A i : LengthOn(line, i) = OwnLength(Tier[i], r) BY <1>1 DEF LengthOn, OwnLength
<1>6. \A i : PredictedCost(line, i) = CostOf(i, r) BY <1>4, <1>5 DEF PredictedCost, CostOf
<1> QED BY <1>1, <1>2, <1>3, <1>4, <1>5, <1>6

LEMMA EvidenceIs ==
  ASSUME NEW r, NEW i
  PROVE  /\ Evidence(r, i).instance = i /\ Evidence(r, i).tokens = DecodeTokens(i, r)
         /\ Evidence(r, i).round_pos = Cardinality(Decided) /\ Evidence(r, i).lpt_key = LptKey(r, cfg.lpt)
         /\ Evidence(r, i).admitted_all = (FilterRuns(r) => Admitted(r) # {})
         /\ Evidence(r, i).scored = Scored(r) /\ DOMAIN Scored(r) = Candidates(r)
         /\ Evidence(r, i).scales = IF cfg.over = "round" THEN {Scales(r)} ELSE {}
         /\ \A j \in Candidates(r) :
              /\ Scored(r)[j].lat = LatencyOf(j, r)
              /\ Scored(r)[j].terms = TermsOf(j, r) /\ Scored(r)[j].score = Score(TermsOf(j, r))
<1>1. /\ DOMAIN Scored(r) = Candidates(r)
      /\ \A j \in Candidates(r) :
              /\ Scored(r)[j].lat = LatencyOf(j, r)
              /\ Scored(r)[j].terms = TermsOf(j, r) /\ Scored(r)[j].score = Score(TermsOf(j, r))
  BY DEF Scored, TermsOf
<1>2. /\ Evidence(r, i).instance = i /\ Evidence(r, i).tokens = DecodeTokens(i, r)
      /\ Evidence(r, i).round_pos = Cardinality(Decided) /\ Evidence(r, i).lpt_key = LptKey(r, cfg.lpt)
      /\ Evidence(r, i).scored = Scored(r)
      /\ Evidence(r, i).scales = IF cfg.over = "round" THEN {Scales(r)} ELSE {}
  BY DEF Evidence
<1>3. Evidence(r, i).admitted_all = (FilterRuns(r) => Admitted(r) # {}) BY DEF Evidence
<1> QED BY <1>1, <1>2, <1>3

LEMMA AdmissionFits ==
  ASSUME Typed, NEW r \in Requests, NEW i, NEW line, line = Noted(r, Evidence(r, i))
  PROVE  CandidatesFit(line)
<1> DEFINE cap == line.request.max_tokens
           fits == {j \in Instances : LineCost(line, j, Min({LengthOn(line, j), cap})) <= line.request.budget_cost}
           W == {LineCost(line, j, cap) : j \in Instances}
           cheap == {j \in Instances : LineCost(line, j, cap) = Min(W)}
           all == line.evidence.admitted_all
<1>1. /\ line.evidence = Evidence(r, i)
      /\ CandidatesOf(line) = DOMAIN Evidence(r, i).scored
      /\ \A j, n : LineCost(line, j, n) = Cost(Tier[j], r, n)
      /\ \A j : LengthOn(line, j) = OwnLength(Tier[j], r)
      /\ cap = request[r].max_tokens /\ line.request.budget_cost = request[r].budget
  BY LineIs
<1>2. CandidatesOf(line) = Candidates(r) /\ all = (FilterRuns(r) => Admitted(r) # {})
  <2>1. Evidence(r, i).scored = Scored(r) /\ DOMAIN Scored(r) = Candidates(r) BY EvidenceIs
  <2>2. Evidence(r, i).admitted_all = (FilterRuns(r) => Admitted(r) # {}) BY EvidenceIs
  <2>3. CandidatesOf(line) = Candidates(r) BY <1>1, <2>1
  <2>4. all = Evidence(r, i).admitted_all BY <1>1
  <2> QED BY <2>2, <2>3, <2>4
<1>3. request[r].budget \in Nat BY RequestIs
<1>4. Ran(line) = FilterRuns(r) BY <1>1, <1>3 DEF Ran, FilterRuns
<1>5. fits = Admitted(r) BY <1>1 DEF Admitted, Expected
<1>6. cheap = Cheapest(r)
  <2> DEFINE f == [j \in Instances |-> WorstCase(j, r)]
  <2>1. \A j \in Instances : LineCost(line, j, cap) = f[j] BY <1>1 DEF WorstCase
  <2>2. W = {f[j] : j \in Instances} BY <2>1
  <2>3. \A j \in Instances : f[j] \in Nat BY CostsAre
  <2>4. \A j \in Instances : f[j] = WorstCase(j, r) OBVIOUS
  <2>5. IsFiniteSet(Instances) /\ Instances # {} BY InstancesAre
  <2> HIDE DEF f, W
  <2>6. Min(W) \in W /\ Min(W) \in Nat /\ \A j \in Instances : Min(W) <= f[j] BY <2>2, <2>3, <2>5, ExtremesAre
  <2>7. \A j \in Instances : f[j] = Min(W) <=> \A k \in Instances : f[j] <= f[k]
    <3>1. PICK m \in Instances : Min(W) = f[m] BY <2>2, <2>6
    <3> QED BY <2>3, <2>6, <3>1
  <2>8. cheap = {j \in Instances : f[j] = Min(W)} BY <2>1
  <2>9. Cheapest(r) = {j \in Instances : \A k \in Instances : f[j] <= f[k]} BY <2>4 DEF Cheapest
  <2> QED BY <2>7, <2>8, <2>9
<1>7. Admission(line) = IF fits # {} THEN <<fits, TRUE>> ELSE <<cheap, FALSE>> BY DEF Admission
<1>8. CandidatesFit(line) <=>
        <<CandidatesOf(line), all>> = IF Ran(line) THEN Admission(line) ELSE <<Instances, TRUE>>
  BY DEF CandidatesFit
<1> HIDE DEF cap, fits, W, cheap, all
<1>9. CASE ~FilterRuns(r)
  <2>1. all = TRUE BY <1>2, <1>9
  <2>2. Candidates(r) = Instances BY <1>9 DEF Candidates
  <2> QED BY <1>2, <1>4, <1>8, <1>9, <2>1, <2>2
<1>10. CASE FilterRuns(r) /\ Admitted(r) # {}
  <2>1. all = TRUE BY <1>2, <1>10
  <2>2. Candidates(r) = Admitted(r) BY <1>10 DEF Candidates
  <2> QED BY <1>2, <1>4, <1>5, <1>7, <1>8, <1>10, <2>1, <2>2
<1>11. CASE FilterRuns(r) /\ Admitted(r) = {}
  <2>1. all = FALSE BY <1>2, <1>11
  <2>2. Candidates(r) = Cheapest(r) BY <1>11 DEF Candidates
  <2> QED BY <1>2, <1>4, <1>5, <1>6, <1>7, <1>8, <1>11, <2>1, <2>2
<1> QED BY <1>9, <1>10, <1>11

LEMMA NewScoresFit ==
  ASSUME Typed, HeadsPredict, NEW r \in Requests, Positive(r), NEW i, i = Pick(r, Scored(r)),
         NEW line, line = Noted(r, Evidence(r, i))
  PROVE  ScoresFit(line)
<1> DEFINE scored == Scored(r)
<1>1. line.evidence = Evidence(r, i) /\ CandidatesOf(line) = DOMAIN Evidence(r, i).scored BY LineIs
<1>2. /\ line.evidence.scored = scored /\ line.evidence.instance = i /\ CandidatesOf(line) = Candidates(r)
      /\ \A j \in Candidates(r) : scored[j].score = Score(scored[j].terms)
  <2>1. Evidence(r, i).scored = scored /\ Evidence(r, i).instance = i /\ DOMAIN scored = Candidates(r) BY EvidenceIs
  <2>2. \A j \in Candidates(r) : scored[j].terms = TermsOf(j, r) /\ scored[j].score = Score(TermsOf(j, r))
    BY EvidenceIs
  <2> HIDE DEF scored
  <2> QED BY <1>1, <2>1, <2>2
<1>3. i \in Candidates(r) /\ \A j \in Candidates(r) : Preferred(i, j, scored) BY PickIs
<1>4. \A j \in Candidates(r) : scored[j].score \in Nat BY ScoredAre
<1> HIDE DEF scored
<1>5. \A j \in Candidates(r) : scored[j].score <= scored[i].score BY <1>3, <1>4 DEF Preferred
<1> QED BY <1>2, <1>3, <1>5 DEF ScoresFit

\* A value that no other one of a set exceeds is its largest.
LEMMA LargestIs ==
  ASSUME NEW T, NEW x \in T, \A y \in T : y \in Nat, \A y \in T : y <= x
  PROVE  Max(T) = x
<1>1. Max(T) = CHOOSE z \in T : \A y \in T : z >= y BY DEF Max
<1>2. \E z \in T : \A y \in T : z >= y OBVIOUS
<1>3. Max(T) \in T /\ \A y \in T : Max(T) >= y BY <1>1, <1>2
<1> QED BY <1>3

LEMMA FromOne == \A x, scale \in Nat : OneMinus(x, scale) = [num |-> (scale + 1) - x, den |-> scale + 1]
<1>1. \A x, scale \in Nat : scale + 1 - x = (scale + 1) - x OBVIOUS
<1> QED BY <1>1 DEF OneMinus

LEMMA NewCostTermsFit ==
  ASSUME Typed, HeadsPredict, NEW r \in Requests, Positive(r), NEW i, NEW line, line = Noted(r, Evidence(r, i))
  PROVE  CostTermsFit(line)
<1> DEFINE C == Candidates(r)
           costs == {PredictedCost(line, j) : j \in C}
           f == [j \in C |-> CostOf(j, r)]
           c_max == Scales(r).c_max
<1>1. /\ line.evidence = Evidence(r, i) /\ CandidatesOf(line) = DOMAIN Evidence(r, i).scored
      /\ \A j : PredictedCost(line, j) = CostOf(j, r)
  BY LineIs
<1>2. /\ Evidence(r, i).scored = Scored(r) /\ DOMAIN Scored(r) = C
      /\ Evidence(r, i).scales = IF cfg.over = "round" THEN {Scales(r)} ELSE {}
      /\ \A j \in C : Scored(r)[j].terms = TermsOf(j, r)
  BY EvidenceIs
<1>3. C \subseteq Instances /\ C # {} /\ IsFiniteSet(C) BY CandidatesAre
<1>4. \A j \in C : CostOf(j, r) \in Nat BY <1>3, CostsAre
<1>5. costs = {f[j] : j \in C} /\ \A j \in C : f[j] = CostOf(j, r) BY <1>1
<1>6. c_max \in Nat BY ScalesAre
<1>7. \A j \in C : CostOf(j, r) <= c_max BY ScalesAre DEF Covers
<1>8. \A j \in C : TermsOf(j, r).cost = OneMinus(CostOf(j, r), c_max)
  <2>1. \A j \in C : TermsOf(j, r).cost = [num |-> (c_max + 1) - CostOf(j, r), den |-> c_max + 1] BY TermsAre
  <2> HIDE DEF C, c_max
  <2> QED BY <1>4, <1>6, <2>1, FromOne
<1>9. Max(costs) \in costs /\ Max(costs) \in Nat /\ \A j \in C : CostOf(j, r) <= Max(costs)
  <2> HIDE DEF costs, f, C
  <2>1. \A j \in C : f[j] \in Nat BY <1>4, <1>5
  <2> QED BY <1>3, <1>5, <2>1, ExtremesAre
<1>10. \E j \in C : Max(costs) = CostOf(j, r) BY <1>1, <1>9
<1>11. cfg.over # "round" => c_max = Max(costs)
  <2> SUFFICES ASSUME cfg.over # "round" PROVE c_max = Max(costs) OBVIOUS
  <2> DEFINE S == {CostOf(x[2], x[1]) : x \in Own(r)}
  <2>1. Scope(r) = Own(r) BY DEF Scope
  <2>2. c_max = Max(S) BY <2>1 DEF Scales
  <2>3. S = costs
    <3>1. (\A j \in C : <<r, j>> \in Own(r)) /\ \A x \in Own(r) : x[1] = r /\ x[2] \in C BY ScopeIs
    <3>2. costs = {CostOf(j, r) : j \in C} BY <1>1
    <3>3. S \subseteq costs BY <3>1, <3>2
    <3>4. costs \subseteq S
      <4>1. ASSUME NEW j \in C PROVE CostOf(j, r) \in S
        <5>1. <<r, j>> \in Own(r) /\ <<r, j>>[1] = r /\ <<r, j>>[2] = j BY <3>1
        <5> QED BY <5>1
      <4> QED BY <3>2, <4>1
    <3> QED BY <3>3, <3>4
  <2> QED BY <2>2, <2>3
<1> DEFINE refs == IF cfg.over = "round" THEN {s.c_max : s \in line.evidence.scales} ELSE {Max(costs)}
<1>12. \A c \in refs : c = c_max BY <1>1, <1>2, <1>11
<1>13. CostTermsFit(line) <=>
         \A c \in refs :
           Max(costs) <= c /\ \A j \in C : Equal(line.evidence.scored[j].terms.cost, OneMinus(PredictedCost(line, j), c))
  BY <1>1, <1>2 DEF CostTermsFit
<1> HIDE DEF C, costs, f, c_max, refs
<1>14. Max(costs) <= c_max BY <1>7, <1>10
<1>15. \A j \in C : line.evidence.scored[j].terms.cost = OneMinus(PredictedCost(line, j), c_max)
  BY <1>1, <1>2, <1>8
<1>16. \A x : Equal(x, x) BY DEF Equal
<1> QED BY <1>12, <1>13, <1>14, <1>15, <1>16

LEMMA NewLatencyTermsFit ==
  ASSUME Typed, HeadsPredict, NEW r \in Requests, Positive(r),
         ~(cfg.latency.source = "xgboost" /\ cfg.normalization = "fixed_ref"),
         NEW i, NEW line, line = Noted(r, Evidence(r, i))
  PROVE  LatencyTermsFit(line)
<1> DEFINE C == Candidates(r)
           scored == line.evidence.scored
           lats == Latencies(line)
           f == [j \in C |-> LatencyOf(j, r)]
           l_max == Scales(r).l_max
<1>1. /\ line.evidence = Evidence(r, i) /\ CandidatesOf(line) = DOMAIN Evidence(r, i).scored
      /\ lats = {Evidence(r, i).scored[j].lat : j \in DOMAIN Evidence(r, i).scored}
  BY LineIs
<1>2. /\ Evidence(r, i).scored = Scored(r) /\ DOMAIN Scored(r) = C
      /\ Evidence(r, i).scales = IF cfg.over = "round" THEN {Scales(r)} ELSE {}
      /\ \A j \in C : Scored(r)[j].lat = LatencyOf(j, r) /\ Scored(r)[j].terms = TermsOf(j, r)
  BY EvidenceIs
<1>3. C \subseteq Instances /\ C # {} /\ IsFiniteSet(C) BY CandidatesAre
<1>4. \A j \in C : LatencyOf(j, r) \in Nat \ {0} BY <1>3, LatenciesAre DEF Positive
<1>5. lats = {f[j] : j \in C} /\ \A j \in C : f[j] = LatencyOf(j, r) BY <1>1, <1>2
<1>6. CandidatesOf(line) = C /\ \A j \in C : scored[j].lat = LatencyOf(j, r) /\ scored[j].terms = TermsOf(j, r)
  BY <1>1, <1>2
<1>7. CASE cfg.normalization = "fixed_ref"
  <2> DEFINE g(j) == [scored[j].terms.latency EXCEPT !.num = @ * scored[j].lat]
             all == [num |-> Ref(r) * Lats(r), den |-> Lats(r)]
  <2>1. ASSUME NEW j \in C
        PROVE  g(j) = all /\ scored[j].terms.latency.num <= scored[j].terms.latency.den /\ 0 < g(j).num
    <3> DEFINE k == Lats(r) \div LatencyOf(j, r)
               a == LatencyOf(j, r)
               t == scored[j].terms.latency
    <3>1. /\ a \in Nat \ {0} /\ k \in Nat \ {0} /\ a * k = Lats(r) /\ Lats(r) \in Nat \ {0}
          /\ Ref(r) \in Nat \ {0} /\ Ref(r) <= Unloaded(j, r)
      BY <1>7, ReferenceIs
    <3>2. Unloaded(j, r) <= a /\ Unloaded(j, r) \in Nat BY <1>3, <1>7, LatenciesAre
    <3>3. t = [num |-> Ref(r) * k, den |-> Lats(r)] BY <1>6, <1>7, TermsAre
    <3>4. scored[j].lat = a BY <1>6
    <3> HIDE DEF k, a, t
    <3>5. (Ref(r) * k) * a = Ref(r) * Lats(r)
      <4> DEFINE R == Ref(r)
                 P == Lats(r)
      <4>1. R \in Nat /\ k \in Nat /\ a \in Nat /\ a * k = P BY <3>1
      <4> HIDE DEF R, P
      <4>2. R * (a * k) = (R * a) * k /\ (R * a) * k = (R * k) * a BY <4>1
      <4> QED BY <4>1, <4>2 DEF R, P
    <3>6. Ref(r) * k <= Lats(r)
      <4>1. Ref(r) \in Nat /\ a \in Nat /\ k \in Nat /\ Ref(r) <= a BY <3>1, <3>2
      <4>2. Ref(r) * k <= a * k BY <4>1, Products
      <4> QED BY <3>1, <4>2
    <3>7. Ref(r) * Lats(r) \in Nat \ {0} BY <3>1, Products
    <3>8. g(j) = [num |-> (Ref(r) * k) * a, den |-> Lats(r)] BY <3>3, <3>4 DEF t
    <3>9. t.num = Ref(r) * k /\ t.den = Lats(r) BY <3>3
    <3>10. g(j) = all BY <3>5, <3>8
    <3>11. 0 < all.num BY <3>7
    <3> QED BY <3>6, <3>9, <3>10, <3>11 DEF t
  <2> HIDE DEF C, scored, all
  <2>2. /\ \A j \in C : 0 < g(j).num
        /\ \A j \in C : scored[j].terms.latency.num <= scored[j].terms.latency.den
        /\ \A j, k \in C : g(j) = g(k)
    BY <2>1
  <2> QED BY <1>6, <1>7, <2>2 DEF LatencyTermsFit, scored
<1>8. CASE cfg.normalization # "fixed_ref"
  <2> DEFINE refs == IF cfg.over = "round" THEN {s.l_max : s \in line.evidence.scales} ELSE {Max(lats)}
  <2>1. l_max \in Nat /\ \A j \in C : LatencyOf(j, r) <= l_max BY ScalesAre DEF Covers
  <2>2. \A j \in C : TermsOf(j, r).latency = OneMinus(LatencyOf(j, r), l_max)
    <3>1. \A j \in C : TermsOf(j, r).latency = [num |-> (l_max + 1) - LatencyOf(j, r), den |-> l_max + 1]
      BY <1>8, TermsAre
    <3>2. \A j \in C : LatencyOf(j, r) \in Nat BY <1>4
    <3> HIDE DEF C, l_max
    <3> QED BY <2>1, <3>1, <3>2, FromOne
  <2>3. Max(lats) \in lats
    <3> HIDE DEF lats, f, C
    <3>1. \A j \in C : f[j] \in Nat BY <1>4, <1>5
    <3> QED BY <1>3, <1>5, <3>1, ExtremesAre
  <2>4. \E j \in C : Max(lats) = LatencyOf(j, r) BY <1>5, <2>3
  <2>5. cfg.over # "round" => l_max = Max(lats)
    <3> SUFFICES ASSUME cfg.over # "round" PROVE l_max = Max(lats) OBVIOUS
    <3> DEFINE S == {LatencyOf(x[2], r) : x \in Own(r)}
    <3>1. l_max = Max(S) BY DEF Scales
    <3>2. S = lats
      <4>1. (\A j \in C : <<r, j>> \in Own(r)) /\ \A x \in Own(r) : x[1] = r /\ x[2] \in C BY ScopeIs
      <4>2. lats = {LatencyOf(j, r) : j \in C} BY <1>5
      <4>3. S \subseteq lats BY <4>1, <4>2
      <4>4. lats \subseteq S
        <5>1. ASSUME NEW j \in C PROVE LatencyOf(j, r) \in S
          <6>1. <<r, j>> \in Own(r) /\ <<r, j>>[2] = j BY <4>1
          <6> QED BY <6>1
        <5> QED BY <4>2, <5>1
      <4> QED BY <4>3, <4>4
    <3> QED BY <3>1, <3>2
  <2>6. \A l \in refs : l = l_max BY <1>1, <1>2, <2>5
  <2>7. LatencyTermsFit(line) <=>
          \A l \in refs : Max(lats) <= l /\ \A j \in C : Equal(scored[j].terms.latency, OneMinus(scored[j].lat, l))
    BY <1>6, <1>8 DEF LatencyTermsFit
  <2> HIDE DEF C, scored, lats, f, l_max, refs
  <2>8. Max(lats) <= l_max BY <2>1, <2>4
  <2>9. \A j \in C : scored[j].terms.latency = OneMinus(scored[j].lat, l_max) BY <1>6, <2>2
  <2>10. \A x : Equal(x, x) BY DEF Equal
  <2> QED BY <2>6, <2>7, <2>8, <2>9, <2>10
<1> QED BY <1>7, <1>8

\* The largest length, and the keys and tokens that the line repeats.
LEMMA NewTokensFit ==
  ASSUME Typed, NEW r \in Requests, NEW i, NEW line, line = Noted(r, Evidence(r, i))
  PROVE  LengthsFit(line) /\ line.evidence.lpt_key = KeyOf(line) /\ TokensFit(line)
<1> DEFINE f == request[r].length
           E == Estimated(r)
           top == Max(Range(f))
<1>1. /\ line.evidence = Evidence(r, i) /\ line.lengths = f /\ line.feature_tokens = Longest(f)
      /\ LengthOn(line, i) = OwnLength(Tier[i], r)
  BY LineIs
<1>2. /\ Evidence(r, i).instance = i /\ Evidence(r, i).tokens = DecodeTokens(i, r)
      /\ Evidence(r, i).lpt_key = LptKey(r, cfg.lpt)
  BY EvidenceIs
<1>3. IsFiniteSet(E) /\ Models \subseteq E /\ f \in [E -> Nat] BY RequestIs
<1>4. E # {} BY <1>3, InstancesAre
<1>5. DOMAIN f = E BY DEF Estimated
<1> HIDE DEF f
<1>6. IsFiniteSet(Range(f)) /\ \A y : y \in Range(f) <=> \E x \in E : y = f[x] BY <1>3, <1>5, RangeIs
<1>7. \A y \in Range(f) : y \in Nat BY <1>3, <1>6
<1>8. LengthsFit(line)
  <2>1. \A y \in Range(f) : y >= 0 BY <1>7
  <2> QED BY <1>1, <1>3, <1>5, <2>1 DEF LengthsFit
<1>9. line.evidence.lpt_key = KeyOf(line)
  <2>1. Lengths(r) = Range(f) BY DEF Lengths, f
  <2>2. LptKey(r, cfg.lpt) = CASE cfg.lpt = "min" -> Cardinality(E) * Min(Range(f))
                               [] cfg.lpt = "mean" -> SumFunction(f)
                               [] OTHER -> Cardinality(E) * Max(Range(f))
    BY <2>1 DEF LptKey, f
  <2>3. KeyOf(line) = IF cfg.lpt = "mean" THEN SumFunction(f)
                      ELSE Cardinality(E) * (IF cfg.lpt = "min" THEN Min(Range(f)) ELSE Max(Range(f)))
    BY <1>1, <1>5 DEF KeyOf
  <2>4. CASE cfg.lpt = "min" BY <1>1, <1>2, <2>2, <2>3, <2>4
  <2>5. CASE cfg.lpt = "mean" BY <1>1, <1>2, <2>2, <2>3, <2>5
  <2>6. CASE cfg.lpt # "min" /\ cfg.lpt # "mean" BY <1>1, <1>2, <2>2, <2>3, <2>6
  <2> QED BY <2>4, <2>5, <2>6
<1>10. TokensFit(line)
  <2>1. Longest(f) = Whole(top)
    <3> DEFINE S == {1} \cup Range(f)
    <3>1. top \in Range(f) /\ \A y \in Range(f) : y <= top
      <4>1. \A y \in Range(f) : y \in Int BY <1>7
      <4>2. Range(f) # {} BY <1>4, <1>6
      <4> QED BY <1>6, <4>1, <4>2, MaxIs
    <3>2. top \in Nat BY <1>7, <3>1
    <3>3. Longest(f) = Max(S) BY DEF Longest
    <3> HIDE DEF top
    <3>4. Whole(top) = IF 1 >= top THEN 1 ELSE top BY <3>2, MaxOfTwo DEF Whole
    <3>5. Whole(top) \in S BY <3>1, <3>4
    <3>6. \A y \in S : y \in Nat BY <1>7
    <3>7. \A y \in S : y <= Whole(top)
      <4>1. 1 <= Whole(top) /\ top <= Whole(top) /\ Whole(top) \in Nat BY <3>2, <3>4
      <4>2. \A y \in Range(f) : y <= Whole(top) BY <1>7, <3>1, <3>2, <4>1
      <4> QED BY <4>1, <4>2
    <3> HIDE DEF S
    <3>8. Max(S) = Whole(top) BY <3>5, <3>6, <3>7, LargestIs
    <3> QED BY <3>3, <3>8
  <2>2. DecodeTokens(i, r) = IF cfg.pending = "own_length" THEN Whole(LengthOn(line, i))
                             ELSE Whole(LptKey(r, cfg.lpt) \div Cardinality(E))
    BY <1>1 DEF DecodeTokens, Whole
  <2> QED BY <1>1, <1>2, <1>5, <2>1, <2>2 DEF TokensFit
<1> QED BY <1>8, <1>9, <1>10

\* Whatever the state a request was decided in, the gate accepts its line.
LEMMA NewLineFits ==
  ASSUME Typed, HeadsPredict, NEW r \in Requests, Positive(r),
         ~(cfg.latency.source = "xgboost" /\ cfg.normalization = "fixed_ref"),
         NEW i, i = Pick(r, Scored(r)), NEW line, line = Noted(r, Evidence(r, i))
  PROVE  LineFits(line)
<1>1. CandidatesFit(line) /\ ScoresFit(line) /\ CostTermsFit(line) /\ LatencyTermsFit(line)
  BY AdmissionFits, NewScoresFit, NewCostTermsFit, NewLatencyTermsFit
<1>2. LengthsFit(line) /\ line.evidence.lpt_key = KeyOf(line) /\ TokensFit(line) BY NewTokensFit
<1>3. Cardinality(line.evidence.scales) = IF cfg.over = "round" THEN 1 ELSE 0
  <2>1. line.evidence.scales = IF cfg.over = "round" THEN {Scales(r)} ELSE {}
    <3>1. line.evidence = Evidence(r, i) BY LineIs
    <3>2. Evidence(r, i).scales = IF cfg.over = "round" THEN {Scales(r)} ELSE {} BY EvidenceIs
    <3> QED BY <3>1, <3>2
  <2>2. \A x : Cardinality({x}) = 1 BY FS_Singleton
  <2>3. Cardinality({}) = 0 BY FS_EmptySet
  <2> QED BY <2>1, <2>2, <2>3
<1> QED BY <1>1, <1>2, <1>3 DEF LineFits

\* The latencies that request r was scored with.
LatsOf(r) == {decided[r].scored[i].lat : i \in DOMAIN decided[r].scored}

\* The scales of a round with latency maximum l.
RoundScales(l) ==
  [q_min |-> Min({Quality(x[2], x[1]) : x \in Requests \X Instances}),
   q_max |-> Max({Quality(x[2], x[1]) : x \in Requests \X Instances}),
   c_max |-> Max({CostOf(x[2], x[1]) : x \in Requests \X Instances}),
   l_max |-> l]

\* Decisions are numbered in their order.
Numbered ==
  /\ \A r \in Decided : decided[r].round_pos \in 0 .. Cardinality(Decided) - 1
  /\ \A q, r \in Decided : decided[q].round_pos = decided[r].round_pos => q = r

\* No request that is still to come, or came later, is longer than a decided one.
LongestFirst ==
  cfg.lpt # "off" =>
    /\ \A r \in Decided : decided[r].lpt_key = LptKey(r, cfg.lpt)
    /\ \A q \in Decided, r \in Requests \ Decided : LptKey(r, cfg.lpt) <= LptKey(q, cfg.lpt)
    /\ \A q, r \in Decided : decided[q].round_pos < decided[r].round_pos => LptKey(r, cfg.lpt) <= LptKey(q, cfg.lpt)

\* l is the largest latency of the decisions up to that of r.
LargestUntil(l, r) ==
  /\ \E q \in Decided : decided[q].round_pos <= decided[r].round_pos /\ l \in LatsOf(q)
  /\ \A q \in Decided : decided[q].round_pos <= decided[r].round_pos => \A x \in LatsOf(q) : x <= l

\* All requests of a round share their scales, but for the latency maximum, which runs over the round.
OneScale ==
  cfg.over = "round" =>
    /\ \A r \in Decided :
         /\ LatsOf(r) \subseteq Nat
         /\ \E l \in Nat : decided[r].scales = {RoundScales(l)} /\ LargestUntil(l, r)
    /\ \A q \in Decided : \A x \in LatsOf(q) : x <= l_run
    /\ (Decided = {} /\ l_run = 0) \/ \E q \in Decided : l_run \in LatsOf(q)

LinesFit ==
  ~(cfg.latency.source = "xgboost" /\ cfg.normalization = "fixed_ref") =>
    \A line \in LinesOf(Decided) : LineFits(line)

GateInv == RoundInv /\ Numbered /\ LongestFirst /\ OneScale /\ LinesFit

\* What the gate makes of a line depends on the configuration alone.
LEMMA SameFits == ASSUME cfg' = cfg, NEW line PROVE LineFits(line)' <=> LineFits(line)
<1>1. CandidatesFit(line)' <=> CandidatesFit(line)
  <2>1. Ran(line)' <=> Ran(line) BY DEF Ran
  <2>2. Admission(line)' = Admission(line) BY DEF Admission, LineCost, LengthOn
  <2>3. CandidatesOf(line)' = CandidatesOf(line) BY DEF CandidatesOf
  <2> QED BY <2>1, <2>2, <2>3 DEF CandidatesFit
<1>2. ScoresFit(line)' <=> ScoresFit(line)
  <2>1. \A t : Score(t)' = Score(t) BY DEF Score
  <2>2. CandidatesOf(line)' = CandidatesOf(line) BY DEF CandidatesOf
  <2> QED BY <2>1, <2>2 DEF ScoresFit
<1>3. CostTermsFit(line)' <=> CostTermsFit(line)
  BY DEF CostTermsFit, PredictedCost, LineCost, LengthOn, CandidatesOf, Equal, OneMinus
<1>4. LatencyTermsFit(line)' <=> LatencyTermsFit(line)
  BY DEF LatencyTermsFit, CandidatesOf, Latencies, Equal, OneMinus
<1>5. KeyOf(line)' = KeyOf(line) BY DEF KeyOf
<1>6. TokensFit(line)' <=> TokensFit(line) BY DEF TokensFit, Whole, LengthOn
<1>7. LengthsFit(line)' <=> LengthsFit(line) BY DEF LengthsFit
<1> QED BY <1>1, <1>2, <1>3, <1>4, <1>5, <1>6, <1>7 DEF LineFits

\* What is known of the requests of a round does not change.
LEMMA SameRequests ==
  ASSUME request' = request
  PROVE  /\ \A r, lpt : LptKey(r, lpt)' = LptKey(r, lpt)
         /\ \A l : RoundScales(l)' = RoundScales(l)
         /\ \A r, e : Noted(r, e)' = Noted(r, e)
<1>1. \A r, lpt : LptKey(r, lpt)' = LptKey(r, lpt) BY DEF LptKey, Lengths, Estimated
<1>2. \A l : RoundScales(l)' = RoundScales(l) BY DEF RoundScales, Quality, CostOf, Cost, OwnLength
<1>3. \A r, e : Noted(r, e)' = Noted(r, e) BY DEF Noted
<1> QED BY <1>1, <1>2, <1>3

LEMMA LinesAre == \A S, line : line \in LinesOf(S) <=> \E r \in S : line = Noted(r, decided[r])
BY DEF LinesOf, Line, Noted

LEMMA InitGateInv == Init => GateInv
<1> SUFFICES ASSUME Init PROVE GateInv OBVIOUS
<1>1. DOMAIN <<>> = {} OBVIOUS
<1>2. Decided = {} /\ l_run = 0 BY <1>1 DEF Init, Decided
<1>3. LinesOf(Decided) = {} BY <1>2 DEF LinesOf
<1>4. RoundInv BY InitRoundInv
<1>5. Numbered /\ LongestFirst BY <1>2 DEF Numbered, LongestFirst
<1>6. OneScale BY <1>2 DEF OneScale
<1>7. LinesFit BY <1>3 DEF LinesFit
<1> QED BY <1>4, <1>5, <1>6, <1>7 DEF GateInv

LEMMA DecidedAre ==
  ASSUME Typed
  PROVE  /\ IsFiniteSet(Decided) /\ Cardinality(Decided) \in Nat /\ Cardinality(Decided) <= RoundSize
         /\ Cardinality(Decided) = RoundSize => Decided = Requests
         /\ \A r \in Requests \ Decided : Cardinality(Decided \cup {r}) = Cardinality(Decided) + 1
<1>1. IsFiniteSet(Requests) /\ Cardinality(Requests) = RoundSize
  <2>1. RoundSize \in Nat BY RoundAssumption
  <2> QED BY <2>1, FS_Interval DEF Requests
<1> DEFINE D == Decided
<1>2. D \subseteq Requests BY DEF Typed
<1> HIDE DEF D
<1>3. IsFiniteSet(D) /\ Cardinality(D) <= Cardinality(Requests)
      /\ (Cardinality(D) = Cardinality(Requests) => D = Requests)
  BY <1>1, <1>2, FS_Subset
<1>4. Cardinality(D) \in Nat BY <1>3, FS_CardinalityType
<1>5. \A r \in Requests \ D : Cardinality(D \cup {r}) = Cardinality(D) + 1 BY <1>3, FS_AddElement
<1> QED BY <1>1, <1>3, <1>4, <1>5 DEF D

LEMMA DecideKeepsNumbered ==
  ASSUME Typed, Numbered, NEW r \in Requests, Decide(r)
  PROVE  /\ Numbered'
         /\ \A q \in Decided : decided'[q].round_pos < decided'[r].round_pos
<1> DEFINE i == Pick(r, Scored(r))
           n == Cardinality(Decided)
<1>1. r \notin Decided /\ Decided' = Decided \cup {r} /\ decided'[r] = Evidence(r, i)
      /\ \A q \in Decided : decided'[q] = decided[q]
  BY DecideIs
<1>2. decided'[r].round_pos = n
  <2>1. Evidence(r, i).round_pos = n BY DEF Evidence
  <2> QED BY <1>1, <2>1
<1>3. n \in Nat /\ Cardinality(Decided \cup {r}) = n + 1 BY <1>1, DecidedAre
<1>4. Cardinality(Decided)' = n + 1
  <2> DEFINE D == Decided \cup {r}
  <2> HIDE DEF D
  <2>1. Decided' = D BY <1>1 DEF D
  <2>2. Cardinality(Decided)' = Cardinality(Decided') OBVIOUS
  <2> QED BY <1>3, <2>1, <2>2 DEF D
<1> HIDE DEF n, i
<1>5. \A q \in Decided : decided'[q].round_pos \in 0 .. n - 1 BY <1>1 DEF Numbered, n
<1>6. \A q, p \in Decided : decided'[q].round_pos = decided'[p].round_pos => q = p BY <1>1 DEF Numbered
<1>7. \A q \in Decided : decided'[q].round_pos < decided'[r].round_pos BY <1>2, <1>3, <1>5
<1>8. \A q \in Decided' : decided'[q].round_pos \in 0 .. (n + 1) - 1
  <2>1. \A q \in Decided' : q \in Decided \/ q = r BY <1>1
  <2> QED BY <1>2, <1>3, <1>5, <2>1
<1>9. \A q, p \in Decided' : decided'[q].round_pos = decided'[p].round_pos => q = p
  <2>1. \A q \in Decided' : q \in Decided \/ q = r BY <1>1
  <2>2. \A q \in Decided : decided'[q].round_pos # decided'[r].round_pos BY <1>2, <1>3, <1>5
  <2> QED BY <1>6, <2>1, <2>2
<1> QED BY <1>4, <1>7, <1>8, <1>9 DEF Numbered

LEMMA DecideKeepsLongestFirst ==
  ASSUME Typed, Numbered, LongestFirst, NEW r \in Requests, Decide(r)
  PROVE  LongestFirst'
<1> DEFINE i == Pick(r, Scored(r))
           Key(q) == LptKey(q, cfg.lpt)
<1>1. /\ r \notin Decided /\ Decided' = Decided \cup {r} /\ decided'[r] = Evidence(r, i)
      /\ (\A q \in Decided : decided'[q] = decided[q]) /\ cfg' = cfg /\ request' = request
  BY DecideIs
<1>2. SUFFICES ASSUME cfg.lpt # "off"
               PROVE  /\ \A q \in Decided' : decided'[q].lpt_key = Key(q)
                      /\ \A q \in Decided', p \in Requests \ Decided' : Key(p) <= Key(q)
                      /\ \A q, p \in Decided' : decided'[q].round_pos < decided'[p].round_pos => Key(p) <= Key(q)
  <2>1. \A q, lpt : LptKey(q, lpt)' = LptKey(q, lpt) BY <1>1, SameRequests
  <2>2. \A q : LptKey(q, cfg.lpt)' = Key(q) BY <1>1, <2>1
  <2> HIDE DEF Key
  <2>3. CASE cfg.lpt # "off" BY <1>1, <1>2, <2>2, <2>3 DEF LongestFirst
  <2>4. CASE cfg.lpt = "off" BY <1>1, <2>4 DEF LongestFirst
  <2> QED BY <2>3, <2>4
<1>3. /\ \A q \in Decided : decided[q].lpt_key = Key(q)
      /\ \A q \in Decided, p \in Requests \ Decided : Key(p) <= Key(q)
      /\ \A q, p \in Decided : decided[q].round_pos < decided[p].round_pos => Key(p) <= Key(q)
  BY <1>2 DEF LongestFirst
<1>4. \A q \in Requests : Key(q) \in Nat BY LptKeyIs
<1>5. \A p \in Requests \ (Decided \cup {r}) : Key(p) <= Key(r)
  <2>1. \A p \in Requests \ (Decided \cup {r}) : Before(r, p) BY DEF Decide, IsNext
  <2> QED BY <1>2, <1>4, <2>1 DEF Before
<1>6. decided'[r].lpt_key = Key(r)
  <2>1. Evidence(r, i).lpt_key = Key(r) BY EvidenceIs
  <2> QED BY <1>1, <2>1
<1>7. \A q \in Decided : decided'[q].round_pos < decided'[r].round_pos BY DecideKeepsNumbered
<1>8. \A q \in Decided : decided'[q].round_pos \in Int /\ decided'[r].round_pos \in Int
  <2>1. Cardinality(Decided) \in Nat BY DecidedAre
  <2>2. \A q \in Decided : decided[q].round_pos \in Int BY <2>1 DEF Numbered
  <2>3. decided'[r].round_pos = Cardinality(Decided)
    <3>1. Evidence(r, i).round_pos = Cardinality(Decided) BY DEF Evidence
    <3> QED BY <1>1, <3>1
  <2> QED BY <1>1, <2>1, <2>2, <2>3
<1> HIDE DEF Key, i
<1>9. \A q \in Decided' : q \in Decided \/ q = r BY <1>1
<1>10. \A q \in Decided' : decided'[q].lpt_key = Key(q) BY <1>1, <1>3, <1>6, <1>9
<1>11. \A q \in Decided', p \in Requests \ Decided' : Key(p) <= Key(q) BY <1>1, <1>3, <1>5, <1>9
<1>12. ASSUME NEW q \in Decided', NEW p \in Decided', decided'[q].round_pos < decided'[p].round_pos
       PROVE  Key(p) <= Key(q)
  <2>1. CASE q \in Decided /\ p \in Decided BY <1>1, <1>3, <1>12, <2>1
  <2>2. CASE q \in Decided /\ p = r BY <1>1, <1>3, <2>2
  <2>3. CASE q = r /\ p \in Decided BY <1>7, <1>8, <1>12, <2>3
  <2>4. CASE q = r /\ p = r
    <3>1. Key(r) \in Nat BY <1>4
    <3> QED BY <2>4, <3>1
  <2> QED BY <1>9, <2>1, <2>2, <2>3, <2>4
<1> QED BY <1>10, <1>11, <1>12

LEMMA DecideKeepsOneScale ==
  ASSUME Typed, HeadsPredict, Numbered, OneScale, NEW r \in Requests, Decide(r)
  PROVE  OneScale'
<1> DEFINE i == Pick(r, Scored(r))
           C == Candidates(r)
           m == LRun(r)
<1>1. /\ r \notin Decided /\ Positive(r) /\ Decided' = Decided \cup {r} /\ decided'[r] = Evidence(r, i)
      /\ (\A q \in Decided : decided'[q] = decided[q]) /\ cfg' = cfg /\ request' = request
      /\ l_run' = IF cfg.over = "round" THEN m ELSE l_run
  BY DecideIs
<1>2. CASE cfg.over # "round" BY <1>1, <1>2 DEF OneScale
<1>3. CASE cfg.over = "round"
  <2>1. /\ \A q \in Decided :
             /\ LatsOf(q) \subseteq Nat
             /\ \E l \in Nat : decided[q].scales = {RoundScales(l)} /\ LargestUntil(l, q)
        /\ \A q \in Decided : \A x \in LatsOf(q) : x <= l_run
        /\ (Decided = {} /\ l_run = 0) \/ \E q \in Decided : l_run \in LatsOf(q)
    BY <1>3 DEF OneScale
  <2>2. \A q \in Decided : LatsOf(q)' = LatsOf(q) BY <1>1 DEF LatsOf
  <2>3. LatsOf(r)' = {LatencyOf(j, r) : j \in C}
    <3>1. LatsOf(r)' = {Evidence(r, i).scored[j].lat : j \in DOMAIN Evidence(r, i).scored} BY <1>1 DEF LatsOf
    <3>2. Evidence(r, i).scored = Scored(r) /\ DOMAIN Scored(r) = C /\ \A j \in C : Scored(r)[j].lat = LatencyOf(j, r)
      BY EvidenceIs
    <3> QED BY <3>1, <3>2
  <2>4. C # {} /\ \A j \in C : LatencyOf(j, r) \in Nat \ {0}
    <3>1. C # {} /\ C \subseteq Instances BY CandidatesAre
    <3>2. \A j \in C : LatencyOf(j, r) \in Nat BY <3>1, LatenciesAre
    <3>3. \A j \in C : LatencyOf(j, r) > 0 BY <1>1 DEF Positive
    <3> QED BY <3>1, <3>2, <3>3
  <2>5. LatsOf(r)' \subseteq Nat BY <2>3, <2>4
  <2>6. /\ m \in Nat /\ l_run <= m /\ \A j \in C : LatencyOf(j, r) <= m
        /\ m = l_run \/ \E j \in C : m = LatencyOf(j, r)
    BY LRunIs
  <2>7. \A l : RoundScales(l)' = RoundScales(l) BY <1>1, SameRequests
  <2>8. decided'[r].scales = {RoundScales(m)}
    <3>1. Evidence(r, i).scales = {Scales(r)} BY <1>3, EvidenceIs
    <3>2. Scope(r) = Requests \X Instances BY <1>3 DEF Scope
    <3>3. Scales(r) = RoundScales(m) BY <1>3, <3>2 DEF Scales, RoundScales
    <3> QED BY <1>1, <3>1, <3>3
  <2>9. \A q \in Decided : decided'[q].round_pos < decided'[r].round_pos BY DecideKeepsNumbered
  <2>10. \A q \in Decided' : decided'[q].round_pos \in Int
    <3>1. Cardinality(Decided) \in Nat BY DecidedAre
    <3>2. \A q \in Decided : decided[q].round_pos \in Int BY <3>1 DEF Numbered
    <3>3. decided'[r].round_pos = Cardinality(Decided)
      <4>1. Evidence(r, i).round_pos = Cardinality(Decided) BY DEF Evidence
      <4> QED BY <1>1, <4>1
    <3> QED BY <1>1, <3>1, <3>2, <3>3
  <2>11. l_run \in Nat BY DEF Typed
  <2> HIDE DEF C, m, i
  <2>12. \A q \in Decided' : q \in Decided \/ q = r BY <1>1
  <2>13. \A q \in Decided' : \A x \in LatsOf(q)' : x <= m
    <3>1. ASSUME NEW q \in Decided, NEW x \in LatsOf(q)' PROVE x <= m
      <4>1. x \in Nat /\ x <= l_run BY <2>1, <2>2, <3>1
      <4> QED BY <2>6, <2>11, <4>1
    <3>2. \A x \in LatsOf(r)' : x <= m BY <2>3, <2>6
    <3> QED BY <2>12, <3>1, <3>2
  <2>14. \E q \in Decided' : m \in LatsOf(q)'
    <3>1. CASE \E j \in C : m = LatencyOf(j, r)
      <4>1. m \in LatsOf(r)' BY <2>3, <3>1
      <4> QED BY <1>1, <4>1
    <3>2. CASE m = l_run
      <4>1. Decided # {} \/ l_run # 0
        <5>1. PICK j \in C : LatencyOf(j, r) \in Nat \ {0} /\ LatencyOf(j, r) <= m BY <2>4, <2>6
        <5> QED BY <3>2, <5>1
      <4>2. PICK q \in Decided : l_run \in LatsOf(q) BY <2>1, <4>1
      <4>3. m \in LatsOf(q)' BY <2>2, <3>2, <4>2
      <4> QED BY <1>1, <4>3
    <3> QED BY <2>6, <3>1, <3>2
  <2>15. ASSUME NEW q \in Decided'
         PROVE  /\ LatsOf(q)' \subseteq Nat
                /\ \E l \in Nat : decided'[q].scales = {RoundScales(l)} /\ LargestUntil(l, q)'
    <3>1. CASE q = r
      <4>1. PICK l \in Nat : l = m BY <2>6
      <4>2. \A p \in Decided' : decided'[p].round_pos <= decided'[r].round_pos BY <1>1, <2>9, <2>10, <2>12
      <4>3. \E p \in Decided' : decided'[p].round_pos <= decided'[r].round_pos /\ l \in LatsOf(p)' BY <2>14, <4>1, <4>2
      <4>4. \A p \in Decided' : \A x \in LatsOf(p)' : x <= l BY <2>13, <4>1
      <4>5. LargestUntil(l, r)' BY <4>3, <4>4 DEF LargestUntil
      <4>6. decided'[r].scales = {RoundScales(l)} BY <2>8, <4>1
      <4> QED BY <2>5, <3>1, <4>5, <4>6
    <3>2. CASE q \in Decided
      <4>1. PICK l \in Nat : decided[q].scales = {RoundScales(l)} /\ LargestUntil(l, q) BY <2>1, <3>2
      <4>2. PICK p \in Decided : decided[p].round_pos <= decided[q].round_pos /\ l \in LatsOf(p)
        BY <4>1 DEF LargestUntil
      <4>3. p \in Decided' /\ decided'[p].round_pos <= decided'[q].round_pos /\ l \in LatsOf(p)'
        BY <1>1, <2>2, <3>2, <4>2
      <4>4. ASSUME NEW o \in Decided', decided'[o].round_pos <= decided'[q].round_pos, NEW x \in LatsOf(o)'
            PROVE  x <= l
        <5>1. o # r BY <2>9, <2>10, <3>2, <4>4
        <5>2. o \in Decided /\ decided[o].round_pos <= decided[q].round_pos /\ x \in LatsOf(o)
          BY <1>1, <2>2, <2>12, <3>2, <4>4, <5>1
        <5> QED BY <4>1, <5>2 DEF LargestUntil
      <4>5. LargestUntil(l, q)' BY <4>3, <4>4 DEF LargestUntil
      <4>6. decided'[q].scales = {RoundScales(l)} /\ LatsOf(q)' \subseteq Nat BY <1>1, <2>1, <2>2, <3>2, <4>1
      <4> QED BY <4>5, <4>6
    <3> QED BY <2>12, <3>1, <3>2
  <2>16. \A q \in Decided' :
           /\ LatsOf(q)' \subseteq Nat
           /\ \E l \in Nat : decided'[q].scales = {RoundScales(l)'} /\ LargestUntil(l, q)'
    BY <2>7, <2>15
  <2>17. l_run' = m BY <1>1, <1>3 DEF m
  <2> QED BY <2>13, <2>14, <2>16, <2>17 DEF OneScale
<1> QED BY <1>2, <1>3

LEMMA DecideKeepsLinesFit ==
  ASSUME Typed, HeadsPredict, LinesFit, NEW r \in Requests, Decide(r)
  PROVE  LinesFit'
<1> DEFINE i == Pick(r, Scored(r))
           e == Evidence(r, i)
           L == Noted(r, e)
<1>1. /\ r \notin Decided /\ Positive(r) /\ Decided' = Decided \cup {r} /\ decided'[r] = e
      /\ (\A q \in Decided : decided'[q] = decided[q]) /\ cfg' = cfg /\ request' = request
  BY DecideIs
<1>2. CASE cfg.latency.source = "xgboost" /\ cfg.normalization = "fixed_ref" BY <1>1, <1>2 DEF LinesFit
<1>3. CASE ~(cfg.latency.source = "xgboost" /\ cfg.normalization = "fixed_ref")
  <2>1. LineFits(L) BY <1>1, <1>3, NewLineFits
  <2>2. \A line \in LinesOf(Decided) : LineFits(line) BY <1>3 DEF LinesFit
  <2> HIDE DEF i, e, L
  <2>3. ASSUME NEW line \in LinesOf(Decided)' PROVE LineFits(line)
    <3>1. \E q \in Decided' : line = Noted(q, decided[q])'
      <4>1. LinesOf(Decided)' = {Line(q)' : q \in Decided'} BY DEF LinesOf
      <4>2. PICK q \in Decided' : line = Line(q)' BY <4>1
      <4>3. Line(q)' = Noted(q, decided[q])' BY DEF Line, Noted
      <4> QED BY <4>2, <4>3
    <3>2. PICK q \in Decided' : line = Noted(q, decided'[q])
      <4>1. PICK q \in Decided' : line = Noted(q, decided[q])' BY <3>1
      <4>2. Noted(q, decided[q])' = Noted(q, decided'[q]) BY <1>1 DEF Noted
      <4> QED BY <4>1, <4>2
    <3>3. CASE q = r
      <4>1. line = L BY <1>1, <3>2, <3>3 DEF L
      <4> QED BY <2>1, <4>1
    <3>4. CASE q \in Decided
      <4>1. line = Noted(q, decided[q]) BY <1>1, <3>2, <3>4
      <4>2. line \in LinesOf(Decided) BY <3>4, <4>1, LinesAre
      <4> QED BY <2>2, <4>2
    <3> QED BY <1>1, <3>3, <3>4
  <2>4. \A line \in LinesOf(Decided)' : LineFits(line)' BY <1>1, <2>3, SameFits
  <2> QED BY <2>4 DEF LinesFit
<1> QED BY <1>2, <1>3

LEMMA StepKeepsGateInv == ASSUME HeadsPredict, GateInv, [Next]_vars PROVE GateInv'
<1>1. RoundInv' BY StepKeepsRoundInv DEF GateInv
<1>2. ASSUME NEW r \in Requests, Decide(r) PROVE GateInv'
  <2>1. Typed /\ Numbered /\ LongestFirst /\ OneScale /\ LinesFit BY DEF GateInv, RoundInv
  <2>2. Numbered' BY <1>2, <2>1, DecideKeepsNumbered
  <2>3. LongestFirst' BY <1>2, <2>1, DecideKeepsLongestFirst
  <2>4. OneScale' BY <1>2, <2>1, DecideKeepsOneScale
  <2>5. LinesFit' BY <1>2, <2>1, DecideKeepsLinesFit
  <2> QED BY <1>1, <2>2, <2>3, <2>4, <2>5 DEF GateInv
<1>3. CASE UNCHANGED vars
  <2>1. cfg' = cfg /\ request' = request /\ l_run' = l_run /\ decided' = decided BY <1>3 DEF vars
  <2>2. Decided' = Decided BY <2>1 DEF Decided
  <2>3. Numbered'
    <3>1. Cardinality(Decided)' = Cardinality(Decided) BY <2>1 DEF Decided
    <3> QED BY <2>1, <2>2, <3>1 DEF GateInv, Numbered
  <2>4. LongestFirst'
    <3>1. \A q, lpt : LptKey(q, lpt)' = LptKey(q, lpt) BY <2>1, SameRequests
    <3>2. \A q : LptKey(q, cfg.lpt)' = LptKey(q, cfg.lpt) BY <2>1, <3>1
    <3> QED BY <2>1, <2>2, <3>2 DEF GateInv, LongestFirst
  <2>5. OneScale'
    <3>1. \A q : LatsOf(q)' = LatsOf(q) BY <2>1 DEF LatsOf
    <3>2. \A l : RoundScales(l)' = RoundScales(l) BY <2>1, SameRequests
    <3>3. \A l, q : LargestUntil(l, q)' <=> LargestUntil(l, q) BY <2>1, <2>2, <3>1 DEF LargestUntil
    <3> QED BY <2>1, <2>2, <3>1, <3>2, <3>3 DEF GateInv, OneScale
  <2>6. LinesFit'
    <3>1. LinesOf(Decided)' = LinesOf(Decided) BY <2>1, <2>2 DEF LinesOf, Line
    <3>2. \A line : LineFits(line)' <=> LineFits(line) BY <2>1, SameFits
    <3> QED BY <2>1, <3>1, <3>2 DEF GateInv, LinesFit
  <2> QED BY <1>1, <2>3, <2>4, <2>5, <2>6 DEF GateInv
<1> QED BY <1>2, <1>3 DEF Next

LEMMA DecidedLines ==
  ASSUME NEW r \in Decided, NEW line, line = Noted(r, decided[r])
  PROVE  /\ line.evidence = decided[r] /\ line.round_size = RoundSize /\ Latencies(line) = LatsOf(r)
         /\ \A i : PredictedCost(line, i) = CostOf(i, r)
<1>1. /\ line.evidence = decided[r] /\ line.round_size = RoundSize
      /\ Latencies(line) = {decided[r].scored[i].lat : i \in DOMAIN decided[r].scored}
      /\ \A i : PredictedCost(line, i) = CostOf(i, r)
  BY LineIs
<1> QED BY <1>1 DEF LatsOf

LEMMA LinesFitScales ==
  ASSUME GateInv, Decided # {}, cfg.over = "round"
  PROVE  ScalesFit(LinesOf(Decided))
<1> DEFINE lines == LinesOf(Decided)
           all == UNION {m.evidence.scales : m \in lines}
           shared == {[s EXCEPT !.l_max = 0] : s \in all}
<1>1. Typed /\ Numbered BY DEF GateInv, RoundInv
<1>2. \A r \in Decided :
        /\ LatsOf(r) \subseteq Nat
        /\ \E l \in Nat : decided[r].scales = {RoundScales(l)} /\ LargestUntil(l, r)
  BY DEF GateInv, OneScale
<1>3. \A line : line \in lines <=> \E r \in Decided : line = Noted(r, decided[r]) BY LinesAre
<1> HIDE DEF lines
<1>4. \A s : s \in all <=> \E r \in Decided : s \in decided[r].scales
  <2>1. \A s : s \in all <=> \E m \in lines : s \in m.evidence.scales OBVIOUS
  <2>2. ASSUME NEW s, NEW m \in lines, s \in m.evidence.scales PROVE \E r \in Decided : s \in decided[r].scales
    <3>1. PICK r \in Decided : m = Noted(r, decided[r]) BY <1>3
    <3>2. m.evidence = decided[r] BY <3>1, DecidedLines
    <3> QED BY <2>2, <3>2
  <2>3. ASSUME NEW s, NEW r \in Decided, s \in decided[r].scales PROVE \E m \in lines : s \in m.evidence.scales
    <3> DEFINE m == Noted(r, decided[r])
    <3>1. m \in lines BY <1>3
    <3>2. m.evidence = decided[r] BY DecidedLines
    <3> QED BY <2>3, <3>1, <3>2
  <2> QED BY <2>1, <2>2, <2>3
<1>5. \A s \in all : \E l \in Nat : s = RoundScales(l) BY <1>2, <1>4
<1>6. \A l : [RoundScales(l) EXCEPT !.l_max = 0] = RoundScales(0)
  <2>1. \A a, b, c, l : [[q_min |-> a, q_max |-> b, c_max |-> c, l_max |-> l] EXCEPT !.l_max = 0] =
                       [q_min |-> a, q_max |-> b, c_max |-> c, l_max |-> 0]
    OBVIOUS
  <2> DEFINE a == Min({Quality(x[2], x[1]) : x \in Requests \X Instances})
             b == Max({Quality(x[2], x[1]) : x \in Requests \X Instances})
             c == Max({CostOf(x[2], x[1]) : x \in Requests \X Instances})
  <2>2. \A l : RoundScales(l) = [q_min |-> a, q_max |-> b, c_max |-> c, l_max |-> l] BY DEF RoundScales
  <2> HIDE DEF a, b, c
  <2> QED BY <2>1, <2>2
<1>7. all # {}
  <2>1. PICK r \in Decided : TRUE OBVIOUS
  <2>2. PICK l \in Nat : decided[r].scales = {RoundScales(l)} BY <1>2
  <2> QED BY <1>4, <2>2
<1>8. shared = {RoundScales(0)}
  <2> HIDE DEF all
  <2>1. \A s \in all : [s EXCEPT !.l_max = 0] = RoundScales(0) BY <1>5, <1>6
  <2> QED BY <1>7, <2>1
<1>9. Cardinality(shared) = 1
  <2>1. \A x : Cardinality({x}) = 1 BY FS_Singleton
  <2> QED BY <1>8, <2>1
<1>10. ASSUME NEW m \in lines, NEW s \in m.evidence.scales
       PROVE  s.l_max = Max(UNION {Latencies(n) : n \in Until(lines, m)})
  <2>1. PICK r \in Decided : m = Noted(r, decided[r]) BY <1>3
  <2>2. m.evidence = decided[r] BY <2>1, DecidedLines
  <2>3. PICK l \in Nat : decided[r].scales = {RoundScales(l)} /\ LargestUntil(l, r) BY <1>2
  <2>4. s.l_max = l BY <1>10, <2>2, <2>3 DEF RoundScales
  <2> DEFINE T == UNION {Latencies(n) : n \in Until(lines, m)}
  <2>5. \A x : x \in T <=> \E n \in lines : n.evidence.round_pos <= m.evidence.round_pos /\ x \in Latencies(n)
    BY DEF Until
  <2> HIDE DEF T
  <2>6. ASSUME NEW x \in T
        PROVE  \E q \in Decided : decided[q].round_pos <= decided[r].round_pos /\ x \in LatsOf(q)
    <3>1. PICK n \in lines : n.evidence.round_pos <= m.evidence.round_pos /\ x \in Latencies(n) BY <2>5
    <3>2. PICK q \in Decided : n = Noted(q, decided[q]) BY <1>3
    <3>3. n.evidence = decided[q] /\ Latencies(n) = LatsOf(q) BY <3>2, DecidedLines
    <3> QED BY <2>2, <3>1, <3>3
  <2>7. l \in T
    <3>1. PICK q \in Decided : decided[q].round_pos <= decided[r].round_pos /\ l \in LatsOf(q) BY <2>3 DEF LargestUntil
    <3> DEFINE n == Noted(q, decided[q])
    <3>2. n \in lines BY <1>3
    <3>3. n.evidence = decided[q] /\ Latencies(n) = LatsOf(q) BY DecidedLines
    <3> QED BY <2>2, <2>5, <3>1, <3>2, <3>3
  <2>8. \A x \in T : x \in Nat /\ x <= l BY <1>2, <2>3, <2>6 DEF LargestUntil
  <2>9. Max(T) = l BY <2>7, <2>8, LargestIs
  <2> QED BY <2>4, <2>9 DEF T
<1>11. ASSUME Cardinality(lines) = RoundSize, NEW s \in shared
       PROVE  s.c_max = Max({PredictedCost(m, i) : m \in lines, i \in Instances})
  <2>1. Decided = Requests
    <3> DEFINE f == [r \in Decided |-> Noted(r, decided[r])]
    <3>1. f \in Surjection(Decided, lines)
      <4>1. f \in [Decided -> lines] BY <1>3
      <4>2. \A m \in lines : \E r \in Decided : f[r] = m BY <1>3
      <4> HIDE DEF f
      <4> QED BY <4>1, <4>2, Fun_IsSurj
    <3>2. IsFiniteSet(Decided) /\ Cardinality(Decided) \in Nat /\ Cardinality(Decided) <= RoundSize
          /\ (Cardinality(Decided) = RoundSize => Decided = Requests)
      BY <1>1, DecidedAre
    <3>3. Cardinality(lines) <= Cardinality(Decided) BY <3>1, <3>2, FS_Surjection
    <3>4. RoundSize \in Nat BY RoundAssumption
    <3> QED BY <1>11, <3>2, <3>3, <3>4
  <2> DEFINE S == {CostOf(x[2], x[1]) : x \in Requests \X Instances}
             T == {PredictedCost(m, i) : m \in lines, i \in Instances}
  <2>2. s.c_max = Max(S)
    <3>1. s = RoundScales(0) BY <1>8
    <3>2. RoundScales(0).c_max = Max(S) BY DEF RoundScales
    <3> QED BY <3>1, <3>2
  <2>3. \A y : y \in S <=> \E r \in Requests, i \in Instances : y = CostOf(i, r)
    <3>1. ASSUME NEW r \in Requests, NEW i \in Instances PROVE CostOf(i, r) \in S
      <4>1. <<r, i>> \in Requests \X Instances /\ <<r, i>>[1] = r /\ <<r, i>>[2] = i OBVIOUS
      <4> QED BY <4>1
    <3> QED BY <3>1
  <2>4. ASSUME NEW y \in T PROVE y \in S
    <3>1. PICK m \in lines : \E i \in Instances : y = PredictedCost(m, i) OBVIOUS
    <3>2. PICK i \in Instances : y = PredictedCost(m, i) BY <3>1
    <3>3. PICK r \in Decided : m = Noted(r, decided[r]) BY <1>3
    <3>4. PredictedCost(m, i) = CostOf(i, r) BY <3>3, DecidedLines
    <3> QED BY <2>1, <2>3, <3>2, <3>4
  <2>5. ASSUME NEW y \in S PROVE y \in T
    <3>1. PICK r \in Requests : \E i \in Instances : y = CostOf(i, r) BY <2>3
    <3>2. PICK i \in Instances : y = CostOf(i, r) BY <3>1
    <3> DEFINE m == Noted(r, decided[r])
    <3>3. m \in lines BY <1>3, <2>1
    <3>4. PredictedCost(m, i) = CostOf(i, r) BY <2>1, DecidedLines
    <3> HIDE DEF m
    <3> QED BY <3>2, <3>3, <3>4
  <2>6. S = T
    <3> HIDE DEF S, T
    <3> QED BY <2>4, <2>5
  <2> HIDE DEF S, T
  <2>7. s.c_max = Max(T) BY <2>2, <2>6
  <2> QED BY <2>7 DEF T
<1> QED BY <1>9, <1>10, <1>11 DEF ScalesFit, lines

LEMMA LinesFitRound ==
  ASSUME GateInv, Decided # {}
  PROVE  RoundFitsConfig(LinesOf(Decided))
<1> DEFINE lines == LinesOf(Decided)
<1>1. Typed /\ Numbered BY DEF GateInv, RoundInv
<1>2. \A line : line \in lines <=> \E r \in Decided : line = Noted(r, decided[r]) BY LinesAre
<1>3. cfg.over = "round" => ScalesFit(lines) BY LinesFitScales
<1> HIDE DEF lines
<1>4. ASSUME NEW m \in lines
      PROVE  \E r \in Decided : m = Noted(r, decided[r]) /\ m.evidence = decided[r] /\ m.round_size = RoundSize
  BY <1>2, DecidedLines
<1>5. \A m \in lines : m.evidence.round_pos < m.round_size
  <2>1. Cardinality(Decided) \in Nat /\ Cardinality(Decided) <= RoundSize BY <1>1, DecidedAre
  <2>2. RoundSize \in Nat BY RoundAssumption
  <2>3. \A r \in Decided : decided[r].round_pos < RoundSize BY <1>1, <2>1, <2>2 DEF Numbered
  <2> QED BY <1>4, <2>3
<1>6. ASSUME NEW m \in lines, NEW n \in lines, m.evidence.round_pos = n.evidence.round_pos
      PROVE  m = n
  <2>1. PICK q \in Decided : m = Noted(q, decided[q]) /\ m.evidence = decided[q] BY <1>4
  <2>2. PICK r \in Decided : n = Noted(r, decided[r]) /\ n.evidence = decided[r] BY <1>4
  <2>3. q = r BY <1>1, <1>6, <2>1, <2>2 DEF Numbered
  <2> QED BY <2>1, <2>2, <2>3
<1>7. ASSUME cfg.lpt # "off", NEW m \in lines, NEW n \in lines, m.evidence.round_pos < n.evidence.round_pos
      PROVE  n.evidence.lpt_key <= m.evidence.lpt_key
  <2>1. PICK q \in Decided : m = Noted(q, decided[q]) /\ m.evidence = decided[q] BY <1>4
  <2>2. PICK r \in Decided : n = Noted(r, decided[r]) /\ n.evidence = decided[r] BY <1>4
  <2>3. LongestFirst BY DEF GateInv
  <2> QED BY <1>7, <2>1, <2>2, <2>3 DEF LongestFirst
<1> QED BY <1>3, <1>5, <1>6, <1>7 DEF RoundFitsConfig, lines

\* The gate raises no false alarm: it accepts the lines of every round, whole or cut off, whatever the loads, the
\* budgets and the ties (gates/arm.py, against assign.py and score.py).
THEOREM RoundsAreAccepted == HeadsPredict => (Spec => []GateAcceptsEveryRound)
<1> SUFFICES ASSUME HeadsPredict PROVE Spec => []GateAcceptsEveryRound OBVIOUS
<1>1. Init => GateInv BY InitGateInv
<1>2. GateInv /\ [Next]_vars => GateInv' BY StepKeepsGateInv
<1>3. GateInv => GateAcceptsEveryRound BY LinesFitRound DEF GateInv, LinesFit, GateAcceptsEveryRound
<1> QED BY <1>1, <1>2, <1>3, PTL DEF Spec
=============================================================================
