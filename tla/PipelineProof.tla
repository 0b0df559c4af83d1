----------------------------- MODULE PipelineProof -----------------------------
(***************************************************************************)
(* The token ledger keeps at least one predicted token per open dispatch.   *)
(* The pipeline keeps that ledger and its accounts, gives the client whole  *)
(* replies only, and rotates evenly, for any number of requests, instances  *)
(* and models, and every document that parses and loads.  The gates accept  *)
(* the line of every pick.                                                  *)
(***************************************************************************)
EXTENDS PipelineGate, FiniteSetTheorems, FunctionTheorems, SequenceTheorems, WellFoundedInduction,
        TLAPS

-----------------------------------------------------------------------------
(* The token ledger *)

\* RemainingPositive alone is not inductive: dispatching a token relies on its stream being empty.
LedgerInv ==
  /\ TypeOK
  /\ RemainingPositive
  /\ \A t \in Tokens : predicted[t] = 0 => produced[t] = 0 /\ t \notin Open

\* A record_progress leaves at least one predicted token, wherever the stream is.
LEMMA ExtendedIsAhead ==
  ASSUME predicted \in [Tokens -> Nat], NEW t \in Tokens, NEW n \in Nat
  PROVE  Extended(t, n) \in Nat /\ Extended(t, n) > n
BY LedgerAssumption DEF Extended

LEMMA DispatchKeepsInv ==
  ASSUME LedgerInv, NEW t \in Tokens, NEW i \in Instances, NEW n \in 1 .. MaxTokens, RecordDispatch(t, i, n)
  PROVE  LedgerInv'
<1> USE DEF LedgerInv, TypeOK
<1>1. TypeOK' BY LedgerAssumption DEF RecordDispatch, Dispatched
<1>2. Open' = Open \cup {t}
  <2>1. \A j \in Instances : open_tokens'[j] = IF j = i THEN open_tokens[i] \cup {t} ELSE open_tokens[j]
    BY DEF RecordDispatch, Dispatched
  <2>2. Open' \subseteq Open \cup {t} BY <2>1 DEF Open
  <2>3. Open \cup {t} \subseteq Open' BY <2>1 DEF Open
  <2> QED BY <2>2, <2>3
<1>3. \A u \in Tokens : predicted'[u] = (IF u = t THEN n ELSE predicted[u]) /\ produced'[u] = produced[u]
  BY DEF RecordDispatch, Dispatched
<1>4. RemainingPositive'
  <2> SUFFICES ASSUME NEW u \in Open' PROVE predicted'[u] - produced'[u] >= 1
    BY DEF RemainingPositive, Remaining
  <2>1. CASE u = t BY <1>3, <2>1, LedgerAssumption DEF RecordDispatch, Dispatched
  <2>2. CASE u # t
    <3>1. u \in Open /\ u \in Tokens BY <1>2, <2>2 DEF Open
    <3> QED BY <1>3, <2>2, <3>1 DEF RemainingPositive, Remaining
  <2> QED BY <2>1, <2>2
<1> QED BY <1>1, <1>2, <1>3, <1>4, LedgerAssumption

LEMMA ProgressKeepsInv ==
  ASSUME LedgerInv, NEW t \in Tokens, NEW n \in 0 .. MaxTokens, RecordProgress(t, n)
  PROVE  LedgerInv'
<1> USE DEF LedgerInv, TypeOK
<1>1. n \in Nat /\ Extended(t, n) \in Nat /\ Extended(t, n) > n BY LedgerAssumption, ExtendedIsAhead
<1>2. TypeOK' BY <1>1 DEF RecordProgress, Progressed
<1>3. \A u \in Tokens : /\ predicted'[u] = IF u = t THEN Extended(t, n) ELSE predicted[u]
                        /\ produced'[u] = IF u = t THEN n ELSE produced[u]
  BY DEF RecordProgress, Progressed
<1>4. Open' = Open /\ Open \subseteq Tokens BY DEF RecordProgress, Progressed, Open
<1>5. RemainingPositive' BY <1>1, <1>2, <1>3, <1>4 DEF RemainingPositive, Remaining
<1>6. \A u \in Tokens : predicted'[u] = 0 => produced'[u] = 0 /\ u \notin Open'
  BY <1>1, <1>3, <1>4
<1> QED BY <1>2, <1>5, <1>6

LEMMA CloseKeepsInv ==
  ASSUME LedgerInv, NEW t \in Tokens, NEW i \in Instances, Close(t, i)
  PROVE  LedgerInv'
<1>1. TypeOK' BY DEF LedgerInv, TypeOK, Close, Closed
<1>2. Open' \subseteq Open
  <2>1. \A j \in Instances : open_tokens'[j] \subseteq open_tokens[j] BY DEF LedgerInv, TypeOK, Close, Closed
  <2> QED BY <2>1 DEF Open
<1> QED BY <1>1, <1>2 DEF LedgerInv, RemainingPositive, Remaining, Close, Closed

\* Every open token has decode work left (telemetry.py: DispatchToken.remaining, record_progress).
THEOREM AlwaysRemaining == Spec => []RemainingPositive
<1>1. Init => LedgerInv BY DEF Init, LedgerInv, TypeOK, RemainingPositive, Remaining, Open
<1>2. LedgerInv /\ [Next]_vars => LedgerInv'
  <2>1. LedgerInv /\ Next => LedgerInv' BY DispatchKeepsInv, ProgressKeepsInv, CloseKeepsInv DEF Next
  <2>2. LedgerInv /\ UNCHANGED vars => LedgerInv' BY DEF vars, LedgerInv, TypeOK, RemainingPositive, Remaining, Open
  <2> QED BY <2>1, <2>2
<1>3. LedgerInv => RemainingPositive BY DEF LedgerInv
<1> QED BY <1>1, <1>2, <1>3, PTL DEF Spec

-----------------------------------------------------------------------------
(* Orders on finite sets, by the number of elements below each *)

LEMMA LeastNatural ==
  ASSUME NEW T, T \subseteq Nat, T # {}
  PROVE  \E x \in T : \A y \in T : x <= y
<1>1. PICK x \in T : \A y \in T : ~(<<y, x>> \in OpToRel(<, Nat))
  BY NatLessThanWellFounded, WFMin
<1>2. \A y \in T : ~(y < x) BY <1>1 DEF OpToRel
<1>3. \A y \in T : x <= y BY <1>2
<1> QED BY <1>3

\* A total preorder has a least element.
LEMMA LeastExists ==
  ASSUME NEW S, IsFiniteSet(S), S # {},
         NEW R,
         \A x, y \in S : <<x, y>> \in R \/ <<y, x>> \in R,
         \A x, y, z \in S : <<x, y>> \in R /\ <<y, z>> \in R => <<x, z>> \in R
  PROVE  \E x \in S : \A y \in S : <<x, y>> \in R
<1> DEFINE Below(x) == {y \in S : <<y, x>> \in R}
<1>1. \A x \in S : IsFiniteSet(Below(x)) /\ Cardinality(Below(x)) \in Nat
  BY FS_Subset, FS_CardinalityType
<1> DEFINE T == {Cardinality(Below(x)) : x \in S}
<1>2. PICK n \in T : \A m \in T : n <= m
  <2> HIDE DEF Below
  <2>1. T \subseteq Nat /\ T # {} BY <1>1
  <2> HIDE DEF T
  <2> QED BY <2>1, LeastNatural
<1>3. PICK x \in S : n = Cardinality(Below(x)) BY <1>2
<1>4. SUFFICES ASSUME NEW y \in S, <<x, y>> \notin R PROVE FALSE BY <1>3
<1>5. <<y, x>> \in R BY <1>4
<1>6. Below(y) \subseteq Below(x) BY <1>5
<1>7. x \in Below(x) /\ x \notin Below(y) BY <1>4
<1>8. Cardinality(Below(y)) <= Cardinality(Below(x)) /\ Cardinality(Below(y)) # Cardinality(Below(x))
  <2>1. Below(y) \in SUBSET Below(x) BY <1>6
  <2>2. Below(y) # Below(x) BY <1>7
  <2> HIDE DEF Below
  <2> QED BY <1>1, <2>1, <2>2, FS_Subset
<1>9. Cardinality(Below(x)) <= Cardinality(Below(y))
  <2> HIDE DEF Below
  <2> QED BY <1>2, <1>3
<1> HIDE DEF Below
<1> QED BY <1>1, <1>8, <1>9

\* A finite set with a strict linear order has an enumeration in that order.
LEMMA OrderedExists ==
  ASSUME NEW S, IsFiniteSet(S),
         NEW R,
         \A x \in S : <<x, x>> \notin R,
         \A x, y \in S : x = y \/ <<x, y>> \in R \/ <<y, x>> \in R,
         \A x, y, z \in S : <<x, y>> \in R /\ <<y, z>> \in R => <<x, z>> \in R
  PROVE  \E seq \in [1 .. Cardinality(S) -> S] :
           \A j, k \in 1 .. Cardinality(S) : j < k => <<seq[j], seq[k]>> \in R
<1> DEFINE Below(x) == {y \in S : <<y, x>> \in R}
           n == Cardinality(S)
           rank == [x \in S |-> Cardinality(Below(x)) + 1]
<1>1. n \in Nat BY FS_CardinalityType
<1>2. \A x \in S : IsFiniteSet(Below(x)) /\ Cardinality(Below(x)) \in Nat
  BY FS_Subset, FS_CardinalityType
<1>3. \A x \in S : rank[x] \in 1 .. n
  <2> SUFFICES ASSUME NEW x \in S PROVE rank[x] \in 1 .. n OBVIOUS
  <2>1. Below(x) \in SUBSET S /\ Below(x) # S OBVIOUS
  <2>2. rank[x] = Cardinality(Below(x)) + 1 OBVIOUS
  <2> HIDE DEF Below, rank
  <2>3. Cardinality(Below(x)) <= Cardinality(S) /\ Cardinality(Below(x)) # Cardinality(S)
    BY <2>1, FS_Subset
  <2> QED BY <1>1, <1>2, <2>2, <2>3
<1>4. \A x, y \in S : <<x, y>> \in R => rank[x] < rank[y]
  <2> SUFFICES ASSUME NEW x \in S, NEW y \in S, <<x, y>> \in R PROVE rank[x] < rank[y] OBVIOUS
  <2>1. Below(x) \in SUBSET Below(y) OBVIOUS
  <2>2. Below(x) # Below(y) OBVIOUS
  <2>3. rank[x] = Cardinality(Below(x)) + 1 /\ rank[y] = Cardinality(Below(y)) + 1 OBVIOUS
  <2> HIDE DEF Below, rank
  <2>4. Cardinality(Below(x)) <= Cardinality(Below(y)) /\ Cardinality(Below(x)) # Cardinality(Below(y))
    BY <1>2, <2>1, <2>2, FS_Subset
  <2> QED BY <1>2, <2>3, <2>4
<1>5. rank \in Injection(S, 1 .. n)
  <2>1. rank \in [S -> 1 .. n] BY <1>3
  <2> HIDE DEF rank
  <2>2. ASSUME NEW x \in S, NEW y \in S, rank[x] = rank[y] PROVE x = y
    <3>1. rank[x] \in Int /\ rank[y] \in Int BY <1>3
    <3>2. ~(rank[x] < rank[y]) /\ ~(rank[y] < rank[x]) BY <2>2, <3>1
    <3>3. <<x, y>> \notin R /\ <<y, x>> \notin R BY <1>4, <3>2
    <3> QED BY <3>3
  <2> QED BY <2>1, <2>2, Fun_IsInj
<1>6. \A k \in 1 .. n : \E x \in S : rank[x] = k
  <2> HIDE DEF rank
  <2>1. IsFiniteSet(1 .. n) /\ Cardinality(1 .. n) = n
    <3>1. IsFiniteSet(1 .. n) /\ Cardinality(1 .. n) = IF 1 > n THEN 0 ELSE n - 1 + 1 BY <1>1, FS_Interval
    <3> HIDE DEF n
    <3> QED BY <1>1, <3>1
  <2>2. rank \in Surjection(S, 1 .. n) BY <1>5, <2>1, FS_Injection
  <2> QED BY <2>2 DEF Surjection
<1> DEFINE seq == [k \in 1 .. n |-> CHOOSE x \in S : rank[x] = k]
<1>7. seq \in [1 .. n -> S] /\ \A k \in 1 .. n : rank[seq[k]] = k
  <2> HIDE DEF rank, n
  <2> QED BY <1>6
<1>8. \A j, k \in 1 .. n : j < k => <<seq[j], seq[k]>> \in R
  <2> SUFFICES ASSUME NEW j \in 1 .. n, NEW k \in 1 .. n, j < k PROVE <<seq[j], seq[k]>> \in R OBVIOUS
  <2> HIDE DEF rank, n, seq
  <2>1. seq[j] \in S /\ seq[k] \in S /\ rank[seq[j]] = j /\ rank[seq[k]] = k BY <1>7
  <2>2. seq[j] # seq[k] BY <2>1
  <2>3. <<seq[k], seq[j]>> \notin R BY <1>4, <2>1
  <2> QED BY <2>1, <2>2, <2>3
<1> QED BY <1>7, <1>8

LEMMA MinIsLeast ==
  ASSUME NEW T, T \subseteq Nat, T # {}
  PROVE  Min(T) \in T /\ \A y \in T : Min(T) <= y
<1>1. \E x \in T : \A y \in T : x <= y BY LeastNatural
<1> QED BY <1>1 DEF Min

LEMMA MaxIsGreatest ==
  ASSUME NEW T, T \subseteq Nat, IsFiniteSet(T), T # {}
  PROVE  Max(T) \in T /\ \A y \in T : Max(T) >= y
<1> DEFINE R == {e \in T \X T : e[1] >= e[2]}
<1>1. \A x, y \in T : <<x, y>> \in R <=> x >= y OBVIOUS
<1> HIDE DEF R
<1>2. /\ \A x, y \in T : <<x, y>> \in R \/ <<y, x>> \in R
      /\ \A x, y, z \in T : <<x, y>> \in R /\ <<y, z>> \in R => <<x, z>> \in R
  BY <1>1
<1>3. \E x \in T : \A y \in T : <<x, y>> \in R BY <1>2, LeastExists
<1>4. \E x \in T : \A y \in T : x >= y BY <1>1, <1>3
<1> QED BY <1>4 DEF Max

-----------------------------------------------------------------------------
(* The dispatchers *)

LEMMA FleetTypes == Len(ModelOf) \in Nat /\ Fleet \subseteq Nat /\ IsFiniteSet(Fleet) /\ Fleet # {}
<1>1. Len(ModelOf) \in Nat /\ Len(ModelOf) > 0 BY DispatchAssumption
<1>2. IsFiniteSet(1 .. Len(ModelOf)) BY <1>1, FS_Interval
<1> QED BY <1>1, <1>2 DEF Fleet

LEMMA ModelsOf == \A i \in Fleet : ModelOf[i] \in Models
BY DispatchAssumption DEF Fleet, Models, Range

\* The candidates in fleet order are a sequence of all of them, each once.
LEMMA FleetOrder ==
  ASSUME NEW C, C \subseteq Fleet
  PROVE  /\ IsFiniteSet(C) /\ Cardinality(C) \in Nat
         /\ InFleetOrder(C) \in [1 .. Cardinality(C) -> C]
         /\ \A j, k \in 1 .. Cardinality(C) : j < k => InFleetOrder(C)[j] < InFleetOrder(C)[k]
         /\ \A i \in C : \E k \in 1 .. Cardinality(C) : InFleetOrder(C)[k] = i
<1>1. IsFiniteSet(C) /\ Cardinality(C) \in Nat BY FleetTypes, FS_Subset, FS_CardinalityType
<1>2. C \subseteq Nat BY FleetTypes
<1> DEFINE R == {e \in C \X C : e[1] < e[2]}
           n == Cardinality(C)
           seq == InFleetOrder(C)
<1>3. \A x, y \in C : <<x, y>> \in R <=> x < y OBVIOUS
<1> HIDE DEF R
<1>4. /\ \A x \in C : <<x, x>> \notin R
      /\ \A x, y \in C : x = y \/ <<x, y>> \in R \/ <<y, x>> \in R
      /\ \A x, y, z \in C : <<x, y>> \in R /\ <<y, z>> \in R => <<x, z>> \in R
  BY <1>2, <1>3
<1>5. PICK s \in [1 .. Cardinality(C) -> C] :
        \A j, k \in 1 .. Cardinality(C) : j < k => <<s[j], s[k]>> \in R
  BY <1>1, <1>4, OrderedExists
<1>6. \A j, k \in DOMAIN s : j < k => s[j] < s[k] BY <1>3, <1>5
<1>7. seq \in [1 .. n -> C] /\ \A j, k \in DOMAIN seq : j < k => seq[j] < seq[k]
  <2>1. \E t \in [1 .. Cardinality(C) -> C] : \A j, k \in DOMAIN t : j < k => t[j] < t[k] BY <1>6
  <2> QED BY <2>1 DEF InFleetOrder
<1> HIDE DEF seq, n
<1>8. seq \in Injection(1 .. n, C)
  <2>1. ASSUME NEW j \in 1 .. n, NEW k \in 1 .. n, seq[j] = seq[k] PROVE j = k
    <3>1. seq[j] \in Nat /\ seq[k] \in Nat BY <1>2, <1>7
    <3>2. ~(seq[j] < seq[k]) /\ ~(seq[k] < seq[j]) BY <2>1, <3>1
    <3>3. ~(j < k) /\ ~(k < j) BY <1>7, <3>2
    <3> QED BY <3>3
  <2> QED BY <1>7, <2>1, Fun_IsInj
<1>9. Cardinality(1 .. n) = n /\ n \in Nat
  <2>1. n \in Nat BY <1>1 DEF n
  <2>2. Cardinality(1 .. n) = IF 1 > n THEN 0 ELSE n - 1 + 1 BY <2>1, FS_Interval
  <2> QED BY <2>1, <2>2
<1>10. seq \in Surjection(1 .. n, C) BY <1>1, <1>8, <1>9, FS_Injection DEF n
<1>11. \A i \in C : \E k \in 1 .. n : seq[k] = i BY <1>10 DEF Surjection
<1> QED BY <1>1, <1>7, <1>11 DEF seq, n

Memories == [next : [Models -> Nat], assigned : [Fleet -> Nat], samples : [Fleet -> Seq(Nat)]]

\* What a dispatcher compares is of the candidates, and all of them unless it draws.
LEMMA ComparesCandidates ==
  ASSUME NEW C, C \subseteq Fleet, C # {}, NEW type \in Types, NEW seq \in Comparisons(type, C)
  PROVE  /\ ToSet(seq) \subseteq C /\ ToSet(seq) # {}
         /\ type # "po2" => seq = InFleetOrder(C) /\ ToSet(seq) = C
         /\ type = "po2" => \A queue : Shorter(seq, queue) \in C
<1>1. /\ IsFiniteSet(C) /\ Cardinality(C) \in Nat /\ Cardinality(C) # 0
      /\ InFleetOrder(C) \in [1 .. Cardinality(C) -> C]
      /\ \A i \in C : \E k \in 1 .. Cardinality(C) : InFleetOrder(C)[k] = i
  BY FleetOrder, FS_EmptySet
<1>2. ToSet(InFleetOrder(C)) = C BY <1>1 DEF ToSet
<1>3. CASE seq = InFleetOrder(C)
  <2>1. type = "po2" => \A queue : Shorter(seq, queue) \in C
    <3>1. seq \in Seq(C) /\ Len(seq) = Cardinality(C) BY <1>1, <1>3
    <3>2. 1 \in 1 .. Len(seq) /\ Len(seq) \in 1 .. Len(seq) BY <1>1, <3>1
    <3>3. seq[1] \in C /\ Last(seq) \in C BY <3>1, <3>2 DEF Last
    <3> QED BY <3>3 DEF Shorter
  <2> QED BY <1>2, <1>3, <2>1
<1>4. CASE type = "po2" /\ seq \in C \X C
  <2>1. ToSet(seq) = {seq[1], seq[2]} /\ seq[1] \in C /\ seq[2] \in C BY <1>4 DEF ToSet
  <2>2. Last(seq) = seq[2] BY <1>4 DEF Last
  <2> QED BY <1>4, <2>1, <2>2 DEF Shorter
<1> QED BY <1>3, <1>4 DEF Comparisons, Draws

\* The shortest queue, the least recently assigned among equals, exists.
LEMMA LeastOutstandingExists ==
  ASSUME NEW C, C \subseteq Fleet, C # {}, NEW d \in Memories, NEW queue, \A i \in C : queue[i] \in Int
  PROVE  \A p \in LeastOutstanding(d, C, queue) :
           /\ p[1] \in C /\ p[2] \in Memories /\ p[2].next = d.next
           /\ \A j \in C : queue[p[1]] <= queue[j]
<1> DEFINE better(i, j) == \/ queue[i] < queue[j]
                           \/ queue[i] = queue[j] /\ d.assigned[i] <= d.assigned[j]
           R == {e \in C \X C : better(e[1], e[2])}
           B == {x \in C : \A j \in C : better(x, j)}
           i == Min(B)
           m == Max(Range(d.assigned)) + 1
<1>1. \A x \in C : d.assigned[x] \in Nat BY DEF Memories
<1>2. \A x, y \in C : <<x, y>> \in R <=> better(x, y) OBVIOUS
<1>3. /\ \A x, y \in C : better(x, y) \/ better(y, x)
      /\ \A x, y, z \in C : better(x, y) /\ better(y, z) => better(x, z)
  BY <1>1
<1>4. B \subseteq C /\ (\A x \in B, j \in C : better(x, j)) /\ \A x \in C : (\A j \in C : better(x, j)) => x \in B
  OBVIOUS
<1>5. \A x, j \in C : better(x, j) => queue[x] <= queue[j] OBVIOUS
<1>6. LeastOutstanding(d, C, queue) = {<<i, [d EXCEPT !.assigned[i] = m]>>} BY DEF LeastOutstanding
<1> HIDE DEF better, R, B
<1>7. B # {}
  <2>1. /\ \A x, y \in C : <<x, y>> \in R \/ <<y, x>> \in R
        /\ \A x, y, z \in C : <<x, y>> \in R /\ <<y, z>> \in R => <<x, z>> \in R
    BY <1>2, <1>3
  <2>2. IsFiniteSet(C) BY FleetOrder
  <2>3. \E x \in C : \A j \in C : <<x, j>> \in R BY <2>1, <2>2, LeastExists
  <2> QED BY <1>2, <1>4, <2>3
<1>8. i \in B
  <2>1. B \subseteq Nat BY <1>4, FleetTypes
  <2> QED BY <1>7, <2>1, MinIsLeast
<1>9. m \in Nat
  <2>1. Range(d.assigned) \subseteq Nat /\ Range(d.assigned) # {}
    <3>1. d.assigned \in [Fleet -> Nat] BY DEF Memories
    <3>2. PICK j \in Fleet : TRUE BY FleetTypes
    <3> QED BY <3>1, <3>2 DEF Range
  <2>2. IsFiniteSet(Range(d.assigned))
    <3>1. d.assigned \in Surjection(Fleet, Range(d.assigned)) BY Fun_RangeProperties DEF Memories
    <3> QED BY <3>1, FS_Surjection, FleetTypes
  <2>3. Max(Range(d.assigned)) \in Nat BY <2>1, <2>2, MaxIsGreatest
  <2> QED BY <2>3
<1> HIDE DEF i, m
<1>10. i \in C /\ \A j \in C : queue[i] <= queue[j] BY <1>4, <1>5, <1>8
<1> DEFINE after == [d EXCEPT !.assigned[i] = m]
<1>11. after \in Memories /\ after.next = d.next BY <1>9, <1>10 DEF Memories
<1>12. LeastOutstanding(d, C, queue) = {<<i, after>>} BY <1>6
<1> HIDE DEF after
<1> QED BY <1>10, <1>11, <1>12

LEMMA RotationPicks ==
  ASSUME NEW C, C \subseteq Fleet, C # {}, NEW d \in Memories
  PROVE  LET key == ModelOf[Min(C)]
             k == d.next[key] % Cardinality(C)
         IN  /\ key \in Models /\ k \in 0 .. Cardinality(C) - 1 /\ k + 1 \in 1 .. Cardinality(C)
             /\ \A p \in RoundRobin(d, C) :
                  /\ p[1] = InFleetOrder(C)[k + 1] /\ p[1] \in C
                  /\ p[2] = [d EXCEPT !.next[key] = k + 1] /\ p[2] \in Memories
<1> DEFINE key == ModelOf[Min(C)]
           n == Cardinality(C)
           k == d.next[key] % n
<1>1. n \in Nat /\ n # 0 /\ InFleetOrder(C) \in [1 .. n -> C]
  BY FleetOrder, FS_EmptySet
<1>2. Min(C) \in C
  <2>1. C \subseteq Nat BY FleetTypes
  <2> QED BY <2>1, MinIsLeast
<1>3. key \in Models BY <1>2, ModelsOf
<1>4. RoundRobin(d, C) = {<<InFleetOrder(C)[k + 1], [d EXCEPT !.next[key] = k + 1]>>} BY DEF RoundRobin
<1> HIDE DEF key, n
<1>5. d.next[key] \in Nat BY <1>3 DEF Memories
<1>6. k \in 0 .. n - 1 BY <1>1, <1>5
<1> HIDE DEF k
<1>7. k + 1 \in 1 .. n /\ k + 1 \in Nat BY <1>1, <1>6
<1>8. InFleetOrder(C)[k + 1] \in C BY <1>1, <1>7
<1>9. [d EXCEPT !.next[key] = k + 1] \in Memories BY <1>3, <1>7 DEF Memories
<1> QED BY <1>3, <1>4, <1>6, <1>7, <1>8, <1>9 DEF key, n, k

LEMMA FastestPicks ==
  ASSUME NEW C, C \subseteq Fleet, NEW d \in Memories
  PROVE  \A p \in LowestLatency(d, C) : p[1] \in C /\ p[2] \in Memories /\ p[2].next = d.next
<1> DEFINE kept == ZerosAdded(d.samples, C)
<1>1. kept \in [Fleet -> Seq(Nat)]
  <2>1. <<0>> \in Seq(Nat) OBVIOUS
  <2> QED BY <2>1 DEF ZerosAdded, Memories
<1> HIDE DEF kept
<1>2. [d EXCEPT !.samples = kept] \in Memories /\ [d EXCEPT !.samples = kept].next = d.next BY <1>1 DEF Memories
<1>3. \A p \in LowestLatency(d, C) : p[1] \in C /\ p[2] = [d EXCEPT !.samples = kept]
  BY DEF LowestLatency, kept
<1> QED BY <1>2, <1>3

\* The sum of a sequence is a number, and a zero adds nothing.
LEMMA SumOfNumbers ==
  ASSUME NEW s \in Seq(Nat)
  PROVE  SumOf(s) \in Nat /\ (s = <<>> \/ s = <<0>> => SumOf(s) = 0)
<1> DEFINE n == Len(s)
           Sums(f, m) == f = [k \in 0 .. m |-> IF k = 0 THEN 0 ELSE f[k - 1] + s[k]]
           sum == CHOOSE f : Sums(f, n)
<1>1. n \in Nat /\ \A k \in 1 .. n : s[k] \in Nat BY LenProperties
<1>2. SumOf(s) = sum[n] BY DEF SumOf
<1> HIDE DEF n
<1>3. \E f \in [0 .. n -> Nat] : Sums(f, n)
  <2> DEFINE T == {m \in 0 .. n : ~ \E f \in [0 .. m -> Nat] : Sums(f, m)}
  <2> SUFFICES ASSUME T # {} PROVE FALSE
    <3>1. n \in 0 .. n BY <1>1
    <3> HIDE DEF Sums
    <3> QED BY <3>1
  <2>1. PICK m \in T : \A l \in T : m <= l
    <3>1. T \subseteq Nat BY <1>1
    <3> HIDE DEF T
    <3> QED BY <3>1, LeastNatural
  <2>2. m # 0
    <3>1. Sums([k \in 0 .. 0 |-> 0], 0) OBVIOUS
    <3>2. [k \in 0 .. 0 |-> 0] \in [0 .. 0 -> Nat] OBVIOUS
    <3> HIDE DEF Sums
    <3> QED BY <2>1, <3>1, <3>2
  <2>3. m \in Nat /\ m \in 1 .. n /\ m - 1 \in 0 .. n /\ m - 1 \notin T
    <3>1. m \in 0 .. n BY <2>1
    <3>2. m \in Nat /\ m \in 1 .. n /\ m - 1 \in 0 .. n /\ ~(m <= m - 1) BY <1>1, <2>2, <3>1
    <3> HIDE DEF T
    <3> QED BY <2>1, <3>2
  <2>4. PICK f \in [0 .. m - 1 -> Nat] : Sums(f, m - 1) BY <2>3
  <2> DEFINE g == [k \in 0 .. m |-> IF k = m THEN f[m - 1] + s[m] ELSE f[k]]
  <2>5. g \in [0 .. m -> Nat]
    <3>1. s[m] \in Nat /\ f[m - 1] \in Nat BY <1>1, <2>3, <2>4
    <3>2. \A k \in 0 .. m : k = m \/ k \in 0 .. m - 1 BY <2>3
    <3>3. \A k \in 0 .. m : (IF k = m THEN f[m - 1] + s[m] ELSE f[k]) \in Nat BY <2>4, <3>1, <3>2
    <3> QED BY <3>3
  <2>6. ASSUME NEW k \in 0 .. m PROVE g[k] = IF k = 0 THEN 0 ELSE g[k - 1] + s[k]
    <3>1. CASE k = 0 BY <2>3, <2>4, <3>1
    <3>2. CASE k \in 1 .. m - 1
      <4>1. k \in 0 .. m - 1 /\ k - 1 \in 0 .. m - 1 /\ k # 0 /\ k # m /\ k - 1 # m BY <2>3, <3>2
      <4>2. f[k] = f[k - 1] + s[k] BY <2>4, <4>1
      <4>3. g[k] = f[k] /\ g[k - 1] = f[k - 1] BY <2>3, <4>1
      <4> QED BY <4>1, <4>2, <4>3
    <3>3. CASE k = m
      <4>1. m - 1 \in 0 .. m /\ m - 1 # m /\ m # 0 BY <2>3
      <4> QED BY <3>3, <4>1
    <3> QED BY <2>3, <3>1, <3>2, <3>3
  <2>7. g = [k \in 0 .. m |-> IF k = 0 THEN 0 ELSE g[k - 1] + s[k]]
    <3>1. g = [k \in 0 .. m |-> g[k]] BY <2>5
    <3> HIDE DEF g
    <3> QED BY <2>6, <3>1
  <2> HIDE DEF g
  <2> QED BY <2>1, <2>5, <2>7
<1>4. Sums(sum, n)
  <2> HIDE DEF Sums
  <2> QED BY <1>3
<1> HIDE DEF sum
<1>5. \A k \in 0 .. n : sum[k] \in Nat
  <2> DEFINE T == {k \in 0 .. n : sum[k] \notin Nat}
  <2> SUFFICES ASSUME T # {} PROVE FALSE OBVIOUS
  <2>1. PICK m \in T : \A l \in T : m <= l
    <3>1. T \subseteq Nat BY <1>1
    <3> HIDE DEF T
    <3> QED BY <3>1, LeastNatural
  <2>2. CASE m = 0
    <3>1. sum[0] = 0 BY <1>1, <1>4
    <3> QED BY <2>1, <2>2, <3>1
  <2>3. CASE m # 0
    <3>1. m \in 1 .. n /\ m - 1 \in 0 .. n /\ ~(m <= m - 1) BY <1>1, <2>1, <2>3
    <3>2. sum[m - 1] \in Nat BY <2>1, <3>1
    <3>3. sum[m] = sum[m - 1] + s[m] BY <1>4, <3>1
    <3> QED BY <1>1, <2>1, <3>1, <3>2, <3>3
  <2> QED BY <2>2, <2>3
<1>6. s = <<>> => sum[n] = 0
  <2> HAVE s = <<>>
  <2>1. n = 0 BY DEF n
  <2> QED BY <1>4, <2>1
<1>7. s = <<0>> => sum[n] = 0
  <2> HAVE s = <<0>>
  <2>1. n = 1 /\ s[1] = 0 BY DEF n
  <2>2. sum[0] = 0 /\ sum[1] = sum[0] + s[1] BY <1>4, <2>1
  <2> QED BY <2>1, <2>2
<1>8. sum[n] \in Nat BY <1>1, <1>5
<1> QED BY <1>2, <1>6, <1>7, <1>8

\* An instance that is no slower once the zeros are added was no slower before.
LEMMA FastestIsNoSlower ==
  ASSUME NEW C, C \subseteq Fleet, NEW d \in Memories, NEW p \in LowestLatency(d, C), NEW j \in C
  PROVE  NoSlower(d.samples, p[1], j)
<1> DEFINE samples == d.samples
           kept == ZerosAdded(samples, C)
           i == p[1]
<1>1. samples \in [Fleet -> Seq(Nat)] /\ i \in C /\ NoSlower(kept, i, j) BY DEF LowestLatency, Memories
<1>2. \A x \in C : kept[x] = samples[x] \/ (samples[x] = <<>> /\ kept[x] = <<0>>)
  BY <1>1 DEF ZerosAdded
<1> HIDE DEF samples, kept, i
<1>3. <<0>> \in Seq(Nat) /\ <<>> \in Seq(Nat) /\ Len(<<0>>) = 1 /\ Len(<<>>) = 0 OBVIOUS
<1>4. SumOf(<<0>>) = 0 /\ SumOf(<<>>) = 0 BY <1>3, SumOfNumbers
<1>5. \A x \in C : /\ SumOf(kept[x]) = SumOf(samples[x]) /\ SumOf(samples[x]) \in Nat
                   /\ Len(kept[x]) \in Nat /\ Len(samples[x]) \in Nat
                   /\ samples[x] # <<>> => kept[x] = samples[x]
  <2> SUFFICES ASSUME NEW x \in C
               PROVE  /\ SumOf(kept[x]) = SumOf(samples[x]) /\ SumOf(samples[x]) \in Nat
                      /\ Len(kept[x]) \in Nat /\ Len(samples[x]) \in Nat
                      /\ samples[x] # <<>> => kept[x] = samples[x]
    OBVIOUS
  <2>1. samples[x] \in Seq(Nat) BY <1>1
  <2>2. SumOf(samples[x]) \in Nat /\ Len(samples[x]) \in Nat BY <2>1, SumOfNumbers, LenProperties
  <2>3. CASE kept[x] = samples[x] BY <2>2, <2>3
  <2>4. CASE samples[x] = <<>> /\ kept[x] = <<0>> BY <1>3, <1>4, <2>2, <2>4
  <2> QED BY <1>2, <2>3, <2>4
<1>6. CASE SumOf(samples[i]) = 0 BY <1>6 DEF NoSlower, samples, i
<1>7. CASE SumOf(samples[i]) # 0
  <2>1. samples[i] # <<>> /\ kept[i] = samples[i] BY <1>1, <1>4, <1>5, <1>7
  <2>2. SumOf(samples[i]) * Len(kept[j]) <= SumOf(samples[j]) * Len(samples[i])
    BY <1>1, <1>5, <1>7, <2>1 DEF NoSlower
  <2>3. SumOf(samples[i]) * Len(samples[j]) <= SumOf(samples[j]) * Len(samples[i])
    <3>1. CASE samples[j] = <<>>
      <4>1. Len(samples[j]) = 0 /\ SumOf(samples[j]) = 0 BY <1>3, <1>4, <3>1
      <4>2. SumOf(samples[i]) * 0 = 0 /\ 0 * Len(samples[i]) = 0 BY <1>1, <1>5
      <4> QED BY <4>1, <4>2
    <3>2. CASE samples[j] # <<>> BY <1>5, <2>2, <3>2
    <3> QED BY <3>1, <3>2
  <2> QED BY <2>3 DEF NoSlower, samples, i
<1> QED BY <1>6, <1>7

\* Whatever the dispatcher, its pick is a candidate, and only a rotation moves a rotation.
LEMMA PicksACandidate ==
  ASSUME NEW C, C \subseteq Fleet, C # {}, NEW d \in Memories, NEW type \in Types,
         NEW seq \in Comparisons(type, C), NEW queue, type = "least_outstanding" => \A i \in C : queue[i] \in Int
  PROVE  \A p \in Picks(type, d, seq, queue) :
           p[1] \in C /\ p[2] \in Memories /\ (type # "round_robin" => p[2].next = d.next)
<1>1. /\ ToSet(seq) \subseteq C
      /\ type # "po2" => ToSet(seq) = C
      /\ type = "po2" => Shorter(seq, queue) \in C
  BY ComparesCandidates
<1>2. CASE type = "round_robin" BY <1>1, <1>2, RotationPicks DEF Picks
<1>3. CASE type = "least_outstanding" BY <1>1, <1>3, LeastOutstandingExists DEF Picks
<1>4. CASE type = "po2" BY <1>1, <1>4 DEF Picks
<1>5. CASE type = "random" BY <1>1, <1>5 DEF Picks
<1>6. CASE type = "lowest_latency" BY <1>1, <1>6, FastestPicks DEF Picks
<1> QED BY <1>2, <1>3, <1>4, <1>5, <1>6 DEF Types

-----------------------------------------------------------------------------
(* The routers *)

LEMMA PoolIsTheFleet == \A m : InPool(m) => m \in Models
BY FleetAssumption, RouterAssumption DEF InPool, Contains, ToSet

LEMMA PoolServes == \A m \in Models : Candidates(m) # {} /\ Candidates(m) \subseteq Fleet
BY FleetTypes DEF Candidates, Models, Range, Fleet

LEMMA PlacesAreNatural == \A n : 1 .. n \subseteq Nat
OBVIOUS

LEMMA AvengersInPool ==
  ASSUME NEW artifact, NEW cluster, AvengersPro(artifact, cluster) # Fails
  PROVE  InPool(AvengersPro(artifact, cluster))
<1> DEFINE seq == UpstreamRanking(artifact, cluster)
           I == {i \in 1 .. Len(seq) : InPool(seq[i])}
           k == IF I # {} THEN Min(I) ELSE 0
<1>1. AvengersPro(artifact, cluster) = IF k = 0 THEN Fails ELSE seq[k]
  BY DEF AvengersPro, FirstOf, SelectInSeq
<1> HIDE DEF seq
<1>2. I # {} /\ k = Min(I) /\ AvengersPro(artifact, cluster) = seq[Min(I)] BY <1>1
<1>3. I \subseteq Nat BY PlacesAreNatural
<1>4. Min(I) \in I BY <1>2, <1>3, MinIsLeast
<1> QED BY <1>2, <1>4

\* RB-decoupled takes one of the tiers it considers: the best of finitely many scores exists.
LEMMA BestTierConsidered ==
  ASSUME NEW artifact, artifact.tiers \in Seq([tier : STRING, model : STRING]), Considered(artifact) # {},
         NEW scores, \A t \in Considered(artifact) : scores[t.tier] \in Int
  PROVE  /\ BestTier(artifact, scores) \in Considered(artifact)
         /\ \A u \in Considered(artifact) : scores[u.tier] <= scores[BestTier(artifact, scores).tier]
<1> DEFINE tiers == artifact.tiers
           C == Considered(artifact)
           best(t) == t \in C /\ \A u \in C : scores[u.tier] <= scores[t.tier]
           I == {i \in 1 .. Len(tiers) : best(tiers[i])}
           k == IF I # {} THEN Min(I) ELSE 0
           R == {e \in C \X C : scores[e[2].tier] <= scores[e[1].tier]}
<1>1. BestTier(artifact, scores) = IF k = 0 THEN Fails ELSE tiers[k]
  BY DEF BestTier, FirstOf, SelectInSeq
<1>2. /\ Len(tiers) \in Nat /\ DOMAIN tiers = 1 .. Len(tiers)
      /\ tiers \in [1 .. Len(tiers) -> [tier : STRING, model : STRING]]
  BY LenProperties
<1>3. C \subseteq ToSet(tiers) /\ \A t \in C : \E i \in 1 .. Len(tiers) : tiers[i] = t
  BY <1>2 DEF Considered, ToSet
<1>4. IsFiniteSet(C)
  <2>1. tiers \in Surjection(DOMAIN tiers, Range(tiers))
    <3>1. tiers \in [DOMAIN tiers -> [tier : STRING, model : STRING]] BY <1>2
    <3> QED BY <3>1, Fun_RangeProperties
  <2>2. IsFiniteSet(DOMAIN tiers)
    <3>1. IsFiniteSet(1 .. Len(tiers)) BY <1>2, FS_Interval
    <3> QED BY <1>2, <3>1
  <2>3. IsFiniteSet(Range(tiers)) BY <2>1, <2>2, FS_Surjection
  <2>4. C \subseteq Range(tiers) BY <1>3 DEF ToSet, Range
  <2> QED BY <2>3, <2>4, FS_Subset
<1>5. C # {} /\ \A t \in C : scores[t.tier] \in Int OBVIOUS
<1>6. \A x, y \in C : <<x, y>> \in R <=> scores[y.tier] <= scores[x.tier] OBVIOUS
<1> HIDE DEF tiers, C, R
<1>7. \E x \in C : \A y \in C : scores[y.tier] <= scores[x.tier]
  <2>1. /\ \A x, y \in C : <<x, y>> \in R \/ <<y, x>> \in R
        /\ \A x, y, z \in C : <<x, y>> \in R /\ <<y, z>> \in R => <<x, z>> \in R
    BY <1>5, <1>6
  <2>2. \E x \in C : \A y \in C : <<x, y>> \in R BY <1>4, <1>5, <2>1, LeastExists
  <2> QED BY <1>6, <2>2
<1>8. I # {} BY <1>3, <1>7
<1>9. I \subseteq Nat BY PlacesAreNatural
<1>10. Min(I) \in I BY <1>8, <1>9, MinIsLeast
<1>11. k # 0 /\ k = Min(I) /\ tiers[Min(I)] \in C BY <1>8, <1>10
<1>12. \A u \in C : scores[u.tier] <= scores[tiers[Min(I)].tier] BY <1>10
<1>13. BestTier(artifact, scores) = tiers[Min(I)] BY <1>1, <1>11
<1> HIDE DEF I, k
<1> QED BY <1>11, <1>12, <1>13 DEF C, tiers

\* The candidates of upstream in the order of their prices are those candidates.
LEMMA ByPriceOrders ==
  ASSUME NEW models, models \in Seq(STRING), ToSet(models) \subseteq DOMAIN Price
  PROVE  /\ \A k \in 1 .. Len(models) : ByPrice(models)[k] \in ToSet(models)
         /\ \A x \in ToSet(models) : \E k \in 1 .. Len(models) : ByPrice(models)[k] = x
         /\ \A j, k \in 1 .. Len(models) : j <= k => Price[ByPrice(models)[j]] <= Price[ByPrice(models)[k]]
<1> DEFINE n == Len(models)
           places == 1 .. n
           before(j, k) == \/ Price[models[j]] < Price[models[k]]
                           \/ Price[models[j]] = Price[models[k]] /\ j < k
           R == {e \in places \X places : before(e[1], e[2])}
<1>1. n \in Nat /\ DOMAIN models = places OBVIOUS
<1>2. \A k \in places : Price[models[k]] \in Nat /\ models[k] \in ToSet(models)
  BY <1>1, RouterAssumption DEF ToSet
<1>3. \A j, k \in places : <<j, k>> \in R <=> before(j, k) OBVIOUS
<1>4. /\ \A j \in places : ~before(j, j)
      /\ \A j, k \in places : j = k \/ before(j, k) \/ before(k, j)
      /\ \A j, k, l \in places : before(j, k) /\ before(k, l) => before(j, l)
  <2> DEFINE price == [k \in places |-> Price[models[k]]]
  <2>1. \A k \in places : price[k] \in Nat /\ Price[models[k]] = price[k] BY <1>2
  <2>2. \A k \in places : k \in Nat BY PlacesAreNatural
  <2> HIDE DEF price, n, places
  <2> QED BY <2>1, <2>2
<1>5. IsFiniteSet(places) /\ Cardinality(places) = n
  <2>1. IsFiniteSet(1 .. n) /\ Cardinality(1 .. n) = IF 1 > n THEN 0 ELSE n - 1 + 1 BY <1>1, FS_Interval
  <2> HIDE DEF n
  <2> QED BY <1>1, <2>1
<1>6. \E p \in [places -> places] : \A j, k \in places : j < k => before(p[j], p[k])
  <2> HIDE DEF before, R
  <2>1. /\ \A j \in places : <<j, j>> \notin R
        /\ \A j, k \in places : j = k \/ <<j, k>> \in R \/ <<k, j>> \in R
        /\ \A j, k, l \in places : <<j, k>> \in R /\ <<k, l>> \in R => <<j, l>> \in R
    BY <1>3, <1>4
  <2>2. 1 .. Cardinality(places) = places BY <1>5
  <2> HIDE DEF places, n
  <2>3. \E p \in [1 .. Cardinality(places) -> places] :
          \A j, k \in 1 .. Cardinality(places) : j < k => <<p[j], p[k]>> \in R
    BY <1>5, <2>1, OrderedExists
  <2>4. PICK p \in [places -> places] : \A j, k \in places : j < k => <<p[j], p[k]>> \in R BY <2>2, <2>3
  <2>5. \A j, k \in places : j < k => before(p[j], p[k])
    <3>1. \A j \in places : p[j] \in places BY <2>4
    <3> QED BY <1>3, <2>4, <3>1
  <2> QED BY <2>5
<1>7. PriceOrder(models) = CHOOSE p \in [places -> places] : \A j, k \in places : j < k => before(p[j], p[k])
  BY DEF PriceOrder
<1> DEFINE order == PriceOrder(models)
<1>8. order \in [places -> places] /\ \A j, k \in places : j < k => before(order[j], order[k])
  <2> HIDE DEF before, places
  <2> QED BY <1>6, <1>7
<1>9. \A k \in places : ByPrice(models)[k] = models[order[k]] BY DEF ByPrice
<1> HIDE DEF order
<1>10. \A k \in places : \E j \in places : order[j] = k
  <2> HIDE DEF before
  <2>1. \A j, k \in places : order[j] = order[k] => j = k
    <3>1. \A j, k \in places : j = k \/ j < k \/ k < j
      <4>1. places \subseteq Nat BY PlacesAreNatural
      <4> QED BY <4>1
    <3> HIDE DEF places
    <3>2. \A j, k \in places : j < k => order[j] # order[k] BY <1>4, <1>8
    <3> QED BY <3>1, <3>2
  <2> HIDE DEF places
  <2>2. order \in Injection(places, places) BY <1>8, <2>1, Fun_IsInj
  <2>3. order \in Surjection(places, places) BY <1>5, <2>2, FS_Injection
  <2> QED BY <2>3 DEF Surjection
<1>11. \A x \in ToSet(models) : \E k \in places : ByPrice(models)[k] = x
  <2>1. \A x \in ToSet(models) : \E k \in places : models[k] = x BY <1>1 DEF ToSet
  <2> HIDE DEF places
  <2> QED BY <1>9, <1>10, <2>1
<1>12. ASSUME NEW j \in places, NEW k \in places, j <= k PROVE Price[ByPrice(models)[j]] <= Price[ByPrice(models)[k]]
  <2>1. j \in Nat /\ k \in Nat BY PlacesAreNatural
  <2>2. order[j] \in places /\ order[k] \in places BY <1>8
  <2>3. Price[models[order[j]]] \in Nat /\ Price[models[order[k]]] \in Nat BY <1>2, <2>2
  <2>4. CASE j = k BY <1>9, <2>3, <2>4
  <2>5. CASE j # k
    <3>1. before(order[j], order[k]) BY <1>8, <1>12, <2>1, <2>5
    <3> QED BY <1>9, <2>3, <3>1
  <2> QED BY <2>4, <2>5
<1> QED BY <1>2, <1>8, <1>9, <1>11, <1>12

LEMMA UpstreamIsACandidate ==
  ASSUME NEW options, NEW artifact, NEW scores,
         artifact.labels.models \in Seq(STRING), ToSet(artifact.labels.models) \subseteq DOMAIN Price,
         Upstream(options, artifact, scores) # Fails
  PROVE  LET models == artifact.labels.models
             score(m) == scores[CHOOSE k \in 1 .. Len(models) : models[k] = m]
             chosen == Upstream(options, artifact, scores)
         IN  /\ Len(scores) = Len(models) /\ chosen \in ToSet(models) /\ score(chosen) >= options.threshold
             /\ \A x \in ToSet(models) : score(x) >= options.threshold => Price[chosen] <= Price[x]
<1> DEFINE models == artifact.labels.models
           score(m) == scores[CHOOSE k \in 1 .. Len(models) : models[k] = m]
           seq == ByPrice(models)
           I == {i \in 1 .. Len(seq) : score(seq[i]) >= options.threshold}
           k == IF I # {} THEN Min(I) ELSE 0
           chosen == Upstream(options, artifact, scores)
<1>1. chosen = (IF k = 0 THEN Fails ELSE seq[k]) /\ Len(scores) = Len(models)
  BY DEF Upstream, FirstOf, SelectInSeq
<1>2. Len(seq) = Len(models) /\ Len(models) \in Nat BY DEF ByPrice
<1>3. /\ \A i \in 1 .. Len(models) : seq[i] \in ToSet(models)
      /\ \A x \in ToSet(models) : \E i \in 1 .. Len(models) : seq[i] = x
      /\ \A i, j \in 1 .. Len(models) : i <= j => Price[seq[i]] <= Price[seq[j]]
  BY ByPriceOrders
<1>4. chosen # Fails OBVIOUS
<1> HIDE DEF seq, models, score, chosen
<1>5. I # {} /\ chosen = seq[Min(I)] BY <1>1, <1>4
<1>6. Min(I) \in I /\ \A i \in I : Min(I) <= i
  <2>1. I \subseteq Nat BY PlacesAreNatural
  <2> QED BY <1>5, <2>1, MinIsLeast
<1>7. chosen \in ToSet(models) /\ score(chosen) >= options.threshold BY <1>2, <1>3, <1>5, <1>6
<1>8. ASSUME NEW x \in ToSet(models), score(x) >= options.threshold PROVE Price[chosen] <= Price[x]
  <2>1. PICK i \in 1 .. Len(models) : seq[i] = x BY <1>3
  <2>2. i \in I BY <1>2, <1>8, <2>1
  <2> QED BY <1>2, <1>3, <1>5, <1>6, <2>1, <2>2
<1> QED BY <1>1, <1>7, <1>8 DEF models, score, chosen

\* The document is one that parses, is accepted and loads.
Applied == doc \in Documents /\ Accepted(doc) /\ doc.mode = "pipeline" /\ Loads(doc)

LEMMA Documented ==
  ASSUME Applied
  PROVE  /\ doc.telemetry_read \in {"poll", "per_request"}
         /\ Dispatch.type \in Types
         /\ Router.type \in {"passthrough", "best_route", "best_route_upstream", "avengers_pro", "rb_decoupled"}
         /\ CallsAModel(Router) => Router.concurrency \in Nat
         /\ Builds(Router)
<1>1. /\ doc.pipeline # None /\ doc.telemetry_read # "per_round"
      /\ (Router.type = "passthrough") = (Router.concurrency = None)
  BY DEF Applied, Accepted, ModeOK, RouterOK, Router
<1>2. /\ doc.telemetry_read \in {"poll", "per_request", "per_round"}
      /\ Dispatch.type \in Types
      /\ Router.type \in {"passthrough", "best_route", "best_route_upstream", "avengers_pro", "rb_decoupled"}
      /\ Router.concurrency # None => Router.concurrency \in Nat
  BY <1>1, DocumentAssumption DEF Applied, Router, Dispatch
<1>3. Builds(Router) BY DEF Applied, Loads, Router
<1> QED BY <1>1, <1>2, <1>3 DEF CallsAModel

\* A routing decision names models that the fleet serves, whatever the model answered.
LEMMA RouterDecides ==
  ASSUME Applied, ~Refuses(Router), NEW a, CallsAModel(Router) => a \in Answers(Router),
         Decision(Router, a) # Fails
  PROVE  /\ Candidates(Decision(Router, a)) # {} /\ Candidates(Decision(Router, a)) \subseteq Fleet
         /\ Router.type = "passthrough" => Decision(Router, a) = All
         /\ Router.type # "passthrough" => Decision(Router, a) \in Models /\ Decision(Router, a) # All
<1> DEFINE m == Decision(Router, a)
<1>1. /\ Builds(Router)
      /\ Router.type \in {"passthrough", "best_route", "best_route_upstream", "avengers_pro", "rb_decoupled"}
  BY Documented
<1>2. All \notin Models BY FleetAssumption, RouterAssumption DEF All
<1>3. CASE Router.type = "passthrough"
  <2>1. m = All BY <1>3 DEF Decision
  <2>2. Candidates(m) = Fleet BY <2>1 DEF Candidates
  <2> QED BY <1>3, <2>1, <2>2, FleetTypes
<1>4. CASE Router.type # "passthrough"
  <2>1. InPool(m)
    <3>1. CASE Router.type = "best_route"
      <4>1. m = BestRoute(Router.options, Router.artifact, a) BY <3>1 DEF Decision
      <4> QED BY <4>1 DEF BestRoute, FallsBack, Fallback
    <3>2. CASE Router.type = "best_route_upstream"
      <4>1. m = Upstream(Router.options, Router.artifact, a) BY <3>2 DEF Decision
      <4>2. UpstreamBuilds(Router.options, Router.artifact) BY <1>1, <3>2 DEF Builds
      <4>3. doc.pipeline # None BY DEF Applied, Accepted, ModeOK
      <4>4. Router.artifact.labels.models \in Seq(STRING)
        BY <3>2, <4>3, DocumentAssumption DEF Applied, Router
      <4>5. m \in ToSet(Router.artifact.labels.models)
        <5>1. ToSet(Router.artifact.labels.models) \subseteq DOMAIN Price BY <4>2 DEF UpstreamBuilds
        <5>2. Upstream(Router.options, Router.artifact, a) # Fails BY <4>1
        <5>3. Upstream(Router.options, Router.artifact, a) \in ToSet(Router.artifact.labels.models)
          BY <4>4, <5>1, <5>2, UpstreamIsACandidate
        <5> QED BY <4>1, <5>3
      <4> QED BY <3>2, <4>5 DEF Refuses
    <3>3. CASE Router.type = "avengers_pro"
      <4>1. m = AvengersPro(Router.artifact, a) BY <3>3 DEF Decision
      <4> QED BY <4>1, AvengersInPool
    <3>4. CASE Router.type = "rb_decoupled"
      <4>1. m = RBDecoupled(Router.artifact, a) BY <3>4 DEF Decision
      <4>2. doc.pipeline # None BY DEF Applied, Accepted, ModeOK
      <4>3. /\ Router.artifact.tiers \in Seq([tier : STRING, model : STRING])
            /\ \A t \in DOMAIN a : a[t] \in Int
        BY <3>4, <4>2, DocumentAssumption DEF Applied, Router, CallsAModel
      <4>4. /\ Considered(Router.artifact) # {}
            /\ \A t \in Considered(Router.artifact) : t.tier \in DOMAIN a
            /\ m = BestTier(Router.artifact, a).model
        BY <4>1 DEF RBDecoupled
      <4>5. BestTier(Router.artifact, a) \in Considered(Router.artifact) BY <4>3, <4>4, BestTierConsidered
      <4> QED BY <4>4, <4>5 DEF Considered
    <3> QED BY <1>1, <1>4, <3>1, <3>2, <3>3, <3>4
  <2>2. m \in Models BY <2>1, PoolIsTheFleet
  <2> QED BY <1>2, <1>4, <2>2, PoolServes
<1> QED BY <1>3, <1>4

\* A decision is the one that the router's rule states.
LEMMA RouterKeepsItsRule ==
  ASSUME Applied, NEW a, CallsAModel(Router) => a \in Answers(Router), Decision(Router, a) # Fails
  PROVE  AsStated(Router, a, Decision(Router, a))
<1> DEFINE m == Decision(Router, a)
           artifact == Router.artifact
           options == Router.options
<1>1. /\ Builds(Router)
      /\ Router.type \in {"passthrough", "best_route", "best_route_upstream", "avengers_pro", "rb_decoupled"}
  BY Documented
<1>2. /\ Router.type = "best_route_upstream" =>
           artifact.labels.models \in Seq(STRING) /\ artifact.heads \in Seq(STRING)
      /\ Router.type = "avengers_pro" => a \in artifact.clusters
      /\ Router.type = "rb_decoupled" =>
           artifact.tiers \in Seq([tier : STRING, model : STRING]) /\ \A t \in DOMAIN a : a[t] \in Int
  <2>1. doc.pipeline # None BY DEF Applied, Accepted, ModeOK
  <2> QED BY <2>1, DocumentAssumption DEF Applied, Router, CallsAModel
<1>3. CASE Router.type = "passthrough" BY <1>3 DEF Decision, AsStated
<1>4. CASE Router.type = "best_route"
  <2> DEFINE table == artifact.label_to_model
  <2>1. m = BestRoute(options, artifact, a) /\ m # Fails BY <1>4 DEF Decision
  <2>2. options.threshold \in 0 .. One - 1 BY <1>1, <1>4 DEF Builds, BestRouteBuilds
  <2>3. One \in Nat BY RouterAssumption
  <2> HIDE DEF m, artifact, options
  <2>4. ASSUME a.prob \in 0 .. One
        PROVE  m = IF \E l \in DOMAIN table : /\ l = a.label /\ InPool(table[l]) /\ a.prob >= options.threshold
                   THEN table[a.label] ELSE options.fallback
    <3>1. a.prob < options.threshold <=> ~(a.prob >= options.threshold) BY <2>2, <2>3, <2>4
    <3>2. a.prob < options.threshold => options.threshold > 0 BY <2>2, <2>3, <2>4
    <3>3. FallsBack(options, artifact, a) <=>
            ~ \E l \in DOMAIN table : /\ l = a.label /\ InPool(table[l]) /\ a.prob >= options.threshold
      BY <3>1, <3>2 DEF FallsBack
    <3>4. m = IF FallsBack(options, artifact, a) THEN Fallback(options) ELSE table[a.label]
      BY <2>1, <2>4 DEF BestRoute
    <3>5. FallsBack(options, artifact, a) => m = options.fallback BY <2>1, <3>4 DEF Fallback
    <3> HIDE DEF table
    <3> QED BY <3>3, <3>4, <3>5
  <2> QED BY <1>4, <2>4 DEF AsStated, m, artifact, options
<1>5. CASE Router.type = "best_route_upstream"
  <2> DEFINE models == artifact.labels.models
             score(x) == a[CHOOSE k \in 1 .. Len(models) : models[k] = x]
             reaches(x) == \E k \in 1 .. Len(a) : artifact.heads[k] = x /\ a[k] >= options.threshold
  <2>1. m = Upstream(options, artifact, a) /\ m # Fails BY <1>5 DEF Decision
  <2>2. UpstreamBuilds(options, artifact) BY <1>1, <1>5 DEF Builds
  <2>3. /\ models \in Seq(STRING) /\ artifact.heads \in Seq(STRING) /\ ToSet(models) \subseteq DOMAIN Price
        /\ Len(models) = Len(artifact.heads) /\ IsInjective(models)
        /\ \A k \in 1 .. Len(models) : artifact.heads[k] = models[k]
    BY <1>2, <1>5, <2>2 DEF UpstreamBuilds
  <2>4. /\ Len(a) = Len(models) /\ m \in ToSet(models) /\ score(m) >= options.threshold
        /\ \A x \in ToSet(models) : score(x) >= options.threshold => Price[m] <= Price[x]
    <3> HIDE DEF m, options, artifact
    <3> DEFINE chosen == Upstream(options, artifact, a)
    <3>1. chosen # Fails /\ m = chosen BY <2>1
    <3>2. /\ Len(a) = Len(models) /\ chosen \in ToSet(models) /\ score(chosen) >= options.threshold
          /\ \A x \in ToSet(models) : score(x) >= options.threshold => Price[chosen] <= Price[x]
      <4>1. artifact.labels.models \in Seq(STRING) /\ ToSet(artifact.labels.models) \subseteq DOMAIN Price BY <2>3
      <4> QED BY <3>1, <4>1, UpstreamIsACandidate
    <3> HIDE DEF chosen, models, score
    <3> QED BY <3>1, <3>2
  <2>5. AsStated(Router, a, m) <=> reaches(m) /\ \A x \in ToSet(artifact.heads) : reaches(x) => Price[m] <= Price[x]
    BY <1>5 DEF AsStated
  <2> HIDE DEF m, artifact, options
  <2>6. DOMAIN models = 1 .. Len(models) /\ DOMAIN artifact.heads = 1 .. Len(models) BY <2>3, LenProperties
  <2>7. \A j, k \in 1 .. Len(models) : models[j] = models[k] => j = k BY <2>3, <2>6 DEF IsInjective
  <2> HIDE DEF models
  <2>8. \A k \in 1 .. Len(models) : score(models[k]) = a[k] BY <2>7
  <2>9. ToSet(artifact.heads) = ToSet(models) BY <2>3, <2>6 DEF ToSet
  <2>10. \A x \in ToSet(models) : \E k \in 1 .. Len(models) : models[k] = x BY <2>6 DEF ToSet
  <2> HIDE DEF score
  <2>11. reaches(m) BY <2>3, <2>4, <2>8, <2>10
  <2>12. ASSUME NEW x \in ToSet(models), reaches(x) PROVE score(x) >= options.threshold
    <3>1. PICK k \in 1 .. Len(models) : models[k] = x /\ a[k] >= options.threshold BY <2>3, <2>4, <2>12
    <3> QED BY <2>8, <3>1
  <2> HIDE DEF reaches
  <2> QED BY <2>4, <2>5, <2>9, <2>11, <2>12 DEF m
<1>6. CASE Router.type = "avengers_pro"
  <2> DEFINE seq == UpstreamRanking(artifact, a)
             I == {i \in 1 .. Len(seq) : InPool(seq[i])}
             k == IF I # {} THEN Min(I) ELSE 0
  <2>1. m = (IF k = 0 THEN Fails ELSE seq[k]) /\ m # Fails
    BY <1>6 DEF Decision, AvengersPro, FirstOf, SelectInSeq
  <2>2. a \in DOMAIN artifact.rankings /\ seq = artifact.rankings[a]
    BY <1>1, <1>2, <1>6 DEF Builds, AvengersBuilds, UpstreamRanking
  <2>3. AsStated(Router, a, m) <=> a \in DOMAIN artifact.rankings /\ Contains(artifact.rankings[a], m)
    BY <1>6 DEF AsStated
  <2> HIDE DEF seq, m, artifact
  <2>4. I # {} /\ m = seq[Min(I)] BY <2>1
  <2>5. Min(I) \in I
    <3>1. I \subseteq Nat BY PlacesAreNatural
    <3> QED BY <2>4, <3>1, MinIsLeast
  <2>6. Contains(seq, m) BY <2>4, <2>5 DEF Contains
  <2> QED BY <2>2, <2>3, <2>6 DEF m
<1>7. CASE Router.type = "rb_decoupled"
  <2> DEFINE t == BestTier(artifact, a)
  <2>1. m = RBDecoupled(artifact, a) /\ m # Fails BY <1>7 DEF Decision
  <2>2. AsStated(Router, a, m) <=>
          \E u \in ToSet(artifact.tiers) :
            u.model = m /\ \A v \in ToSet(artifact.tiers) : InPool(v.model) => a[v.tier] <= a[u.tier]
    BY <1>7 DEF AsStated
  <2> HIDE DEF m, artifact
  <2>3. /\ Considered(artifact) # {} /\ \A u \in Considered(artifact) : u.tier \in DOMAIN a
        /\ m = t.model
    BY <2>1 DEF RBDecoupled
  <2>4. t \in Considered(artifact) /\ \A u \in Considered(artifact) : a[u.tier] <= a[t.tier]
    BY <1>2, <1>7, <2>3, BestTierConsidered
  <2> HIDE DEF t
  <2> QED BY <2>2, <2>3, <2>4 DEF Considered, m
<1> QED BY <1>1, <1>3, <1>4, <1>5, <1>6, <1>7

-----------------------------------------------------------------------------
(* The engine's stream *)

Streams ==
  [posted : BOOLEAN, made : 0 .. MaxReply, ended : BOOLEAN, text : Nat, ttft : BOOLEAN,
   output_tokens : Nat \cup {Unknown}, final_usage : BOOLEAN, result : {"none", "ok", "failed", "raised", "timed_out"}]

\* What the client has kept is what the engine has made, from the first event on; and it believes no end before the
\* engine's.
StreamOK(s) ==
  /\ s \in Streams
  /\ IF s.ttft THEN s.output_tokens = s.made /\ s.text = s.made
     ELSE s.output_tokens = Unknown /\ s.made = 0 /\ s.text = 0
  /\ s.final_usage => s.ended /\ s.ttft
  /\ s.result = "ok" => s.final_usage

LEMMA NoStreamOK ==
  /\ StreamOK(NoStream) /\ StreamOK(Accepted200)
  /\ \A result \in {"failed", "raised", "timed_out"} : StreamOK(Failed(result)) /\ Failed(result).result = result
<1>1. MaxReply \in Nat BY LengthAssumption, LedgerAssumption
<1>2. 0 \in 0 .. MaxReply BY <1>1
<1> QED BY <1>2 DEF StreamOK, Streams, NoStream, Accepted200, Failed, Unknown

LEMMA EventCases ==
  ASSUME NEW s, NEW e \in NextEvents(s)
  PROVE  /\ ~s.ended
         /\ \/ s.ttft /\ s.made < MaxReply /\ e = Event("text", s.made + 1)
            \/ s.ttft /\ e = Event("none", s.made)
            \/ ~s.ttft /\ e = Event("text", 0)
            \/ e = [choices |-> "none", tokens |-> Unknown, error |-> TRUE]
            \/ e = Event("text", Unknown) \/ e = Event("text", s.made - 1)
            \/ s.made < MaxReply /\ e = Event("bad", s.made + 1)
BY DEF NextEvents

\* The engine's side of an event that counts no less than it had made.
LEMMA GeneratedIs ==
  ASSUME NEW s \in Streams, NEW e, e.tokens \in 0 .. MaxReply, e.tokens >= s.made, NEW last \in BOOLEAN,
         (e.choices = "none") = last
  PROVE  /\ Generated(s, e) \in Streams
         /\ Generated(s, e).made = e.tokens /\ Generated(s, e).ended = last
         /\ Generated(s, e).text = s.text /\ Generated(s, e).ttft = s.ttft
         /\ Generated(s, e).output_tokens = s.output_tokens
         /\ Generated(s, e).final_usage = s.final_usage /\ Generated(s, e).result = s.result
<1>1. s.made \in Nat /\ e.tokens \in Int BY LengthAssumption, LedgerAssumption DEF Streams
<1>2. (IF e.tokens > s.made THEN e.tokens ELSE s.made) = e.tokens BY <1>1
<1>3. Generated(s, e) = [s EXCEPT !.made = e.tokens, !.ended = last] BY <1>2, Zenon DEF Generated
<1> QED BY <1>3 DEF Streams

\* A text event whose count is the client's next.
LEMMA TextEventOK ==
  ASSUME NEW s, StreamOK(s), s.result = "none", ~s.ended, NEW e,
         e.tokens \in 0 .. MaxReply, e.tokens >= s.made, e.choices = "text", ~e.error, ~Malformed(s, e),
         e.tokens = IF s.ttft THEN s.made + 1 ELSE 0
  PROVE  StreamOK(AfterEvent(s, e)) /\ AfterEvent(s, e).made = e.tokens
<1> DEFINE g == Generated(s, e)
           c == [g EXCEPT !.output_tokens = e.tokens]
           t == [c EXCEPT !.ttft = TRUE, !.text = IF e.tokens > 0 THEN @ + 1 ELSE @]
<1>1. s \in Streams /\ (e.choices = "none") = FALSE /\ s.text \in Nat /\ e.tokens \in Nat
      /\ e.tokens # Unknown
  BY LengthAssumption, LedgerAssumption DEF StreamOK, Streams, Unknown
<1>2. /\ g \in Streams /\ g.made = e.tokens /\ g.ended = FALSE /\ g.text = s.text
      /\ g.final_usage = s.final_usage /\ g.result = s.result
  BY <1>1, GeneratedIs
<1>3. AfterEvent(s, e) = t BY <1>1 DEF AfterEvent
<1> HIDE DEF g
<1>4. /\ c \in Streams /\ c.made = e.tokens /\ c.text = s.text /\ c.output_tokens = e.tokens
      /\ c.final_usage = s.final_usage /\ c.result = s.result
  BY <1>1, <1>2 DEF Streams
<1>5. (IF e.tokens > 0 THEN c.text + 1 ELSE c.text) = e.tokens
  BY <1>1, <1>4, LengthAssumption, LedgerAssumption DEF StreamOK, Streams
<1> HIDE DEF c
<1>6. t = [c EXCEPT !.ttft = TRUE, !.text = e.tokens] BY <1>5, Zenon
<1> HIDE DEF t
<1>7. /\ t \in Streams /\ t.made = e.tokens /\ t.text = e.tokens /\ t.output_tokens = e.tokens /\ t.ttft = TRUE
      /\ t.final_usage = s.final_usage /\ t.result = s.result
  BY <1>1, <1>4, <1>6 DEF Streams
<1>8. ~s.final_usage BY DEF StreamOK
<1> QED BY <1>3, <1>7, <1>8 DEF StreamOK

\* The final usage chunk.
LEMMA UsageEventOK ==
  ASSUME NEW s, StreamOK(s), s.result = "none", s.ttft, NEW e,
         e.tokens = s.made, e.choices = "none", ~e.error, ~Malformed(s, e)
  PROVE  StreamOK(AfterEvent(s, e)) /\ AfterEvent(s, e).made = e.tokens
<1> DEFINE g == Generated(s, e)
           c == [g EXCEPT !.output_tokens = e.tokens]
           u == [c EXCEPT !.final_usage = TRUE]
<1>1. /\ s \in Streams /\ s.made \in 0 .. MaxReply /\ s.made \in Nat /\ (e.choices = "none") = TRUE
      /\ s.text = s.made /\ e.tokens # Unknown /\ e.tokens >= s.made
  BY LengthAssumption, LedgerAssumption DEF StreamOK, Streams, Unknown
<1>2. /\ g \in Streams /\ g.made = e.tokens /\ g.ended = TRUE /\ g.text = s.text /\ g.ttft = s.ttft
      /\ g.result = s.result
  BY <1>1, GeneratedIs
<1>3. AfterEvent(s, e) = u BY <1>1 DEF AfterEvent
<1> HIDE DEF g
<1>4. /\ u \in Streams /\ u.made = e.tokens /\ u.ended = TRUE /\ u.text = s.text /\ u.ttft = s.ttft
      /\ u.output_tokens = e.tokens /\ u.result = s.result
  BY <1>1, <1>2 DEF Streams
<1> HIDE DEF u
<1> QED BY <1>1, <1>3, <1>4 DEF StreamOK

\* An event keeps the client's account; what it reports is more than was reported, and no more than it adds.
LEMMA AfterEventOK ==
  ASSUME NEW s, StreamOK(s), Streaming(s), NEW e \in NextEvents(s)
  PROVE  /\ StreamOK(AfterEvent(s, e))
         /\ Reports(s, e) => e.tokens \in 0 .. MaxReply /\ e.tokens >= s.made
         /\ AfterEvent(s, e).result = "none" =>
              AfterEvent(s, e).made >= s.made /\ (Reports(s, e) => AfterEvent(s, e).made = e.tokens)
<1>1. MaxReply \in Nat BY LengthAssumption, LedgerAssumption
<1>2. s \in Streams /\ s.made \in 0 .. MaxReply /\ s.made \in Nat /\ s.result = "none" /\ ~s.ended
  BY EventCases, <1>1 DEF StreamOK, Streams, Streaming
<1>3. CASE e.error \/ Malformed(s, e)
  <2>1. AfterEvent(s, e) = Failed("failed") BY <1>3 DEF AfterEvent
  <2>2. StreamOK(AfterEvent(s, e)) /\ AfterEvent(s, e).result # "none" BY <2>1, NoStreamOK
  <2>3. Reports(s, e) => e.tokens \in 0 .. MaxReply /\ e.tokens >= s.made
    BY <1>1, <1>2, EventCases DEF Reports, Event, Unknown, StreamOK
  <2> QED BY <2>2, <2>3
<1>4. CASE s.ttft /\ s.made < MaxReply /\ e = Event("text", s.made + 1)
  <2>1. e.tokens = s.made + 1 /\ e.choices = "text" /\ ~e.error /\ s.output_tokens = s.made
    BY <1>4 DEF Event, StreamOK
  <2>2. ~Malformed(s, e) BY <1>2, <2>1 DEF Malformed, Backwards, Unknown
  <2>3. e.tokens \in 0 .. MaxReply /\ e.tokens >= s.made BY <1>1, <1>2, <1>4, <2>1
  <2>4. StreamOK(AfterEvent(s, e)) /\ AfterEvent(s, e).made = e.tokens
    BY <1>2, <1>4, <2>1, <2>2, <2>3, TextEventOK
  <2> QED BY <2>3, <2>4
<1>5. CASE s.ttft /\ e = Event("none", s.made)
  <2>1. e.tokens = s.made /\ e.choices = "none" /\ ~e.error /\ s.output_tokens = s.made
    BY <1>5 DEF Event, StreamOK
  <2>2. ~Malformed(s, e) BY <1>2, <2>1 DEF Malformed, Backwards, Unknown
  <2>3. StreamOK(AfterEvent(s, e)) /\ AfterEvent(s, e).made = e.tokens
    BY <1>2, <1>5, <2>1, <2>2, UsageEventOK
  <2> QED BY <1>2, <2>1, <2>3
<1>6. CASE ~s.ttft /\ e = Event("text", 0)
  <2>1. e.tokens = 0 /\ e.choices = "text" /\ ~e.error /\ s.output_tokens = Unknown /\ s.made = 0
    BY <1>6 DEF Event, StreamOK
  <2>2. ~Malformed(s, e) BY <2>1 DEF Malformed, Backwards, Unknown
  <2>3. 0 \in 0 .. MaxReply BY <1>1
  <2>4. StreamOK(AfterEvent(s, e)) /\ AfterEvent(s, e).made = e.tokens
    BY <1>2, <1>6, <2>1, <2>2, <2>3, TextEventOK
  <2> QED BY <2>1, <2>3, <2>4
<1>7. \/ e = [choices |-> "none", tokens |-> Unknown, error |-> TRUE]
      \/ e = Event("text", Unknown) \/ e = Event("text", s.made - 1)
      \/ s.made < MaxReply /\ e = Event("bad", s.made + 1)
      => e.error \/ Malformed(s, e)
  <2>1. e = Event("text", s.made - 1) => Malformed(s, e)
    <3> HAVE e = Event("text", s.made - 1)
    <3>1. e.tokens = s.made - 1 /\ e.choices = "text" BY DEF Event
    <3>2. CASE s.ttft BY <1>2, <3>1, <3>2 DEF Malformed, Backwards, StreamOK, Unknown
    <3>3. CASE ~s.ttft BY <1>2, <3>1, <3>3 DEF Malformed, StreamOK, Unknown
    <3> QED BY <3>2, <3>3
  <2> QED BY <2>1 DEF Event, Malformed
<1> QED BY <1>3, <1>4, <1>5, <1>6, <1>7, EventCases

LEMMA AfterBodyOK ==
  ASSUME NEW s, StreamOK(s)
  PROVE  StreamOK(AfterBody(s)) /\ AfterBody(s).result # "none"
<1>1. CASE Ended(s) = "ok"
  <2>1. s.final_usage BY <1>1 DEF Ended
  <2>2. AfterBody(s) = [s EXCEPT !.result = "ok"] BY <1>1 DEF AfterBody
  <2> QED BY <2>1, <2>2 DEF StreamOK, Streams
<1>2. CASE Ended(s) # "ok"
  <2>1. AfterBody(s) = Failed("failed") BY <1>2 DEF AfterBody
  <2> QED BY <2>1, NoStreamOK
<1> QED BY <1>1, <1>2

LEMMA AfterUnterminatedOK ==
  ASSUME NEW s, StreamOK(s), Streaming(s), NEW e \in NextEvents(s)
  PROVE  StreamOK(AfterUnterminated(s, e)) /\ AfterUnterminated(s, e).result # "none"
<1>1. s \in Streams /\ s.made \in Nat
  BY LengthAssumption, LedgerAssumption DEF StreamOK, Streams
<1>2. CASE e.error \/ e.choices # "none" \/ Backwards(s, e)
  <2>1. AfterUnterminated(s, e) = Failed("failed") BY <1>2 DEF AfterUnterminated
  <2> QED BY <2>1, NoStreamOK
<1>3. CASE ~(e.error \/ e.choices # "none" \/ Backwards(s, e))
  <2>1. s.ttft /\ e = Event("none", s.made) BY <1>3, EventCases DEF Event
  <2>2. e.tokens = s.made /\ e.choices = "none" /\ s.output_tokens = s.made /\ s.text = s.made
    BY <2>1 DEF Event, StreamOK
  <2> DEFINE g == Generated(s, e)
             u == [g EXCEPT !.output_tokens = IF e.tokens = Unknown THEN @ ELSE e.tokens,
                            !.final_usage = @ \/ e.tokens # Unknown]
  <2>3. AfterUnterminated(s, e) = AfterBody(u) BY <1>3 DEF AfterUnterminated
  <2>4. /\ g \in Streams /\ g.made = s.made /\ g.ended = TRUE /\ g.text = s.text /\ g.ttft = s.ttft
        /\ g.result = s.result
    <3>1. /\ s.made \in 0 .. MaxReply /\ e.tokens \in 0 .. MaxReply /\ e.tokens >= s.made
          /\ (e.choices = "none") = TRUE
      BY <1>1, <2>2 DEF Streams
    <3> HIDE DEF g
    <3>2. g = Generated(s, e) BY DEF g
    <3> QED BY <1>1, <2>2, <3>1, <3>2, GeneratedIs
  <2>5. u = [g EXCEPT !.output_tokens = s.made, !.final_usage = TRUE]
    <3>1. e.tokens # Unknown BY <1>1, <2>2 DEF Unknown
    <3>2. (IF e.tokens = Unknown THEN g.output_tokens ELSE e.tokens) = s.made BY <2>2, <3>1
    <3>3. (g.final_usage \/ e.tokens # Unknown) = TRUE BY <3>1
    <3> HIDE DEF g
    <3> QED BY <3>2, <3>3, Zenon
  <2> HIDE DEF g, u
  <2>6. StreamOK(u)
    <3>1. /\ u \in Streams /\ u.made = s.made /\ u.ended = TRUE /\ u.text = s.text /\ u.ttft = s.ttft
          /\ u.output_tokens = s.made /\ u.result = s.result
      BY <1>1, <2>4, <2>5 DEF Streams
    <3> QED BY <2>1, <2>2, <3>1 DEF StreamOK, Streaming
  <2> QED BY <2>3, <2>6, AfterBodyOK
<1> QED BY <1>2, <1>3

-----------------------------------------------------------------------------
(* The inductive invariant *)

Stages == {"new", "estimating", "lane", "answered", "probing", "serving", "ok", "error"}

\* What a router may give a dispatcher to choose from: the fleet, or a model's instances.
Groups == IF Router.type = "passthrough" THEN {Fleet} ELSE {Candidates(m) : m \in Models}

PipelineTypes ==
  /\ stage \in [Requests -> Stages]
  /\ lane \in Seq(Requests) /\ busy \subseteq Requests
  /\ answer \in [Requests -> Answers(Router) \cup {None}]
  /\ estimate \in [Requests -> Estimates \cup {None}]
  /\ compared \in [Requests -> Seq(Fleet)]
  /\ instance \in [Requests -> Fleet \cup {None}]
  /\ stream \in [Requests -> Streams]
  /\ gauges \in [Fleet -> Nat \cup {None}]
  /\ doc.telemetry_read = "poll" => gauges \in [Fleet -> Nat]
  /\ memory \in Memories
  /\ picks \in [Fleet -> Nat]

\* A routing call waits in the lane's queue, once, or has a thread, which it keeps when its request is gone.
InTheLane ==
  /\ \A j, k \in 1 .. Len(lane) : lane[j] = lane[k] => j = k
  /\ \A r \in Requests : r \in ToSet(lane) <=> stage[r] = "lane" /\ r \notin busy
  /\ \A r \in busy : stage[r] \in {"lane", "error"}
  /\ CallsAModel(Router) => Cardinality(busy) <= Router.concurrency

\* What a request's selection has by its stage.
Selecting(r) ==
  /\ stage[r] \in {"lane", "answered", "probing"} => ~Refuses(Router)
  /\ stage[r] \in {"answered", "probing"} /\ CallsAModel(Router) => answer[r] \in Answers(Router)
  /\ stage[r] = "estimating" => Sweeps
  /\ IF Sweeps THEN stage[r] \in {"lane", "answered", "probing"} => estimate[r] \in Estimates ELSE estimate[r] = None
  /\ stage[r] = "probing" =>
       /\ Probes /\ Decision(Router, answer[r]) # Fails
       /\ compared[r] \in Comparisons(Dispatch.type, Candidates(Decision(Router, answer[r])))

\* A request is served where it was dispatched, and only then has it a stream.
Serving(r) ==
  /\ stage[r] = "serving" <=> instance[r] \in Fleet
  /\ stage[r] # "serving" => stream[r] = NoStream
  /\ StreamOK(stream[r])

\* A token is unused until its request is dispatched, and counts no more than its engine has made.
Counted(r) ==
  /\ stage[r] \notin {"serving", "ok", "error"} => predicted[r] = 0
  /\ stage[r] = "serving" /\ stream[r].result = "none" => produced[r] <= stream[r].made

TokensOpen == \A i \in Instances : open_tokens[i] = {r \in Requests : instance[r] = i}

\* A rotation has taken its instances equally often, and once more those before its place.
Turned(C) ==
  LET k == memory.next[ModelOf[Min(C)]]
  IN  /\ k \in 0 .. Cardinality(C)
      /\ \E n \in Nat : \A p \in 1 .. Cardinality(C) :
           picks[InFleetOrder(C)[p]] = IF p <= k THEN n + 1 ELSE n

Rotating ==
  IF Dispatch.type = "round_robin" THEN \A C \in Groups : Turned(C) ELSE \A i \in Fleet : picks[i] = 0

IInv ==
  /\ Applied /\ PipelineTypes /\ InTheLane /\ LedgerInv /\ TokensOpen /\ Rotating
  /\ \A r \in Requests : Selecting(r) /\ Serving(r) /\ Counted(r)

-----------------------------------------------------------------------------
(* Its parts, one by one *)

LEMMA ConstantTypes ==
  /\ None \notin Fleet /\ Instances = Fleet /\ Tokens = Requests /\ IsFiniteSet(Requests)
  /\ MaxTokens \in Nat \ {0} /\ RequestTokens \in 1 .. MaxTokens
  /\ MaxReply \in Nat /\ \A n \in 0 .. MaxReply : n \in 0 .. MaxTokens
<1>1. None \notin Fleet /\ Instances = Fleet /\ Tokens = Requests /\ IsFiniteSet(Requests)
  BY FleetTypes, FleetAssumption, LedgerAssumption
<1>2. /\ MaxTokens \in Nat \ {0} /\ RequestTokens \in Nat \ {0} /\ RequestTokens <= MaxTokens
      /\ MaxReply \in 0 .. MaxTokens
  BY FleetAssumption, LedgerAssumption, LengthAssumption
<1> QED BY <1>1, <1>2

\* A group is of the fleet, and never empty.
LEMMA GroupsOfTheFleet == \A C \in Groups : C \subseteq Fleet /\ C # {}
BY PoolServes, FleetTypes DEF Groups

\* What a router decided is a group.
LEMMA DecidesAGroup ==
  ASSUME IInv, NEW r \in Requests, stage[r] \in {"answered", "probing"}, Decision(Router, answer[r]) # Fails
  PROVE  Candidates(Decision(Router, answer[r])) \in Groups
<1>1. Selecting(r) /\ Applied BY DEF IInv
<1>2. ~Refuses(Router) /\ (CallsAModel(Router) => answer[r] \in Answers(Router)) BY <1>1 DEF Selecting
<1>3. /\ Router.type = "passthrough" => Decision(Router, answer[r]) = All
      /\ Router.type # "passthrough" => Decision(Router, answer[r]) \in Models
  BY <1>1, <1>2, RouterDecides
<1>4. Candidates(All) = Fleet BY DEF Candidates
<1> QED BY <1>3, <1>4 DEF Groups

\* The queue without a request that waited in it at most once.
LEMMA Removed ==
  ASSUME NEW s \in Seq(Requests), \A j, k \in 1 .. Len(s) : s[j] = s[k] => j = k, NEW r
  PROVE  /\ RemoveFirst(s, r) \in Seq(Requests)
         /\ \A j, k \in 1 .. Len(RemoveFirst(s, r)) : RemoveFirst(s, r)[j] = RemoveFirst(s, r)[k] => j = k
         /\ ToSet(RemoveFirst(s, r)) = ToSet(s) \ {r}
<1> DEFINE n == Len(s)
           I == {k \in 1 .. n : s[k] = r}
           t == RemoveFirst(s, r)
<1>1. n \in Nat /\ s \in [1 .. n -> Requests] /\ DOMAIN s = 1 .. n BY LenProperties
<1>2. CASE I = {}
  <2>1. t = s BY <1>2 DEF RemoveFirst
  <2>2. r \notin ToSet(s) BY <1>1, <1>2 DEF ToSet
  <2> QED BY <2>1, <2>2
<1>3. CASE I # {}
  <2> DEFINE i == Min(I)
  <2>1. i \in I /\ I \subseteq Nat
    <3>1. I \subseteq Nat BY PlacesAreNatural
    <3> QED BY <1>3, <3>1, MinIsLeast
  <2>2. t = SubSeq(s, 1, i - 1) \o SubSeq(s, i + 1, n) BY <1>3 DEF RemoveFirst, RemoveAt, SelectInSeq
  <2>3. i \in 1 .. n /\ s[i] = r BY <2>1
  <2> HIDE DEF i, t, I, n
  <2> DEFINE a == SubSeq(s, 1, i - 1)
             b == SubSeq(s, i + 1, n)
  <2>4. /\ a \in Seq(Requests) /\ Len(a) = i - 1 /\ \A k \in 1 .. i - 1 : a[k] = s[k]
        /\ b \in Seq(Requests) /\ Len(b) = n - i /\ \A k \in 1 .. n - i : b[k] = s[k + i]
    <3>1. n = Len(s) BY DEF n
    <3>2. /\ \A k \in 1 .. i - 1 : s[k] \in Requests
          /\ \A k \in i + 1 .. n : s[k] \in Requests
      BY <1>1, <2>3
    <3>3. s \in Seq(Requests) /\ i - 1 \in 0 .. n /\ i + 1 \in 1 .. n + 1 /\ n \in 0 .. n BY <1>1, <2>3
    <3>4. /\ a \in Seq(Requests) /\ Len(a) = i - 1 /\ \A k \in 1 .. i - 1 : a[k] = s[k]
      BY <1>1, <2>3, <3>1, <3>2, SubSeqProperties
    <3>5. /\ b \in Seq(Requests) /\ Len(b) = n - i /\ \A k \in 1 .. n - i : b[k] = s[k + i]
      <4>1. /\ SubSeq(s, i + 1, n) \in Seq(Requests)
            /\ Len(SubSeq(s, i + 1, n)) = IF i + 1 <= n THEN n - (i + 1) + 1 ELSE 0
            /\ \A k \in 1 .. n - (i + 1) + 1 : SubSeq(s, i + 1, n)[k] = s[(i + 1) + k - 1]
        BY <3>2, <3>3, SubSeqProperties
      <4>2. n - (i + 1) + 1 = n - i /\ \A k \in 1 .. n - i : (i + 1) + k - 1 = k + i BY <1>1, <2>3
      <4>3. (IF i + 1 <= n THEN n - (i + 1) + 1 ELSE 0) = n - i BY <1>1, <2>3
      <4> QED BY <4>1, <4>2, <4>3 DEF b
    <3> QED BY <3>4, <3>5
  <2> HIDE DEF a, b
  <2>5. /\ t \in Seq(Requests) /\ Len(t) = n - 1
        /\ \A k \in 1 .. n - 1 : t[k] = IF k < i THEN s[k] ELSE s[k + 1]
    <3>1. t = a \o b BY <2>2 DEF a, b
    <3>2. t \in Seq(Requests) /\ Len(t) = n - 1 BY <1>1, <2>3, <2>4, <3>1
    <3>3. ASSUME NEW k \in 1 .. n - 1 PROVE t[k] = IF k < i THEN s[k] ELSE s[k + 1]
      <4>1. CASE k < i BY <1>1, <2>3, <2>4, <3>1, <4>1
      <4>2. CASE ~(k < i)
        <5>1. k - (i - 1) \in 1 .. n - i /\ (k - (i - 1)) + i = k + 1 BY <1>1, <2>3, <4>2
        <5>2. k \in 1 .. Len(a) + Len(b) /\ ~(k <= Len(a)) BY <1>1, <2>3, <2>4, <4>2
        <5>3. t[k] = b[k - Len(a)] BY <2>4, <3>1, <5>2, ConcatProperties
        <5>4. t[k] = b[k - (i - 1)] BY <2>4, <5>3
        <5> QED BY <2>4, <4>2, <5>1, <5>4
      <4> QED BY <4>1, <4>2
    <3> QED BY <3>2, <3>3
  <2>6. \A j, k \in 1 .. n : s[j] = s[k] => j = k BY DEF n
  <2>7. \A j, k \in 1 .. n - 1 : t[j] = t[k] => j = k BY <1>1, <2>3, <2>5, <2>6
  <2>8. ToSet(t) = ToSet(s) \ {r}
    <3>1. DOMAIN t = 1 .. n - 1 BY <1>1, <2>3, <2>5
    <3>2. ASSUME NEW k \in 1 .. n - 1 PROVE t[k] \in ToSet(s) \ {r}
      <4>1. \E l \in 1 .. n : l # i /\ t[k] = s[l] BY <1>1, <2>3, <2>5
      <4> QED BY <1>1, <2>3, <2>6, <4>1 DEF ToSet
    <3>3. ASSUME NEW l \in 1 .. n, s[l] # r PROVE \E k \in 1 .. n - 1 : t[k] = s[l]
      <4>1. l # i BY <2>3, <3>3
      <4>2. CASE l < i
        <5>1. l \in 1 .. n - 1 /\ t[l] = s[l] BY <1>1, <2>3, <2>5, <4>2
        <5> QED BY <5>1
      <4>3. CASE l > i
        <5>1. l - 1 \in 1 .. n - 1 /\ ~(l - 1 < i) /\ (l - 1) + 1 = l BY <1>1, <2>3, <4>3
        <5>2. t[l - 1] = s[l] BY <2>5, <5>1
        <5> QED BY <5>1, <5>2
      <4> QED BY <1>1, <2>3, <4>1, <4>2, <4>3
    <3>4. ToSet(t) \subseteq ToSet(s) \ {r} BY <3>1, <3>2 DEF ToSet
    <3>5. ASSUME NEW x \in ToSet(s), x # r PROVE x \in ToSet(t)
      <4>1. PICK l \in 1 .. n : x = s[l] BY <1>1 DEF ToSet
      <4>2. PICK k \in 1 .. n - 1 : t[k] = x BY <3>3, <3>5, <4>1
      <4> QED BY <3>1, <4>2 DEF ToSet
    <3> QED BY <3>4, <3>5
  <2> QED BY <2>5, <2>7, <2>8 DEF t
<1> QED BY <1>2, <1>3

LEMMA InitInvariant == PipelineInit => IInv
<1> SUFFICES ASSUME PipelineInit PROVE IInv OBVIOUS
<1> USE DEF PipelineInit
<1>1. Applied BY DEF Applied
<1>2. Built \in Memories /\ \A m \in Models : Built.next[m] = 0 BY EmptySeq DEF Built, Memories
<1>3. 0 \in Nat /\ MaxReply \in Nat /\ NoStream \in Streams
  BY ConstantTypes, NoStreamOK DEF StreamOK
<1>4. PipelineTypes
  <2>1. lane \in Seq(Requests) /\ compared \in [Requests -> Seq(Fleet)] BY EmptySeq
  <2>2. stage \in [Requests -> Stages] BY DEF Stages
  <2>3. gauges \in [Fleet -> Nat \cup {None}] /\ (doc.telemetry_read = "poll" => gauges \in [Fleet -> Nat])
    OBVIOUS
  <2> QED BY <1>2, <1>3, <2>1, <2>2, <2>3 DEF PipelineTypes
<1>5. InTheLane
  <2>1. Cardinality(busy) = 0 BY FS_EmptySet
  <2>2. CallsAModel(Router) => Router.concurrency \in Nat BY <1>1, Documented
  <2>3. lane = <<>> /\ Len(lane) = 0 /\ ToSet(lane) = {} BY EmptySeq DEF ToSet
  <2> QED BY <2>1, <2>2, <2>3 DEF InTheLane
<1>6. LedgerInv BY DEF Init, LedgerInv, TypeOK, RemainingPositive, Remaining, Open
<1>7. TokensOpen
  <2>1. \A r \in Requests, i \in Fleet : instance[r] # i BY ConstantTypes
  <2> QED BY <2>1, ConstantTypes DEF TokensOpen, Init
<1>8. Rotating
  <2>1. ASSUME NEW C \in Groups PROVE Turned(C)
    <3>1. C \subseteq Fleet /\ C # {} BY GroupsOfTheFleet
    <3>2. ModelOf[Min(C)] \in Models
      <4>1. C \subseteq Nat BY <3>1, FleetTypes
      <4> QED BY <3>1, <4>1, MinIsLeast, ModelsOf
    <3>3. memory.next[ModelOf[Min(C)]] = 0 BY <1>2, <3>2
    <3>4. Cardinality(C) \in Nat /\ InFleetOrder(C) \in [1 .. Cardinality(C) -> C] BY <3>1, FleetOrder
    <3>5. 0 \in 0 .. Cardinality(C) /\ \A p \in 1 .. Cardinality(C) : ~(p <= 0) BY <3>4
    <3>6. \A p \in 1 .. Cardinality(C) : picks[InFleetOrder(C)[p]] = 0 BY <3>1, <3>4
    <3> HIDE DEF PipelineInit
    <3> QED BY <3>3, <3>5, <3>6 DEF Turned
  <2> QED BY <2>1 DEF Rotating
<1>9. ASSUME NEW r \in Requests PROVE Selecting(r) /\ Serving(r) /\ Counted(r)
  <2>1. stage[r] = "new" /\ instance[r] \notin Fleet /\ stream[r] = NoStream BY ConstantTypes
  <2>2. predicted[r] = 0 BY ConstantTypes DEF Init
  <2> QED BY <2>1, <2>2, NoStreamOK DEF Selecting, Serving, Counted
<1> QED BY <1>1, <1>4, <1>5, <1>6, <1>7, <1>8, <1>9 DEF IInv

-----------------------------------------------------------------------------
(* What a step leaves alone *)

LEMMA SameDocument ==
  ASSUME doc' = doc
  PROVE  /\ Applied' = Applied /\ Router' = Router /\ Dispatch' = Dispatch /\ Sweeps' = Sweeps /\ Probes' = Probes
         /\ Groups' = Groups
<1>1. Applied' = Applied /\ Router' = Router /\ Dispatch' = Dispatch /\ Sweeps' = Sweeps /\ Probes' = Probes
  BY DEF Applied, Router, Dispatch, Sweeps, Probes
<1> QED BY <1>1 DEF Groups

\* A request whose own state stays keeps what the invariant says of it.
LEMMA SameRequest ==
  ASSUME doc' = doc, NEW q \in Requests, Selecting(q), Serving(q), Counted(q),
         stage'[q] = stage[q], answer'[q] = answer[q], estimate'[q] = estimate[q], compared'[q] = compared[q],
         instance'[q] = instance[q], stream'[q] = stream[q],
         predicted'[q] = predicted[q], produced'[q] = produced[q]
  PROVE  Selecting(q)' /\ Serving(q)' /\ Counted(q)'
<1>1. Selecting(q)' BY SameDocument DEF Selecting
<1>2. Serving(q)' BY DEF Serving
<1>3. Counted(q)' BY DEF Counted
<1> QED BY <1>1, <1>2, <1>3

LEMMA SameTokens ==
  ASSUME LedgerInv, TokensOpen, UNCHANGED vars, instance' = instance
  PROVE  LedgerInv' /\ TokensOpen'
BY DEF vars, LedgerInv, TypeOK, RemainingPositive, Remaining, Open, TokensOpen

LEMMA SameRotation ==
  ASSUME doc' = doc, Rotating, memory'.next = memory.next, picks' = picks
  PROVE  Rotating'
<1>1. \A C : Turned(C)' = Turned(C) BY DEF Turned
<1> QED BY <1>1, SameDocument DEF Rotating

\* The lane is as it was when no request enters or leaves it.
LEMMA SameLane ==
  ASSUME doc' = doc, InTheLane, PipelineTypes, lane' = lane, busy' = busy, NEW r \in Requests,
         \A q \in Requests \ {r} : stage'[q] = stage[q],
         stage[r] \notin {"lane", "error"} \/ stage'[r] = stage[r], stage'[r] # "lane" \/ stage'[r] = stage[r]
  PROVE  InTheLane'
<1>1. \A q \in Requests : stage'[q] = "lane" <=> stage[q] = "lane" OBVIOUS
<1>2. \A q \in busy : stage'[q] \in {"lane", "error"} BY DEF InTheLane, PipelineTypes
<1> QED BY <1>1, <1>2, SameDocument DEF InTheLane

-----------------------------------------------------------------------------
(* The steps of a selection *)

\* One request moves outside its service.
LEMMA SelectionStep ==
  ASSUME IInv, PipelineTypes', InTheLane', NEW r \in Requests,
         UNCHANGED <<doc, instance, stream, memory, picks, vars>>,
         \A q \in Requests \ {r} :
           stage'[q] = stage[q] /\ answer'[q] = answer[q] /\ estimate'[q] = estimate[q] /\ compared'[q] = compared[q],
         stage[r] # "serving", stage'[r] # "serving",
         stage[r] \in {"ok", "error"} => stage'[r] \in {"ok", "error"},
         Selecting(r)'
  PROVE  IInv'
<1>1. LedgerInv' /\ TokensOpen' /\ Rotating' BY SameTokens, SameRotation DEF IInv
<1>2. Applied' BY SameDocument DEF IInv
<1>3. Serving(r)' BY DEF IInv, Serving
<1>4. Counted(r)' BY DEF IInv, Counted, vars
<1>5. \A q \in Requests \ {r} : Selecting(q)' /\ Serving(q)' /\ Counted(q)'
  BY SameRequest DEF IInv, vars
<1> QED BY <1>1, <1>2, <1>3, <1>4, <1>5 DEF IInv

LEMMA AsksKeeps ==
  ASSUME IInv, NEW r \in Requests, AsksRouter(r), stage[r] \in {"new", "estimating"},
         UNCHANGED <<doc, busy, answer, compared, instance, stream, gauges, memory, picks, vars>>,
         estimate' = estimate \/ (Sweeps /\ \E e \in Estimates : estimate' = [estimate EXCEPT ![r] = e]),
         Sweeps => estimate'[r] \in Estimates
  PROVE  IInv'
<1> DEFINE next == IF Refuses(Router) THEN "error" ELSE IF CallsAModel(Router) THEN "lane" ELSE "answered"
<1>1. /\ stage' = [stage EXCEPT ![r] = next] /\ lane' = IF next = "lane" THEN Append(lane, r) ELSE lane
      /\ next \in {"error", "lane", "answered"}
  BY DEF AsksRouter
<1>2. PipelineTypes /\ InTheLane BY DEF IInv
<1>3. /\ stage'[r] = next /\ \A q \in Requests \ {r} : stage'[q] = stage[q] /\ estimate'[q] = estimate[q]
      /\ stage' \in [Requests -> Stages] /\ estimate' \in [Requests -> Estimates \cup {None}]
  BY <1>1, <1>2 DEF PipelineTypes, Stages
<1>4. next \in {"lane", "answered"} => ~Refuses(Router) OBVIOUS
<1>5. next = "answered" => ~CallsAModel(Router) OBVIOUS
<1> HIDE DEF next
<1>6. lane' \in Seq(Requests) BY <1>1, <1>2, AppendProperties DEF PipelineTypes
<1>7. PipelineTypes' BY <1>2, <1>3, <1>6, SameDocument DEF PipelineTypes
<1>8. InTheLane'
  <2>1. CASE next = "lane"
    <3> DEFINE n == Len(lane)
    <3>1. /\ n \in Nat /\ DOMAIN lane = 1 .. n /\ Len(lane') = n + 1 /\ DOMAIN lane' = 1 .. n + 1
          /\ (\A k \in 1 .. n : lane'[k] = lane[k]) /\ lane'[n + 1] = r
      BY <1>1, <1>2, <2>1, AppendProperties, LenProperties DEF PipelineTypes
    <3> HIDE DEF n
    <3>2. ToSet(lane') = ToSet(lane) \cup {r}
      <4>1. \A k \in 1 .. n + 1 : k \in 1 .. n \/ k = n + 1 BY <3>1
      <4>2. 1 .. n \subseteq 1 .. n + 1 /\ n + 1 \in 1 .. n + 1 BY <3>1
      <4> QED BY <3>1, <4>1, <4>2 DEF ToSet
    <3>3. r \notin ToSet(lane) /\ r \notin busy BY <1>2 DEF InTheLane
    <3>4. \A j, k \in 1 .. n + 1 : lane'[j] = lane'[k] => j = k
      <4>1. \A j, k \in 1 .. n : lane[j] = lane[k] => j = k BY <1>2 DEF InTheLane, n
      <4>2. \A k \in 1 .. n : lane[k] # r BY <3>1, <3>3 DEF ToSet
      <4>3. \A k \in 1 .. n + 1 : k \in 1 .. n \/ k = n + 1 BY <3>1
      <4> QED BY <3>1, <4>1, <4>2, <4>3
    <3>5. \A q \in Requests : q \in ToSet(lane') <=> stage'[q] = "lane" /\ q \notin busy'
      BY <1>2, <1>3, <2>1, <3>2, <3>3 DEF InTheLane
    <3>6. \A q \in busy' : stage'[q] \in {"lane", "error"} BY <1>2, <1>3, <3>3 DEF InTheLane, PipelineTypes
    <3> QED BY <1>2, <3>1, <3>4, <3>5, <3>6, SameDocument DEF InTheLane
  <2>2. CASE next # "lane"
    <3>1. lane' = lane /\ stage'[r] # "lane" BY <1>1, <1>3, <2>2
    <3> QED BY <1>2, <1>3, <3>1, SameLane
  <2> QED BY <2>1, <2>2
<1>9. Selecting(r)'
  <2>1. ~Sweeps => estimate'[r] = None BY DEF IInv, Selecting
  <2>2. stage'[r] \in {"error", "lane", "answered"} BY <1>1, <1>3
  <2> QED BY <1>3, <1>4, <1>5, <2>1, <2>2, SameDocument DEF Selecting
<1> QED BY <1>1, <1>3, <1>7, <1>8, <1>9, SelectionStep

LEMMA AcceptKeeps == ASSUME IInv, NEW r \in Requests, Accept(r) PROVE IInv'
<1>1. PipelineTypes /\ InTheLane /\ stage[r] = "new" BY DEF IInv, Accept
<1>2. CASE Sweeps
  <2>1. stage' = [stage EXCEPT ![r] = "estimating"] /\ lane' = lane BY <1>2 DEF Accept
  <2>2. stage'[r] = "estimating" /\ \A q \in Requests \ {r} : stage'[q] = stage[q]
    BY <1>1, <2>1 DEF PipelineTypes
  <2>3. PipelineTypes' BY <1>1, <2>1, SameDocument DEF Accept, selection_vars, PipelineTypes, Stages
  <2>4. InTheLane' BY <1>1, <2>1, <2>2, SameLane DEF Accept
  <2>5. Selecting(r)' BY <1>2, <2>2, SameDocument DEF Accept, Selecting
  <2> QED BY <1>1, <2>2, <2>3, <2>4, <2>5, SelectionStep DEF Accept, selection_vars
<1>3. CASE ~Sweeps BY <1>1, <1>3, AsksKeeps DEF Accept, selection_vars
<1> QED BY <1>2, <1>3

LEMMA EstimatedKeeps ==
  ASSUME IInv, NEW r \in Requests,
         EstimateFails(r) \/ \E e \in Estimates : Estimated(r, e)
  PROVE  IInv'
<1>1. PipelineTypes /\ InTheLane /\ stage[r] = "estimating" BY DEF IInv, EstimateFails, Estimated
<1>2. CASE EstimateFails(r)
  <2>1. stage' = [stage EXCEPT ![r] = "error"] BY <1>2 DEF EstimateFails
  <2>2. stage'[r] = "error" /\ \A q \in Requests \ {r} : stage'[q] = stage[q]
    BY <1>1, <2>1 DEF PipelineTypes
  <2>3. PipelineTypes' BY <1>1, <1>2, <2>1, SameDocument DEF EstimateFails, selection_vars, PipelineTypes, Stages
  <2>4. InTheLane' BY <1>1, <1>2, <2>2, SameLane DEF EstimateFails
  <2>5. Selecting(r)' BY <1>1, <1>2, <2>2, SameDocument DEF EstimateFails, selection_vars, IInv, Selecting
  <2> QED BY <1>1, <1>2, <2>2, <2>3, <2>4, <2>5, SelectionStep DEF EstimateFails, selection_vars
<1>3. CASE \E e \in Estimates : Estimated(r, e)
  <2>1. PICK e \in Estimates : Estimated(r, e) BY <1>3
  <2>2. estimate' = [estimate EXCEPT ![r] = e] /\ estimate'[r] \in Estimates
    BY <1>1, <2>1 DEF Estimated, PipelineTypes
  <2>3. Sweeps BY <1>1 DEF IInv, Selecting
  <2> QED BY <1>1, <2>1, <2>2, <2>3, AsksKeeps DEF Estimated
<1> QED BY <1>2, <1>3

LEMMA CallStartsKeeps == ASSUME IInv, CallStarts PROVE IInv'
<1> DEFINE n == Len(lane)
           r == Head(lane)
<1>1. PipelineTypes /\ InTheLane /\ lane # <<>> BY DEF IInv, CallStarts
<1>2. /\ n \in Nat \ {0} /\ DOMAIN lane = 1 .. n /\ lane' \in Seq(Requests) /\ Len(lane') = n - 1
      /\ DOMAIN lane' = 1 .. n - 1 /\ r \in Requests /\ r = lane[1]
      /\ \A k \in 1 .. n - 1 : lane'[k] = lane[k + 1]
  BY <1>1, HeadTailProperties, LenProperties, EmptySeq DEF PipelineTypes, CallStarts
<1>3. busy' = busy \cup {r} /\ stage' = stage /\ doc' = doc BY DEF CallStarts
<1> HIDE DEF n, r
<1>4. /\ \A k \in 1 .. n - 1 : k + 1 \in 1 .. n /\ k + 1 # 1
      /\ \A k \in 1 .. n : k = 1 \/ (k - 1 \in 1 .. n - 1 /\ (k - 1) + 1 = k)
      /\ 1 \in 1 .. n /\ \A j, k \in 1 .. n - 1 : j + 1 = k + 1 => j = k
  BY <1>2
<1>5. \A j, k \in 1 .. n : lane[j] = lane[k] => j = k BY <1>1 DEF InTheLane, n
<1>6. ToSet(lane') = ToSet(lane) \ {r}
  <2>1. ASSUME NEW k \in 1 .. n - 1 PROVE lane'[k] \in ToSet(lane) \ {r} BY <1>2, <1>4, <1>5 DEF ToSet
  <2>2. ASSUME NEW k \in 1 .. n, lane[k] # r PROVE lane[k] \in ToSet(lane')
    <3>1. k - 1 \in 1 .. n - 1 /\ lane'[k - 1] = lane[k] BY <1>2, <1>4, <2>2
    <3> QED BY <1>2, <3>1 DEF ToSet
  <2>3. ToSet(lane') \subseteq ToSet(lane) \ {r} BY <1>2, <2>1 DEF ToSet
  <2>4. ToSet(lane) \ {r} \subseteq ToSet(lane') BY <1>2, <2>2 DEF ToSet
  <2> QED BY <2>3, <2>4
<1>7. r \in ToSet(lane) BY <1>2, <1>4 DEF ToSet
<1>8. stage[r] = "lane" /\ r \notin busy BY <1>1, <1>2, <1>7 DEF InTheLane
<1>9. InTheLane'
  <2>1. \A j, k \in 1 .. Len(lane') : lane'[j] = lane'[k] => j = k BY <1>2, <1>4, <1>5
  <2>2. \A q \in Requests : q \in ToSet(lane') <=> stage'[q] = "lane" /\ q \notin busy'
    BY <1>1, <1>3, <1>6, <1>8 DEF InTheLane
  <2>3. \A q \in busy' : stage'[q] \in {"lane", "error"} BY <1>1, <1>3, <1>8 DEF InTheLane
  <2>4. CallsAModel(Router) => Cardinality(busy') <= Router.concurrency
    <3>1. IsFiniteSet(busy) BY <1>1, ConstantTypes, FS_Subset DEF PipelineTypes
    <3>2. Cardinality(busy') = Cardinality(busy) + 1 /\ Cardinality(busy) \in Nat
      BY <1>3, <1>8, <3>1, FS_AddElement, FS_CardinalityType
    <3>3. CallsAModel(Router) => Router.concurrency \in Nat BY Documented DEF IInv
    <3> QED BY <3>2, <3>3 DEF CallStarts
  <2> QED BY <1>3, <2>1, <2>2, <2>3, <2>4, SameDocument DEF InTheLane
<1>10. PipelineTypes' BY <1>1, <1>2, <1>3, SameDocument DEF CallStarts, selection_vars, PipelineTypes
<1>11. \A q \in Requests : Selecting(q)' /\ Serving(q)' /\ Counted(q)'
  BY SameRequest DEF IInv, CallStarts, selection_vars, vars
<1>12. Applied' /\ LedgerInv' /\ TokensOpen' /\ Rotating'
  BY SameDocument, SameTokens, SameRotation DEF IInv, CallStarts
<1> QED BY <1>9, <1>10, <1>11, <1>12 DEF IInv

LEMMA CallEndsKeeps ==
  ASSUME IInv, NEW r \in Requests, NEW a \in Answers(Router), CallEnds(r, a)
  PROVE  IInv'
<1>1. PipelineTypes /\ InTheLane /\ r \in busy /\ stage[r] \in {"lane", "error"} /\ Selecting(r)
  BY DEF IInv, CallEnds, InTheLane
<1>2. /\ \A q \in Requests \ {r} : stage'[q] = stage[q] /\ answer'[q] = answer[q]
      /\ stage[r] = "lane" => stage'[r] = "answered" /\ answer'[r] = a
      /\ stage[r] # "lane" => stage'[r] = stage[r] /\ answer'[r] = answer[r]
  BY <1>1 DEF CallEnds, PipelineTypes
<1>3. PipelineTypes'
  <2>1. stage' \in [Requests -> Stages] /\ answer' \in [Requests -> Answers(Router) \cup {None}]
    BY <1>1 DEF CallEnds, PipelineTypes, Stages
  <2> QED BY <1>1, <2>1, SameDocument DEF CallEnds, PipelineTypes
<1>4. InTheLane'
  <2>1. busy' = busy \ {r} /\ lane' = lane /\ doc' = doc BY DEF CallEnds
  <2>2. r \notin ToSet(lane) BY <1>1 DEF InTheLane
  <2>3. \A q \in Requests : q \in ToSet(lane') <=> stage'[q] = "lane" /\ q \notin busy'
    BY <1>1, <1>2, <2>1, <2>2 DEF InTheLane
  <2>4. \A q \in busy' : stage'[q] \in {"lane", "error"} BY <1>1, <1>2, <2>1 DEF InTheLane, PipelineTypes
  <2>5. CallsAModel(Router) => Cardinality(busy') <= Router.concurrency
    <3>1. IsFiniteSet(busy) BY <1>1, ConstantTypes, FS_Subset DEF PipelineTypes
    <3>2. Cardinality(busy') = Cardinality(busy) - 1 /\ Cardinality(busy) \in Nat
      BY <1>1, <2>1, <3>1, FS_RemoveElement, FS_CardinalityType
    <3>3. CallsAModel(Router) => Router.concurrency \in Nat BY Documented DEF IInv
    <3> QED BY <1>1, <3>2, <3>3 DEF InTheLane
  <2> QED BY <1>1, <2>1, <2>3, <2>4, <2>5, SameDocument DEF InTheLane
<1>5. Selecting(r)'
  <2>1. doc' = doc /\ estimate' = estimate /\ compared' = compared BY DEF CallEnds
  <2> QED BY <1>1, <1>2, <2>1, SameDocument DEF Selecting
<1> QED BY <1>1, <1>2, <1>3, <1>4, <1>5, SelectionStep DEF CallEnds

LEMMA ForgetTypes ==
  ASSUME PipelineTypes, NEW r \in Requests, Forget(r), doc' = doc
  PROVE  /\ answer' \in [Requests -> Answers(Router)' \cup {None}]
         /\ estimate' \in [Requests -> Estimates \cup {None}]
         /\ compared' \in [Requests -> Seq(Fleet)]
         /\ estimate'[r] = None
         /\ \A q \in Requests \ {r} :
              answer'[q] = answer[q] /\ estimate'[q] = estimate[q] /\ compared'[q] = compared[q]
<1>1. <<>> \in Seq(Fleet) BY EmptySeq
<1> QED BY <1>1, SameDocument DEF Forget, PipelineTypes

\* A selection that fails, or whose client goes before it has a token.
LEMMA SelectionEnds ==
  ASSUME IInv, NEW r \in Requests, stage[r] \in {"estimating", "lane", "answered", "probing"},
         stage' = [stage EXCEPT ![r] = "error"], Forget(r),
         lane' = RemoveFirst(lane, r) \/ (lane' = lane /\ stage[r] # "lane"),
         UNCHANGED <<doc, busy, instance, stream, gauges, memory, picks, vars>>
  PROVE  IInv'
<1>1. PipelineTypes /\ InTheLane BY DEF IInv
<1>2. stage'[r] = "error" /\ (\A q \in Requests \ {r} : stage'[q] = stage[q]) /\ stage' \in [Requests -> Stages]
  BY <1>1 DEF PipelineTypes, Stages
<1>3. /\ lane' \in Seq(Requests) /\ \A j, k \in 1 .. Len(lane') : lane'[j] = lane'[k] => j = k
      /\ ToSet(lane') = ToSet(lane) \ {r}
  <2>1. CASE lane' = lane /\ stage[r] # "lane"
    <3>1. r \notin ToSet(lane) BY <1>1, <2>1 DEF InTheLane
    <3> QED BY <1>1, <2>1, <3>1 DEF InTheLane, PipelineTypes
  <2>2. CASE lane' = RemoveFirst(lane, r) BY <1>1, <2>2, Removed DEF InTheLane, PipelineTypes
  <2> QED BY <2>1, <2>2
<1>4. PipelineTypes' BY <1>1, <1>2, <1>3, ForgetTypes DEF PipelineTypes
<1>5. InTheLane'
  <2>1. \A q \in Requests : q \in ToSet(lane') <=> stage'[q] = "lane" /\ q \notin busy'
    BY <1>1, <1>2, <1>3 DEF InTheLane
  <2>2. \A q \in busy' : stage'[q] \in {"lane", "error"} BY <1>1, <1>2 DEF InTheLane, PipelineTypes
  <2> QED BY <1>1, <1>3, <2>1, <2>2, SameDocument DEF InTheLane
<1>6. Selecting(r)' BY <1>1, <1>2, ForgetTypes DEF Selecting
<1> QED BY <1>1, <1>2, <1>4, <1>5, <1>6, ForgetTypes, SelectionStep

LEMMA FailsKeeps ==
  ASSUME IInv, NEW r \in Requests, RoutingFails(r) \/ ProbeFails(r)
  PROVE  IInv'
BY SelectionEnds DEF RoutingFails, ProbeFails

\* A comparison is a sequence of instances.
LEMMA ComparisonTypes ==
  ASSUME NEW C, C \subseteq Fleet, C # {}, NEW type \in Types, NEW seq \in Comparisons(type, C)
  PROVE  seq \in Seq(Fleet)
<1>1. InFleetOrder(C) \in Seq(Fleet) BY FleetOrder
<1>2. \A pair \in C \X C : pair \in Seq(Fleet)
  <2>1. \A i, j \in C : <<i, j>> \in Seq(Fleet) OBVIOUS
  <2> SUFFICES ASSUME NEW pair \in C \X C PROVE pair \in Seq(Fleet) OBVIOUS
  <2>2. PICK i \in C, j \in C : pair = <<i, j>> OBVIOUS
  <2> QED BY <2>1, <2>2
<1> QED BY <1>1, <1>2 DEF Comparisons, Draws

LEMMA ProbeBegins ==
  ASSUME IInv, NEW r \in Requests, Routed(r), Probes
  PROVE  IInv'
<1> DEFINE C == Candidates(Decision(Router, answer[r]))
<1>1. PipelineTypes /\ InTheLane /\ Applied /\ Selecting(r) /\ stage[r] = "answered" /\ doc' = doc
  BY DEF IInv, Routed
<1>2. PICK seq \in Comparisons(Dispatch.type, C) :
        /\ stage' = [stage EXCEPT ![r] = "probing"] /\ compared' = [compared EXCEPT ![r] = seq]
        /\ UNCHANGED <<estimate, answer, instance, memory, picks, vars>>
  BY DEF Routed
<1>3. C \in Groups BY <1>1, DecidesAGroup DEF Routed
<1> HIDE DEF C
<1>4. seq \in Seq(Fleet) BY <1>1, <1>3, GroupsOfTheFleet, Documented, ComparisonTypes
<1>5. /\ stage'[r] = "probing" /\ compared'[r] = seq
      /\ \A q \in Requests \ {r} : stage'[q] = stage[q] /\ compared'[q] = compared[q]
      /\ stage' \in [Requests -> Stages] /\ compared' \in [Requests -> Seq(Fleet)]
  BY <1>1, <1>2, <1>4 DEF PipelineTypes, Stages
<1>6. PipelineTypes' BY <1>1, <1>2, <1>5, SameDocument DEF Routed, PipelineTypes
<1>7. InTheLane' BY <1>1, <1>5, SameLane DEF Routed
<1>8. Selecting(r)'
  <2>1. Router' = Router /\ Dispatch' = Dispatch /\ Sweeps' = Sweeps /\ Probes' = Probes /\ answer' = answer
        /\ estimate' = estimate
    BY <1>1, <1>2, SameDocument
  <2>2. Decision(Router, answer[r]) # Fails BY DEF Routed
  <2>3. compared'[r] \in Comparisons(Dispatch.type, Candidates(Decision(Router, answer[r]))) BY <1>5 DEF C
  <2> QED BY <1>1, <1>5, <2>1, <2>2, <2>3 DEF Selecting
<1> QED BY <1>1, <1>2, <1>5, <1>6, <1>7, <1>8, SelectionStep DEF Routed

LEMMA GaugesKeep ==
  ASSUME IInv, (\E r \in Requests, i \in Fleet : Scraped(r, i)) \/ \E i \in Fleet : Polled(i)
  PROVE  IInv'
<1>1. PipelineTypes BY DEF IInv
<1>2. \A i \in Fleet : AtEngine(i) \in Nat
  <2>1. \A i \in Fleet : IsFiniteSet({r \in Requests : instance[r] = i /\ Streaming(stream[r]) /\ ~stream[r].ended})
    BY ConstantTypes, FS_Subset
  <2> QED BY <2>1, FS_CardinalityType DEF AtEngine
<1>3. /\ UNCHANGED <<doc, stage, lane, busy, estimate, answer, compared, instance, stream, memory, picks, vars>>
      /\ gauges' = gauges \/ \E i \in Fleet : gauges' = [gauges EXCEPT ![i] = AtEngine(i)]
  BY DEF Scraped, Polled, selection_vars
<1>4. PipelineTypes'
  <2>1. /\ gauges' \in [Fleet -> Nat \cup {None}]
        /\ doc.telemetry_read = "poll" => gauges' \in [Fleet -> Nat]
    BY <1>1, <1>2, <1>3 DEF PipelineTypes
  <2> QED BY <1>1, <1>3, <2>1, SameDocument DEF PipelineTypes
<1>5. \A q \in Requests : Selecting(q)' /\ Serving(q)' /\ Counted(q)' BY <1>3, SameRequest DEF IInv, vars
<1>6. InTheLane' BY <1>3, SameDocument DEF InTheLane, IInv
<1>7. Applied' /\ LedgerInv' /\ TokensOpen' /\ Rotating' BY <1>3, SameDocument, SameTokens, SameRotation DEF IInv
<1> QED BY <1>4, <1>5, <1>6, <1>7 DEF IInv

-----------------------------------------------------------------------------
(* A dispatch *)

\* A predicted length is at least one token and within the bound.
LEMMA WholeInBounds ==
  ASSUME NEW length \in Nat, length \div Parts <= MaxTokens
  PROVE  Whole(length) \in 1 .. MaxTokens
<1>1. Parts \in Nat \ {0} /\ MaxTokens \in Nat \ {0} BY FleetAssumption, LedgerAssumption
<1>2. CASE length < Parts BY <1>1, <1>2 DEF Whole
<1>3. CASE ~(length < Parts)
  <2>1. length \div Parts \in Nat /\ length \div Parts >= 1 BY <1>1, <1>3
  <2> QED BY <1>1, <1>3, <2>1 DEF Whole
<1> QED BY <1>2, <1>3

LEMMA DecodeInBounds ==
  ASSUME NEW r, NEW m \in Models, Sweeps => estimate[r] \in Estimates
  PROVE  Decode(r, m) \in 1 .. MaxTokens
<1>1. CASE Sweeps
  <2>1. estimate[r][m] \in Nat /\ estimate[r][m] \div Parts <= MaxTokens BY <1>1, LengthAssumption
  <2> QED BY <1>1, <2>1, WholeInBounds DEF Decode
<1>2. CASE ~Sweeps BY <1>2, ConstantTypes DEF Decode
<1> QED BY <1>1, <1>2

\* The two selections that end in a dispatch, and what each compares.
LEMMA PlacedFrom ==
  ASSUME IInv, NEW r \in Requests, (Routed(r) /\ ~Probes) \/ Probed(r)
  PROVE  /\ stage[r] \in {"answered", "probing"} /\ Forget(r) /\ UNCHANGED <<doc, lane, busy, stream, gauges>>
         /\ \E C \in Groups : \E seq \in Comparisons(Dispatch.type, C) :
              /\ Placed(r, seq)
              /\ \A i \in ToSet(seq) : Queue[i] \in Int
              /\ IF Probes THEN compared[r] = seq ELSE Candidates(Decision(Router, answer[r])) = C
<1>1. PipelineTypes /\ Applied /\ Selecting(r) BY DEF IInv
<1>2. Dispatch.type \in Types /\ doc.telemetry_read \in {"poll", "per_request"} BY <1>1, Documented
<1>3. \A i \in Fleet : InFlight(i) \in Int
  <2>1. \A i \in Fleet : IsFiniteSet(open_tokens[i])
    BY ConstantTypes, FS_Subset DEF IInv, LedgerInv, TypeOK
  <2>2. \A i \in Fleet : InFlight(i) \in Nat BY <2>1, FS_CardinalityType DEF InFlight
  <2> QED BY <2>2
<1>4. \A i \in Fleet : gauges[i] # None => Queue[i] \in Int BY <1>1, <1>3 DEF Queue, PipelineTypes
<1>5. CASE Routed(r) /\ ~Probes
  <2> DEFINE C == Candidates(Decision(Router, answer[r]))
  <2>1. stage[r] = "answered" /\ C \in Groups BY <1>5, DecidesAGroup DEF Routed
  <2>2. PICK seq \in Comparisons(Dispatch.type, C) : Placed(r, seq) /\ Forget(r) BY <1>5 DEF Routed
  <2>3. \A i \in ToSet(seq) : Queue[i] \in Int
    <3> HIDE DEF C
    <3>1. doc.telemetry_read = "poll" BY <1>2, <1>5 DEF Probes
    <3>2. \A i \in Fleet : gauges[i] \in Nat BY <1>1, <3>1 DEF PipelineTypes
    <3>3. \A i \in Fleet : gauges[i] # None BY <3>2, FleetAssumption
    <3>4. ToSet(seq) \subseteq C /\ C \subseteq Fleet BY <1>2, <2>1, GroupsOfTheFleet, ComparesCandidates
    <3> QED BY <1>4, <3>3, <3>4
  <2> QED BY <1>5, <2>1, <2>2, <2>3 DEF Routed
<1>6. CASE Probed(r)
  <2>1. stage[r] = "probing" /\ Placed(r, compared[r]) /\ Forget(r) BY <1>6 DEF Probed
  <2>2. Probes /\ \E C \in Groups : compared[r] \in Comparisons(Dispatch.type, C)
    <3>1. /\ Probes /\ Decision(Router, answer[r]) # Fails
          /\ compared[r] \in Comparisons(Dispatch.type, Candidates(Decision(Router, answer[r])))
      BY <1>1, <2>1 DEF Selecting
    <3> QED BY <2>1, <3>1, DecidesAGroup
  <2>3. PICK C \in Groups : compared[r] \in Comparisons(Dispatch.type, C) BY <2>2
  <2>4. \A i \in ToSet(compared[r]) : Queue[i] \in Int
    <3>1. ToSet(compared[r]) \subseteq C /\ C \subseteq Fleet
      BY <1>2, <2>3, GroupsOfTheFleet, ComparesCandidates
    <3>2. \A i \in ToSet(compared[r]) : gauges[i] # None BY <1>6 DEF Probed
    <3> QED BY <1>4, <3>1, <3>2
  <2> QED BY <1>6, <2>1, <2>2, <2>3, <2>4 DEF Probed
<1> QED BY <1>5, <1>6

\* Different groups share neither an instance nor a rotation.
LEMMA GroupsApart ==
  ASSUME NEW C \in Groups, NEW D \in Groups, C # D
  PROVE  C \cap D = {} /\ ModelOf[Min(C)] # ModelOf[Min(D)]
<1>1. Router.type # "passthrough" BY DEF Groups
<1>2. PICK m \in Models, n \in Models : C = Candidates(m) /\ D = Candidates(n) BY <1>1 DEF Groups
<1>3. m # n /\ m # All /\ n # All BY <1>2, FleetAssumption, RouterAssumption DEF All
<1>4. (\A i \in C : ModelOf[i] = m) /\ \A i \in D : ModelOf[i] = n BY <1>2, <1>3 DEF Candidates
<1>5. Min(C) \in C /\ Min(D) \in D
  <2>1. C \subseteq Nat /\ D \subseteq Nat BY FleetTypes, GroupsOfTheFleet
  <2> QED BY <2>1, MinIsLeast, GroupsOfTheFleet
<1> QED BY <1>3, <1>4, <1>5

\* One turn of a rotation: the instance after its place is taken once more, and the other rotations stay.
LEMMA TurnKeeps ==
  ASSUME IInv, PipelineTypes, NEW C \in Groups, Dispatch.type = "round_robin", doc' = doc,
         NEW p \in RoundRobin(memory, C), memory' = p[2], picks' = [picks EXCEPT ![p[1]] = @ + 1]
  PROVE  Rotating'
<1> DEFINE key == ModelOf[Min(C)]
           n == Cardinality(C)
           k == memory.next[key] % n
           order == InFleetOrder(C)
<1>1. C \subseteq Fleet /\ C # {} BY GroupsOfTheFleet
<1>2. memory \in Memories BY DEF PipelineTypes
<1>3. /\ key \in Models /\ k \in 0 .. n - 1 /\ k + 1 \in 1 .. n
      /\ p[1] = order[k + 1] /\ p[2] = [memory EXCEPT !.next[key] = k + 1]
  BY <1>1, <1>2, RotationPicks
<1>4. /\ n \in Nat /\ order \in [1 .. n -> C] /\ \A i, j \in 1 .. n : i < j => order[i] < order[j]
  BY <1>1, FleetOrder
<1>5. Turned(C) /\ picks \in [Fleet -> Nat] BY DEF IInv, Rotating, PipelineTypes
<1>6. PICK m \in Nat : /\ memory.next[key] \in 0 .. n
                       /\ \A q \in 1 .. n : picks[order[q]] = IF q <= memory.next[key] THEN m + 1 ELSE m
  BY <1>5 DEF Turned
<1>7. /\ memory'.next[key] = k + 1
      /\ \A other \in Models : other # key => memory'.next[other] = memory.next[other]
  BY <1>2, <1>3 DEF Memories
<1> DEFINE last == memory.next[key]
<1>8. k = IF last = n THEN 0 ELSE last
  <2>1. last \in 0 .. n /\ n # 0 BY <1>1, <1>6, FleetOrder, FS_EmptySet
  <2> HIDE DEF last, n
  <2>2. n \in Nat \ {0} BY <1>4, <2>1
  <2>3. last % n = IF last = n THEN 0 ELSE last BY <2>1, <2>2
  <2> QED BY <2>3 DEF last, n
<1>9. \A i \in Fleet : picks'[i] = IF i = order[k + 1] THEN picks[i] + 1 ELSE picks[i] BY <1>3, <1>5
<1> HIDE DEF key, n, order
<1>10. \A q \in 1 .. n : order[q] \in Fleet /\ (order[q] = order[k + 1] <=> q = k + 1)
  <2>1. \A i, j \in 1 .. n : order[i] = order[j] => i = j
    <3>1. \A i \in 1 .. n : order[i] \in Nat /\ i \in Nat
      <4>1. C \subseteq Nat /\ 1 .. n \subseteq Nat BY <1>1, FleetTypes, PlacesAreNatural
      <4> QED BY <1>4, <4>1
    <3>2. \A i, j \in 1 .. n : i < j \/ j < i \/ i = j BY <3>1
    <3>3. \A i, j \in 1 .. n : i < j => order[i] # order[j] BY <1>4, <3>1
    <3> QED BY <3>2, <3>3
  <2> QED BY <1>1, <1>3, <1>4, <2>1
<1>11. \A q \in 1 .. n : picks'[order[q]] =
         IF q = k + 1 THEN picks[order[q]] + 1 ELSE picks[order[q]]
  BY <1>9, <1>10
<1>12. \E base \in Nat : \A q \in 1 .. n : picks'[order[q]] = IF q <= k + 1 THEN base + 1 ELSE base
  <2> HIDE DEF k, last
  <2>1. k \in Nat /\ last \in Nat /\ \A q \in 1 .. n : q \in Nat BY <1>3, <1>6 DEF last
  <2>2. \A q \in 1 .. n : picks[order[q]] = IF q <= last THEN m + 1 ELSE m BY <1>6 DEF last
  <2>3. CASE last = n
    <3>1. k = 0 BY <1>8, <2>3
    <3>2. \A q \in 1 .. n : picks[order[q]] = m + 1 BY <1>4, <2>2, <2>3
    <3>3. \A q \in 1 .. n : picks'[order[q]] = IF q <= k + 1 THEN (m + 1) + 1 ELSE m + 1
      BY <1>11, <2>1, <3>1, <3>2
    <3> QED BY <3>3
  <2>4. CASE last # n
    <3>1. k = last BY <1>8, <2>4
    <3>2. \A q \in 1 .. n : picks'[order[q]] = IF q <= k + 1 THEN m + 1 ELSE m
      BY <1>11, <2>1, <2>2, <3>1
    <3> QED BY <3>2
  <2> QED BY <2>3, <2>4
<1>13. Turned(C)'
  <2>1. k + 1 \in 0 .. n BY <1>3, <1>4
  <2>2. memory'.next[ModelOf[Min(C)]] = k + 1 BY <1>7 DEF key
  <2> HIDE DEF k
  <2> QED BY <1>12, <2>1, <2>2 DEF Turned, n, order
<1>14. ASSUME NEW D \in Groups, D # C PROVE Turned(D)'
  <2>1. C \cap D = {} /\ ModelOf[Min(D)] # key BY <1>14, GroupsApart DEF key
  <2>2. D \subseteq Fleet /\ D # {} BY GroupsOfTheFleet
  <2>3. ModelOf[Min(D)] \in Models
    <3>1. D \subseteq Nat BY <2>2, FleetTypes
    <3> QED BY <2>2, <3>1, MinIsLeast, ModelsOf
  <2>4. memory'.next[ModelOf[Min(D)]] = memory.next[ModelOf[Min(D)]] BY <1>7, <2>1, <2>3
  <2>5. \A q \in 1 .. Cardinality(D) : picks'[InFleetOrder(D)[q]] = picks[InFleetOrder(D)[q]]
    <3>1. InFleetOrder(D) \in [1 .. Cardinality(D) -> D] BY <2>2, FleetOrder
    <3>2. order[k + 1] \in C BY <1>3, <1>4
    <3> QED BY <1>9, <2>1, <2>2, <3>1, <3>2
  <2>6. Turned(D) BY DEF IInv, Rotating
  <2> QED BY <2>4, <2>5, <2>6 DEF Turned
<1>15. Groups' = Groups /\ Dispatch' = Dispatch BY SameDocument
<1> QED BY <1>13, <1>14, <1>15 DEF Rotating

\* A choice and its token: the dispatcher's pick is a candidate, and its prediction is one the ledger takes.
LEMMA PlacedKeeps ==
  ASSUME IInv, NEW r \in Requests, (Routed(r) /\ ~Probes) \/ Probed(r)
  PROVE  /\ IInv'
         /\ \E i \in Instances, n \in 1 .. MaxTokens : RecordDispatch(r, i, n)
<1>1. PipelineTypes /\ InTheLane /\ Applied /\ Selecting(r) /\ Serving(r) /\ Counted(r) /\ LedgerInv /\ TokensOpen
  BY DEF IInv
<1>2. stage[r] \in {"answered", "probing"} /\ Forget(r) /\ UNCHANGED <<doc, lane, busy, stream, gauges>>
  BY PlacedFrom
<1> PICK C \in Groups : \E seq \in Comparisons(Dispatch.type, C) :
      Placed(r, seq) /\ \A i \in ToSet(seq) : Queue[i] \in Int
  BY PlacedFrom
<1>3. PICK seq \in Comparisons(Dispatch.type, C) : Placed(r, seq) /\ \A i \in ToSet(seq) : Queue[i] \in Int
  OBVIOUS
<1>4. PICK p \in Picks(Dispatch.type, memory, seq, Queue) :
        /\ instance' = [instance EXCEPT ![r] = p[1]] /\ memory' = p[2]
        /\ picks' = (IF Dispatch.type = "round_robin" THEN [picks EXCEPT ![p[1]] = @ + 1] ELSE picks)
        /\ stage' = [stage EXCEPT ![r] = "serving"]
        /\ Dispatched(r, p[1], Decode(r, ModelOf[p[1]]))
  BY <1>3 DEF Placed
<1> DEFINE i == p[1]
           n == Decode(r, ModelOf[i])
<1>5. Dispatch.type \in Types /\ C \subseteq Fleet /\ C # {} /\ memory \in Memories
  BY <1>1, GroupsOfTheFleet, Documented DEF PipelineTypes
<1>6. i \in Fleet /\ memory' \in Memories /\ (Dispatch.type # "round_robin" => memory'.next = memory.next)
  <2>1. Dispatch.type = "least_outstanding" => ToSet(seq) = C BY <1>5, ComparesCandidates
  <2>2. Dispatch.type = "least_outstanding" => \A j \in C : Queue[j] \in Int BY <1>3, <2>1
  <2> QED BY <1>4, <1>5, <2>2, PicksACandidate
<1>7. n \in 1 .. MaxTokens
  <2>1. ModelOf[i] \in Models BY <1>6, ModelsOf
  <2>2. Sweeps => estimate[r] \in Estimates BY <1>1, <1>2 DEF Selecting
  <2> QED BY <2>1, <2>2, DecodeInBounds
<1>8. Dispatched(r, i, n) BY <1>4
<1>9. instance' = [instance EXCEPT ![r] = i] BY <1>4
<1>10. picks' = picks \/ picks' = [picks EXCEPT ![i] = @ + 1] BY <1>4
<1> HIDE DEF i, n
<1>11. predicted[r] = 0 /\ RecordDispatch(r, i, n)
  <2>1. predicted[r] = 0 BY <1>1, <1>2 DEF Counted
  <2>2. n >= 1 BY <1>7, ConstantTypes
  <2> QED BY <1>8, <2>1, <2>2 DEF RecordDispatch
<1>12. LedgerInv' BY <1>1, <1>6, <1>7, <1>11, ConstantTypes, DispatchKeepsInv
<1>13. /\ stage'[r] = "serving" /\ instance'[r] = i
       /\ \A q \in Requests \ {r} : stage'[q] = stage[q] /\ instance'[q] = instance[q]
       /\ stage' \in [Requests -> Stages] /\ instance' \in [Requests -> Fleet \cup {None}]
  BY <1>1, <1>4, <1>6, <1>9 DEF PipelineTypes, Stages
<1>14. PipelineTypes'
  <2>1. picks' \in [Fleet -> Nat] BY <1>1, <1>6, <1>10 DEF PipelineTypes
  <2> QED BY <1>1, <1>2, <1>6, <1>13, <2>1, ForgetTypes, SameDocument DEF PipelineTypes
<1>15. InTheLane' BY <1>1, <1>2, <1>13, SameLane
<1>16. instance[r] \notin Fleet /\ stream[r] = NoStream BY <1>1, <1>2 DEF Serving
<1>17. TokensOpen'
  <2>1. \A j \in Instances : open_tokens'[j] = IF j = i THEN open_tokens[j] \cup {r} ELSE open_tokens[j]
    BY <1>1, <1>6, <1>8, ConstantTypes DEF Dispatched, LedgerInv, TypeOK
  <2>2. \A j \in Instances : {q \in Requests : instance'[q] = j} =
          IF j = i THEN {q \in Requests : instance[q] = j} \cup {r} ELSE {q \in Requests : instance[q] = j}
    BY <1>13, <1>16, ConstantTypes
  <2> QED BY <1>1, <2>1, <2>2 DEF TokensOpen
<1>18. Rotating'
  <2>1. CASE Dispatch.type = "round_robin"
    <3>1. ToSet(seq) = C BY <1>3, <1>5, <2>1, ComparesCandidates
    <3>2. p \in RoundRobin(memory, C) BY <1>4, <2>1, <3>1 DEF Picks
    <3> QED BY <1>1, <1>2, <1>4, <2>1, <3>2, TurnKeeps
  <2>2. CASE Dispatch.type # "round_robin"
    <3>1. picks' = picks /\ memory'.next = memory.next BY <1>4, <1>6, <2>2
    <3> QED BY <1>2, <3>1, SameRotation DEF IInv
  <2> QED BY <2>1, <2>2
<1>19. /\ predicted'[r] = n /\ produced' = produced /\ \A q \in Requests \ {r} : predicted'[q] = predicted[q]
  BY <1>1, <1>8, ConstantTypes DEF Dispatched, LedgerInv, TypeOK
<1>20. Selecting(r)' BY <1>1, <1>2, <1>13, ForgetTypes DEF Selecting
<1>21. Serving(r)' BY <1>1, <1>2, <1>6, <1>13 DEF Serving
<1>22. Counted(r)'
  <2>1. produced[r] = 0 BY <1>1, <1>11, ConstantTypes DEF LedgerInv
  <2>2. stream'[r].made = 0 BY <1>2, <1>16 DEF NoStream
  <2> QED BY <1>13, <1>19, <2>1, <2>2 DEF Counted
<1>23. \A q \in Requests \ {r} : Selecting(q)' /\ Serving(q)' /\ Counted(q)'
  BY <1>2, <1>13, <1>19, ForgetTypes, <1>1, SameRequest DEF IInv
<1>24. Applied' BY <1>1, <1>2, SameDocument
<1>25. IInv' BY <1>12, <1>14, <1>15, <1>17, <1>18, <1>20, <1>21, <1>22, <1>23, <1>24 DEF IInv
<1> QED BY <1>6, <1>7, <1>11, <1>25, ConstantTypes

-----------------------------------------------------------------------------
(* The steps of a service *)

\* A stream moves: its request stays where it is.
LEMMA StreamStep ==
  ASSUME IInv, NEW r \in Requests, NEW s, Sets(r, s), stage[r] = "serving", StreamOK(s),
         LedgerInv', open_tokens' = open_tokens, predicted'[r] # 0 \/ predicted'[r] = predicted[r],
         \A q \in Requests \ {r} : predicted'[q] = predicted[q] /\ produced'[q] = produced[q],
         s.result = "none" => produced'[r] <= s.made
  PROVE  IInv'
<1>1. PipelineTypes /\ InTheLane /\ TokensOpen /\ Serving(r) BY DEF IInv
<1>2. /\ UNCHANGED <<doc, stage, lane, busy, selection_vars, instance, gauges, memory, picks>>
      /\ stream' = [stream EXCEPT ![r] = s] /\ s \in Streams
  BY DEF Sets, StreamOK
<1>3. stream'[r] = s /\ (\A q \in Requests \ {r} : stream'[q] = stream[q]) /\ stream' \in [Requests -> Streams]
  BY <1>1, <1>2 DEF PipelineTypes
<1>4. PipelineTypes' BY <1>1, <1>2, <1>3, SameDocument DEF PipelineTypes, selection_vars
<1>5. InTheLane' BY <1>1, <1>2, SameLane
<1>6. TokensOpen' BY <1>1, <1>2 DEF TokensOpen
<1>7. Rotating' /\ Applied' BY <1>2, SameRotation, SameDocument DEF IInv
<1>8. Selecting(r)' BY <1>2, SameDocument DEF IInv, Selecting, selection_vars
<1>9. \A q \in Requests \ {r} : Selecting(q)' /\ Serving(q)' /\ Counted(q)'
  BY <1>2, <1>3, SameRequest DEF IInv, selection_vars
<1>10. Serving(r)' /\ Counted(r)' BY <1>1, <1>2, <1>3 DEF Serving, Counted
<1> QED BY <1>4, <1>5, <1>6, <1>7, <1>8, <1>9, <1>10 DEF IInv

\* A stream is of a request that is served.
LEMMA StreamsAreServed ==
  ASSUME IInv, NEW r \in Requests, Streaming(stream[r])
  PROVE  stage[r] = "serving" /\ StreamOK(stream[r]) /\ stream[r].result = "none"
BY DEF IInv, Serving, Streaming, NoStream

LEMMA PostKeeps == ASSUME IInv, NEW r \in Requests, Post(r) PROVE IInv'
<1>1. PICK s \in {Accepted200} \cup Breaks : Sets(r, s) BY DEF Post
<1>2. UNCHANGED vars /\ stage[r] = "serving" /\ stream[r] = NoStream BY DEF Post
<1>3. StreamOK(s) /\ (s.result = "none" => s.made = 0)
  BY NoStreamOK DEF Breaks, Accepted200, NoStream
<1>4. stream[r].made = 0 /\ stream[r].result = "none" BY <1>2 DEF NoStream
<1>5. produced[r] <= stream[r].made BY <1>2, <1>4 DEF IInv, Counted
<1>6. LedgerInv' BY <1>1, <1>2, SameTokens DEF IInv, Sets
<1>7. UNCHANGED <<open_tokens, predicted, produced>> BY <1>2 DEF vars
<1>8. s.result = "none" => produced'[r] <= s.made BY <1>3, <1>4, <1>5, <1>7
<1> QED BY <1>1, <1>2, <1>3, <1>6, <1>7, <1>8, StreamStep

LEMMA BodyEndsKeeps == ASSUME IInv, NEW r \in Requests, BodyEnds(r) PROVE IInv'
<1>1. Streaming(stream[r]) /\ UNCHANGED vars BY DEF BodyEnds
<1>2. stage[r] = "serving" /\ StreamOK(stream[r]) BY <1>1, StreamsAreServed
<1>3. PICK s \in {AfterBody(stream[r]), Failed("failed"), Failed("timed_out")}
                   \cup {AfterUnterminated(stream[r], e) : e \in NextEvents(stream[r])} : Sets(r, s)
  BY DEF BodyEnds
<1>4. StreamOK(s) /\ s.result # "none" BY <1>1, <1>2, <1>3, NoStreamOK, AfterBodyOK, AfterUnterminatedOK
<1>5. LedgerInv' BY <1>1, <1>3, SameTokens DEF IInv, Sets
<1> QED BY <1>1, <1>2, <1>3, <1>4, <1>5, StreamStep DEF vars

\* A report is of an open token and never goes back, however the event that carried it ends.
LEMMA ReceivesKeeps ==
  ASSUME IInv, NEW r \in Requests, NEW e \in NextEvents(stream[r]), Receives(r, e)
  PROVE  /\ IInv'
         /\ UNCHANGED vars \/ (e.tokens \in 0 .. MaxTokens /\ RecordProgress(r, e.tokens))
<1> DEFINE s == AfterEvent(stream[r], e)
<1>1. Streaming(stream[r]) /\ Sets(r, s) BY DEF Receives
<1>2. stage[r] = "serving" /\ StreamOK(stream[r]) /\ stream[r].result = "none" BY <1>1, StreamsAreServed
<1>3. /\ StreamOK(s)
      /\ Reports(stream[r], e) => e.tokens \in 0 .. MaxReply /\ e.tokens >= stream[r].made
      /\ s.result = "none" => s.made >= stream[r].made /\ (Reports(stream[r], e) => s.made = e.tokens)
  BY <1>1, <1>2, AfterEventOK
<1>4. LedgerInv /\ TokensOpen /\ Serving(r) /\ Counted(r) BY DEF IInv
<1>5. produced[r] <= stream[r].made /\ produced[r] \in Nat /\ stream[r].made \in Nat
  <2>1. stream[r].made \in 0 .. MaxReply BY <1>2 DEF StreamOK, Streams
  <2> QED BY <1>2, <1>4, <2>1, ConstantTypes DEF Counted, LedgerInv, TypeOK
<1>6. s.result = "none" => s.made \in Nat
  <2>1. s.made \in 0 .. MaxReply BY <1>3 DEF StreamOK, Streams
  <2> QED BY <2>1, ConstantTypes
<1> HIDE DEF s
<1>7. CASE ~Reports(stream[r], e)
  <2>1. UNCHANGED vars BY <1>7 DEF Receives
  <2>2. LedgerInv' BY <1>1, <1>4, <2>1, SameTokens DEF Sets
  <2>3. UNCHANGED <<open_tokens, predicted, produced>> BY <2>1 DEF vars
  <2>4. s.result = "none" => produced'[r] <= s.made BY <1>3, <1>5, <1>6, <2>3
  <2>5. StreamOK(s) BY <1>3
  <2>6. IInv' BY <1>1, <1>2, <2>2, <2>3, <2>4, <2>5, StreamStep
  <2> QED BY <2>1, <2>6
<1>8. CASE Reports(stream[r], e)
  <2>1. Progressed(r, e.tokens) BY <1>8 DEF Receives
  <2>2. e.tokens \in 0 .. MaxReply /\ e.tokens \in Nat /\ e.tokens >= stream[r].made
    BY <1>3, <1>8, ConstantTypes
  <2>3. r \in Open
    <3>1. instance[r] \in Instances BY <1>2, <1>4, ConstantTypes DEF Serving
    <3>2. r \in open_tokens[instance[r]] BY <1>4, <3>1 DEF TokensOpen
    <3> QED BY <3>1, <3>2 DEF Open
  <2>4. RecordProgress(r, e.tokens)
    <3>1. e.tokens >= produced[r] BY <1>5, <2>2
    <3> QED BY <2>1, <2>3, <3>1 DEF RecordProgress
  <2>5. e.tokens \in 0 .. MaxTokens BY <2>2, ConstantTypes
  <2>6. LedgerInv' BY <1>4, <2>4, <2>5, ConstantTypes, ProgressKeepsInv
  <2>7. /\ open_tokens' = open_tokens /\ predicted'[r] # 0 /\ produced'[r] = e.tokens
        /\ \A q \in Requests \ {r} : predicted'[q] = predicted[q] /\ produced'[q] = produced[q]
    <3>1. Extended(r, e.tokens) \in Nat /\ Extended(r, e.tokens) > e.tokens
      BY <1>4, <2>2, ConstantTypes, ExtendedIsAhead DEF LedgerInv, TypeOK
    <3>2. Extended(r, e.tokens) # 0 BY <2>2, <3>1
    <3> QED BY <1>4, <2>1, <3>2, ConstantTypes DEF Progressed, LedgerInv, TypeOK
  <2>8. s.result = "none" => produced'[r] <= s.made BY <1>3, <1>8, <2>2, <2>7
  <2> QED BY <1>1, <1>2, <1>3, <2>4, <2>5, <2>6, <2>7, <2>8, StreamStep
<1> QED BY <1>7, <1>8

\* A dispatcher learns of an instance, and no rotation moves.
LEMMA LearnedTypes ==
  ASSUME NEW d \in Memories, d = memory, NEW i \in Fleet, NEW sample \in Nat, NEW result
  PROVE  Learned(result, i, sample) \in Memories /\ Learned(result, i, sample).next = memory.next
<1>1. ASSUME NEW x \in Nat
      PROVE  /\ ObserveCompletion(Dispatch.type, memory, i, x) \in Memories
             /\ ObserveCompletion(Dispatch.type, memory, i, x).next = memory.next
  <2> DEFINE kept == Append(memory.samples[i], x)
             entry == IF Len(kept) > Window THEN Tail(kept) ELSE kept
             after == [memory EXCEPT !.samples = [memory.samples EXCEPT ![i] = entry]]
  <2>1. /\ memory = [next |-> memory.next, assigned |-> memory.assigned, samples |-> memory.samples]
        /\ memory.next \in [Models -> Nat] /\ memory.assigned \in [Fleet -> Nat]
        /\ memory.samples \in [Fleet -> Seq(Nat)]
    BY DEF Memories
  <2>2. kept \in Seq(Nat) /\ kept # <<>>
    <3>1. memory.samples[i] \in Seq(Nat) BY <2>1
    <3>2. kept \in Seq(Nat) /\ Len(kept) = Len(memory.samples[i]) + 1 /\ Len(memory.samples[i]) \in Nat
      BY <3>1, AppendProperties, LenProperties
    <3> HIDE DEF kept
    <3> QED BY <3>2, EmptySeq
  <2>3. entry \in Seq(Nat) BY <2>2, HeadTailProperties
  <2>4. ObserveCompletion(Dispatch.type, memory, i, x) = IF Dispatch.type = "lowest_latency" THEN after ELSE memory
    BY DEF ObserveCompletion, Add
  <2> HIDE DEF kept, entry
  <2>5. [memory.samples EXCEPT ![i] = entry] \in [Fleet -> Seq(Nat)] BY <2>1, <2>3
  <2>6. after \in Memories /\ after.next = memory.next BY <2>1, <2>5 DEF Memories
  <2> QED BY <2>4, <2>6
<1>2. TimeoutSample \in Nat BY DispatchAssumption
<1>3. CASE result = "ok" BY <1>1, <1>3 DEF Learned
<1>4. CASE result = "timed_out" BY <1>1, <1>2, <1>4 DEF Learned, ObserveTimeout
<1>5. CASE result \notin {"ok", "timed_out"} BY <1>5 DEF Learned
<1> QED BY <1>3, <1>4, <1>5

\* A service ends, whatever ended it: its token is closed where it was dispatched.
LEMMA ServiceEnds ==
  ASSUME IInv, NEW r \in Requests, stage[r] = "serving", Closed(r, instance[r]),
         NEW how \in {"ok", "error"}, stage' = [stage EXCEPT ![r] = how],
         stream' = [stream EXCEPT ![r] = NoStream], instance' = [instance EXCEPT ![r] = None],
         UNCHANGED <<doc, busy, gauges, picks>>, memory' \in Memories, memory'.next = memory.next,
         lane' = RemoveFirst(lane, r) \/ lane' = lane,
         Forget(r) \/ UNCHANGED selection_vars
  PROVE  IInv' /\ instance[r] \in Instances /\ Close(r, instance[r])
<1>1. PipelineTypes /\ InTheLane /\ Serving(r) /\ LedgerInv /\ TokensOpen BY DEF IInv
<1>2. instance[r] \in Instances /\ instance[r] \in Fleet BY <1>1, ConstantTypes DEF Serving
<1>3. r \in open_tokens[instance[r]] BY <1>1, <1>2 DEF TokensOpen
<1>4. Close(r, instance[r]) BY <1>3 DEF Close
<1>5. LedgerInv' BY <1>1, <1>2, <1>4, ConstantTypes, CloseKeepsInv
<1>6. /\ stage'[r] = how /\ instance'[r] = None /\ stream'[r] = NoStream
      /\ \A q \in Requests \ {r} : stage'[q] = stage[q] /\ instance'[q] = instance[q] /\ stream'[q] = stream[q]
      /\ stage' \in [Requests -> Stages] /\ instance' \in [Requests -> Fleet \cup {None}]
      /\ stream' \in [Requests -> Streams]
  BY <1>1, NoStreamOK DEF PipelineTypes, Stages, StreamOK
<1>7. TokensOpen'
  <2>1. \A j \in Instances : open_tokens'[j] =
          IF j = instance[r] THEN open_tokens[j] \ {r} ELSE open_tokens[j]
    BY <1>1, <1>2 DEF Closed, LedgerInv, TypeOK
  <2>2. \A j \in Instances : {q \in Requests : instance'[q] = j} = {q \in Requests : instance[q] = j} \ {r}
    BY <1>6, ConstantTypes
  <2>3. \A j \in Instances : j # instance[r] => r \notin {q \in Requests : instance[q] = j} OBVIOUS
  <2>4. \A j \in Instances : open_tokens[j] = {q \in Requests : instance[q] = j} BY <1>1 DEF TokensOpen
  <2>5. ASSUME NEW j \in Instances PROVE open_tokens'[j] = open_tokens[j] \ {r}
    <3>1. CASE j = instance[r] BY <2>1, <3>1
    <3>2. CASE j # instance[r]
      <4>1. r \notin open_tokens[j] BY <2>3, <2>4, <3>2
      <4> QED BY <2>1, <3>2, <4>1
    <3> QED BY <3>1, <3>2
  <2>6. \A j \in Instances : open_tokens'[j] = {q \in Requests : instance'[q] = j} BY <2>2, <2>4, <2>5
  <2> QED BY <2>6 DEF TokensOpen
<1>8. lane' = lane
  <2>1. r \notin ToSet(lane) BY <1>1 DEF InTheLane
  <2>2. \A k \in 1 .. Len(lane) : lane[k] # r BY <1>1, <2>1, LenProperties DEF ToSet, PipelineTypes
  <2> QED BY <2>2 DEF RemoveFirst
<1>9. /\ answer' \in [Requests -> Answers(Router)' \cup {None}]
      /\ estimate' \in [Requests -> Estimates \cup {None}] /\ estimate'[r] \in {None, estimate[r]}
      /\ compared' \in [Requests -> Seq(Fleet)]
      /\ \A q \in Requests \ {r} :
           answer'[q] = answer[q] /\ estimate'[q] = estimate[q] /\ compared'[q] = compared[q]
  <2>1. CASE Forget(r) BY <1>1, <2>1, ForgetTypes
  <2>2. CASE UNCHANGED selection_vars BY <1>1, <2>2, SameDocument DEF selection_vars, PipelineTypes
  <2> QED BY <2>1, <2>2
<1>10. PipelineTypes' BY <1>1, <1>6, <1>8, <1>9, SameDocument DEF PipelineTypes
<1>11. InTheLane' BY <1>1, <1>6, <1>8, SameLane
<1>12. Rotating' /\ Applied' BY SameRotation, SameDocument DEF IInv
<1>13. Selecting(r)' BY <1>6, <1>9, SameDocument DEF IInv, Selecting
<1>14. Serving(r)' BY <1>6, NoStreamOK, ConstantTypes DEF Serving
<1>15. Counted(r)' BY <1>6 DEF Counted
<1>16. \A q \in Requests \ {r} : Selecting(q)' /\ Serving(q)' /\ Counted(q)'
  <2>1. UNCHANGED <<predicted, produced>> BY DEF Closed
  <2> QED BY <1>6, <1>9, <2>1, SameRequest DEF IInv
<1> QED BY <1>2, <1>4, <1>5, <1>7, <1>10, <1>11, <1>12, <1>13, <1>14, <1>15, <1>16 DEF IInv

LEMMA SettlesKeeps ==
  ASSUME IInv, NEW r \in Requests, NEW sample \in Samples, Settles(r, sample)
  PROVE  IInv' /\ instance[r] \in Instances /\ Close(r, instance[r])
<1>1. PipelineTypes /\ Serving(r) BY DEF IInv
<1>2. instance[r] \in Fleet BY <1>1 DEF Settles, Serving
<1>3. sample \in Nat BY LengthAssumption
<1>4. memory' \in Memories /\ memory'.next = memory.next
  BY <1>1, <1>2, <1>3, LearnedTypes DEF Settles, PipelineTypes
<1> DEFINE how == IF stream[r].result = "ok" THEN "ok" ELSE "error"
<1>5. how \in {"ok", "error"} /\ stage' = [stage EXCEPT ![r] = how] BY DEF Settles
<1> HIDE DEF how
<1> QED BY <1>4, <1>5, ServiceEnds DEF Settles

LEMMA ClientGoesKeeps ==
  ASSUME IInv, NEW r \in Requests, ClientGoes(r)
  PROVE  /\ IInv'
         /\ UNCHANGED vars \/ (instance[r] \in Instances /\ Close(r, instance[r]))
<1>1. PipelineTypes /\ Serving(r) BY DEF IInv
<1>2. CASE stage[r] = "serving"
  <2>1. Closed(r, instance[r]) /\ Forget(r) /\ memory' \in Memories BY <1>1, <1>2 DEF ClientGoes, PipelineTypes
  <2> QED BY <1>2, <2>1, ServiceEnds DEF ClientGoes
<1>3. CASE stage[r] # "serving"
  <2>1. stage[r] \in {"estimating", "lane", "probing"} /\ UNCHANGED vars BY <1>3 DEF ClientGoes
  <2>2. instance[r] = None /\ stream[r] = NoStream BY <1>1, <1>3 DEF Serving, PipelineTypes
  <2>3. instance' = instance /\ stream' = stream BY <1>1, <2>2 DEF ClientGoes, PipelineTypes
  <2>4. /\ stage' = [stage EXCEPT ![r] = "error"] /\ Forget(r) /\ lane' = RemoveFirst(lane, r)
        /\ UNCHANGED <<doc, busy, instance, stream, gauges, memory, picks, vars>>
    BY <2>1, <2>3 DEF ClientGoes
  <2>5. IInv' BY <2>1, <2>4, SelectionEnds
  <2> QED BY <2>1, <2>5
<1> QED BY <1>2, <1>3

-----------------------------------------------------------------------------
(* Every step, and what it is of the ledger *)

LEMMA StepKeeps == ASSUME IInv, [PipelineNext]_pipeline_vars PROVE IInv' /\ [Next]_vars
<1>1. ASSUME NEW r \in Requests, Accept(r) \/ EstimateFails(r) \/ \E e \in Estimates : Estimated(r, e)
      PROVE  IInv' /\ UNCHANGED vars
  BY <1>1, AcceptKeeps, EstimatedKeeps DEF Accept, EstimateFails, Estimated
<1>2. CASE CallStarts BY <1>2, CallStartsKeeps DEF CallStarts
<1>3. ASSUME NEW r \in Requests, NEW a \in Answers(Router), CallEnds(r, a) PROVE IInv' /\ UNCHANGED vars
  BY <1>3, CallEndsKeeps DEF CallEnds
<1>4. ASSUME NEW r \in Requests, Routed(r) /\ Probes PROVE IInv' /\ UNCHANGED vars
  BY <1>4, ProbeBegins DEF Routed
<1>5. ASSUME NEW r \in Requests, (Routed(r) /\ ~Probes) \/ Probed(r) PROVE IInv' /\ Next
  BY <1>5, PlacedKeeps, ConstantTypes DEF Next
<1>6. ASSUME NEW r \in Requests, RoutingFails(r) \/ ProbeFails(r) PROVE IInv' /\ UNCHANGED vars
  BY <1>6, FailsKeeps DEF RoutingFails, ProbeFails
<1>7. CASE (\E r \in Requests, i \in Fleet : Scraped(r, i)) \/ \E i \in Fleet : Polled(i)
  BY <1>7, GaugesKeep DEF Scraped, Polled
<1>8. ASSUME NEW r \in Requests, Post(r) \/ BodyEnds(r) PROVE IInv' /\ UNCHANGED vars
  BY <1>8, PostKeeps, BodyEndsKeeps DEF Post, BodyEnds
<1>9. ASSUME NEW r \in Requests, NEW e \in NextEvents(stream[r]), Receives(r, e) PROVE IInv' /\ [Next]_vars
  BY <1>9, ReceivesKeeps, ConstantTypes DEF Next
<1>10. ASSUME NEW r \in Requests, NEW sample \in Samples, Settles(r, sample) PROVE IInv' /\ Next
  BY <1>10, SettlesKeeps, ConstantTypes DEF Next
<1>11. ASSUME NEW r \in Requests, ClientGoes(r) PROVE IInv' /\ [Next]_vars
  BY <1>11, ClientGoesKeeps, ConstantTypes DEF Next
<1>12. CASE UNCHANGED pipeline_vars
  <2>1. /\ UNCHANGED <<doc, stage, lane, busy, answer, estimate, compared, instance, stream, gauges, memory, picks>>
        /\ UNCHANGED vars
    BY <1>12 DEF pipeline_vars, selection_vars
  <2>2. PipelineTypes' BY <2>1, SameDocument DEF IInv, PipelineTypes
  <2>3. InTheLane' BY <2>1, SameDocument DEF IInv, InTheLane
  <2>4. \A q \in Requests : Selecting(q)' /\ Serving(q)' /\ Counted(q)' BY <2>1, SameRequest DEF IInv, vars
  <2>5. Applied' /\ LedgerInv' /\ TokensOpen' /\ Rotating' BY <2>1, SameDocument, SameTokens, SameRotation DEF IInv
  <2> QED BY <2>1, <2>2, <2>3, <2>4, <2>5 DEF IInv
<1> QED BY <1>1, <1>2, <1>3, <1>4, <1>5, <1>6, <1>7, <1>8, <1>9, <1>10, <1>11, <1>12 DEF PipelineNext

-----------------------------------------------------------------------------

LEMMA AlwaysInvariant == PipelineSpec => []IInv
<1>1. IInv /\ [PipelineNext]_pipeline_vars => IInv' BY StepKeeps
<1> QED BY <1>1, InitInvariant, PTL DEF PipelineSpec

\* A request's token is open exactly while it is served, at the instance it was dispatched to, whatever its router,
\* its probe, its engine and its client do; it waits in one place, and no more routing calls run than the lane has
\* threads (baselines/pipeline.py select_instance, server.py _serve, telemetry.py in_flight).
THEOREM TokensAreOfTheServed == PipelineSpec => []InFlightExact
<1>1. IInv => InFlightExact
  <2> SUFFICES ASSUME IInv PROVE InFlightExact OBVIOUS
  <2>1. TypeOK /\ RemainingPositive /\ \A i \in Instances : open_tokens[i] = {r \in Requests : instance[r] = i}
    BY DEF IInv, LedgerInv, TokensOpen
  <2>2. \A r \in Requests : stage[r] = "serving" <=> instance[r] \in Fleet BY DEF IInv, Serving
  <2>3. \A r \in Requests : /\ r \in ToSet(lane) => stage[r] = "lane" /\ r \notin busy
                            /\ stage[r] = "lane" => r \in ToSet(lane) \cup busy
    BY DEF IInv, InTheLane
  <2>4. CallsAModel(Router) => Cardinality(busy) <= Router.concurrency BY DEF IInv, InTheLane
  <2> QED BY <2>1, <2>2, <2>3, <2>4 DEF InFlightExact
<1> QED BY <1>1, AlwaysInvariant, PTL

\* A reply given to the client is the engine's whole reply, however the stream ended (backend.py generate).
THEOREM RepliesAreWhole == PipelineSpec => []ServedWhole
<1>1. IInv => ServedWhole BY DEF IInv, Serving, StreamOK, ServedWhole
<1> QED BY <1>1, AlwaysInvariant, PTL

\* The instances that share a rotation are taken equally often, to within one, over every interleaving of selections
\* and for any number of models and instances (baselines/dispatch.py RoundRobin).
THEOREM RotationsAreEven == PipelineSpec => []RotationIsEven
<1>1. IInv => RotationIsEven
  <2> SUFFICES ASSUME IInv, NEW i \in Fleet, NEW j \in Fleet,
                      Router.type = "passthrough" \/ ModelOf[i] = ModelOf[j]
               PROVE  picks[i] <= picks[j] + 1
    BY DEF RotationIsEven
  <2>1. CASE Dispatch.type = "round_robin"
    <3>1. \E C \in Groups : i \in C /\ j \in C
      <4>1. CASE Router.type = "passthrough" BY <4>1 DEF Groups
      <4>2. CASE Router.type # "passthrough"
        <5>1. ModelOf[i] \in Models /\ ModelOf[i] # All BY ModelsOf, FleetAssumption, RouterAssumption DEF All
        <5>2. i \in Candidates(ModelOf[i]) /\ j \in Candidates(ModelOf[i]) BY <4>2, <5>1 DEF Candidates
        <5> QED BY <4>2, <5>1, <5>2 DEF Groups
      <4> QED BY <4>1, <4>2
    <3>2. PICK C \in Groups : i \in C /\ j \in C BY <3>1
    <3>3. Turned(C) BY <2>1 DEF IInv, Rotating
    <3>4. PICK n \in Nat : \A p \in 1 .. Cardinality(C) :
            picks[InFleetOrder(C)[p]] = IF p <= memory.next[ModelOf[Min(C)]] THEN n + 1 ELSE n
      BY <3>3 DEF Turned
    <3>5. \A k \in C : picks[k] \in {n, n + 1}
      <4>1. \A k \in C : \E p \in 1 .. Cardinality(C) : InFleetOrder(C)[p] = k
        BY FleetOrder, GroupsOfTheFleet
      <4> QED BY <3>4, <4>1
    <3> QED BY <3>2, <3>4, <3>5
  <2>2. CASE Dispatch.type # "round_robin" BY <2>2 DEF IInv, Rotating
  <2> QED BY <2>1, <2>2
<1> QED BY <1>1, AlwaysInvariant, PTL

\* Every step of the pipeline is a step of the token ledger or leaves it alone: a token is dispatched once, makes no
\* progress that telemetry.py would refuse, and is closed once, where it was opened.
THEOREM PipelineKeepsLedger == PipelineSpec => KeepsTokenLedger
<1>1. PipelineInit => Init BY DEF PipelineInit
<1>2. IInv /\ [PipelineNext]_pipeline_vars => [Next]_vars BY StepKeeps
<1> QED BY <1>1, <1>2, AlwaysInvariant, PTL DEF PipelineSpec, KeepsTokenLedger, Spec

\* A decision is the one that its router's rule states, and names a model that the fleet serves, whatever the router's
\* own model answered (baselines/routers.py).
THEOREM RoutersKeepTheirRules == PipelineSpec => []RoutesAsStated
<1>1. IInv => RoutesAsStated
  <2> SUFFICES ASSUME IInv, NEW r \in Requests, stage[r] = "answered", Decision(Router, answer[r]) # Fails
               PROVE  /\ AsStated(Router, answer[r], Decision(Router, answer[r]))
                      /\ Candidates(Decision(Router, answer[r])) # {}
    BY DEF RoutesAsStated
  <2>1. Applied /\ ~Refuses(Router) /\ (CallsAModel(Router) => answer[r] \in Answers(Router)) BY DEF IInv, Selecting
  <2> QED BY <2>1, RouterKeepsItsRule, RouterDecides
<1> QED BY <1>1, AlwaysInvariant, PTL

\* The only steps that dispatch a request.
LEMMA DispatchingSteps ==
  ASSUME IInv, PipelineNext, NEW r \in Requests, Dispatches(r)
  PROVE  (Routed(r) /\ ~Probes) \/ Probed(r)
<1>1. \A q \in Requests \ {r} : \A x : instance' = [instance EXCEPT ![q] = x] => instance'[r] = instance[r]
  BY DEF IInv, PipelineTypes
<1>2. instance'[r] # instance[r] /\ instance' # instance BY DEF Dispatches
<1>3. instance' # [instance EXCEPT ![r] = None] BY DEF Dispatches, IInv, PipelineTypes
<1>4. \A q \in Requests \ {r} : \A seq : ~Placed(q, seq) BY <1>1, <1>2 DEF Placed
<1>5. ASSUME NEW q \in Requests
      PROVE  /\ ~Accept(q) /\ ~EstimateFails(q) /\ ~RoutingFails(q) /\ ~ProbeFails(q)
             /\ ~Post(q) /\ ~BodyEnds(q) /\ ~ClientGoes(q)
             /\ \A a : ~CallEnds(q, a) /\ ~Estimated(q, a) /\ ~Scraped(q, a) /\ ~Receives(q, a) /\ ~Settles(q, a)
             /\ (Routed(q) => q = r /\ ~Probes) /\ (Probed(q) => q = r)
  <2>1. /\ ~Accept(q) /\ ~EstimateFails(q) /\ ~RoutingFails(q) /\ ~ProbeFails(q)
        /\ \A a : ~CallEnds(q, a) /\ ~Estimated(q, a) /\ ~Scraped(q, a)
    BY <1>2 DEF Accept, EstimateFails, RoutingFails, ProbeFails, CallEnds, Estimated, Scraped
  <2>2. ~Post(q) /\ ~BodyEnds(q) /\ \A a : ~Receives(q, a)
    BY <1>2 DEF Post, BodyEnds, Receives, Sets
  <2>3. instance' # [instance EXCEPT ![q] = None] BY <1>1, <1>2, <1>3
  <2>4. ~ClientGoes(q) /\ \A a : ~Settles(q, a) BY <2>3 DEF ClientGoes, Settles
  <2>5. Routed(q) => q = r /\ ~Probes BY <1>2, <1>4 DEF Routed
  <2>6. Probed(q) => q = r BY <1>4 DEF Probed
  <2> QED BY <2>1, <2>2, <2>4, <2>5, <2>6
<1>6. ~CallStarts /\ \A i : ~Polled(i) BY <1>2 DEF CallStarts, Polled
<1> QED BY <1>5, <1>6 DEF PipelineNext

\* A choice is by the loads at its moment, although others were dispatched while the request waited for its router and
\* its probe (baselines/dispatch.py; pipeline.py select_instance).
THEOREM ChoicesAreByTheLoads == PipelineSpec => PicksTheLeast
<1> DEFINE P == \A r \in Requests :
                  Dispatches(r) =>
                    LET i == instance'[r]
                        C == IF Probes THEN ToSet(compared[r]) ELSE Candidates(Decision(Router, answer[r]))
                    IN  /\ Dispatch.type = "least_outstanding" => \A j \in C : Queue[i] <= Queue[j]
                        /\ Dispatch.type = "po2" => Cardinality(C) = 1 \/ \E j \in C \ {i} : Queue[i] <= Queue[j]
                        /\ Dispatch.type = "lowest_latency" => \A j \in C : NoSlower(memory.samples, i, j)
<1>1. ASSUME IInv, PipelineNext PROVE P
  <2> SUFFICES ASSUME NEW r \in Requests, Dispatches(r),
                      NEW D, D = IF Probes THEN ToSet(compared[r]) ELSE Candidates(Decision(Router, answer[r]))
               PROVE  LET i == instance'[r]
                      IN  /\ Dispatch.type = "least_outstanding" => \A j \in D : Queue[i] <= Queue[j]
                          /\ Dispatch.type = "po2" => Cardinality(D) = 1 \/ \E j \in D \ {i} : Queue[i] <= Queue[j]
                          /\ Dispatch.type = "lowest_latency" => \A j \in D : NoSlower(memory.samples, i, j)
    OBVIOUS
  <2>1. (Routed(r) /\ ~Probes) \/ Probed(r) BY <1>1, DispatchingSteps
  <2> PICK C \in Groups : \E seq \in Comparisons(Dispatch.type, C) :
        /\ Placed(r, seq)
        /\ \A i \in ToSet(seq) : Queue[i] \in Int
        /\ IF Probes THEN compared[r] = seq ELSE Candidates(Decision(Router, answer[r])) = C
    BY <1>1, <2>1, PlacedFrom
  <2>2. PICK seq \in Comparisons(Dispatch.type, C) :
          /\ Placed(r, seq)
          /\ \A i \in ToSet(seq) : Queue[i] \in Int
          /\ IF Probes THEN compared[r] = seq ELSE Candidates(Decision(Router, answer[r])) = C
    OBVIOUS
  <2>3. PICK p \in Picks(Dispatch.type, memory, seq, Queue) : instance' = [instance EXCEPT ![r] = p[1]]
    BY <2>2 DEF Placed
  <2>4. instance'[r] = p[1] BY <1>1, <2>3 DEF IInv, PipelineTypes
  <2>5. /\ Dispatch.type \in Types /\ C \subseteq Fleet /\ C # {} /\ memory \in Memories
    BY <1>1, GroupsOfTheFleet, Documented DEF IInv, PipelineTypes
  <2>6. /\ ToSet(seq) \subseteq C
        /\ Dispatch.type # "po2" => D = C /\ ToSet(seq) = C
        /\ D = C \/ D = ToSet(seq)
    BY <2>2, <2>5, ComparesCandidates
  <2>7. CASE Dispatch.type = "least_outstanding"
    <3>1. p \in LeastOutstanding(memory, C, Queue) BY <2>3, <2>6, <2>7 DEF Picks
    <3>2. \A j \in C : Queue[j] \in Int BY <2>2, <2>6, <2>7
    <3>3. \A j \in C : Queue[p[1]] <= Queue[j] BY <2>5, <3>1, <3>2, LeastOutstandingExists
    <3> QED BY <2>4, <2>6, <2>7, <3>3
  <2>8. CASE Dispatch.type = "lowest_latency"
    <3>1. p \in LowestLatency(memory, C) BY <2>3, <2>6, <2>8 DEF Picks
    <3>2. \A j \in C : NoSlower(memory.samples, p[1], j) BY <2>5, <3>1, FastestIsNoSlower
    <3> QED BY <2>4, <2>6, <2>8, <3>2
  <2>9. CASE Dispatch.type = "po2"
    <3>1. p[1] = Shorter(seq, Queue) BY <2>3, <2>9 DEF Picks
    <3>2. CASE Cardinality(C) < 2
      <4>1. IsFiniteSet(C) /\ Cardinality(C) = 1 BY <2>5, <3>2, FleetOrder, FS_EmptySet
      <4>2. D = C
        <5>1. seq = InFleetOrder(C) BY <2>2, <2>9, <3>2 DEF Comparisons, Draws
        <5>2. /\ InFleetOrder(C) \in [1 .. Cardinality(C) -> C]
              /\ \A i \in C : \E k \in 1 .. Cardinality(C) : InFleetOrder(C)[k] = i
          BY <2>5, FleetOrder
        <5>3. ToSet(seq) = C BY <5>1, <5>2 DEF ToSet
        <5> QED BY <2>6, <5>3
      <4> QED BY <2>9, <4>1, <4>2
    <3>3. CASE ~(Cardinality(C) < 2)
      <4>1. seq \in C \X C /\ seq[1] # seq[2] BY <2>2, <2>9, <3>3 DEF Comparisons, Draws
      <4>2. ToSet(seq) = {seq[1], seq[2]} /\ Last(seq) = seq[2]
        <5>1. PICK x \in C, y \in C : seq = <<x, y>> BY <4>1
        <5> QED BY <5>1 DEF ToSet, Last
      <4>3. Queue[seq[1]] \in Int /\ Queue[seq[2]] \in Int /\ seq[1] \in D /\ seq[2] \in D BY <2>2, <2>6, <4>2
      <4>4. \E j \in D \ {p[1]} : Queue[p[1]] <= Queue[j]
        <5>1. CASE Queue[seq[1]] <= Queue[seq[2]]
          <6>1. p[1] = seq[1] BY <3>1, <4>2, <5>1 DEF Shorter
          <6> QED BY <4>1, <4>3, <5>1, <6>1
        <5>2. CASE ~(Queue[seq[1]] <= Queue[seq[2]])
          <6>1. p[1] = seq[2] /\ Queue[seq[2]] <= Queue[seq[1]] BY <3>1, <4>2, <4>3, <5>2 DEF Shorter
          <6> QED BY <4>1, <4>3, <6>1
        <5> QED BY <5>1, <5>2
      <4> QED BY <2>4, <2>9, <4>4
    <3> QED BY <3>2, <3>3
  <2> QED BY <2>7, <2>8, <2>9
<1>2. IInv /\ [PipelineNext]_pipeline_vars => [P]_pipeline_vars BY <1>1
<1> QED BY <1>2, AlwaysInvariant, PTL DEF PipelineSpec, PicksTheLeast

-----------------------------------------------------------------------------
(* What the gates are shown *)

\* A dispatched request goes to a candidate of its router's decision, which was made before the probe.
LEMMA PickIsOfTheDecision ==
  ASSUME IInv, PipelineNext, NEW r \in Requests, Dispatches(r)
  PROVE  /\ Decision(Router, answer[r]) # Fails /\ ~Refuses(Router)
         /\ CallsAModel(Router) => answer[r] \in Answers(Router)
         /\ instance'[r] \in Candidates(Decision(Router, answer[r])) /\ instance'[r] \in Fleet
         /\ IF Sweeps THEN estimate[r] \in Estimates ELSE estimate[r] = None
<1> DEFINE D == Candidates(Decision(Router, answer[r]))
<1>1. (Routed(r) /\ ~Probes) \/ Probed(r) BY DispatchingSteps
<1>2. stage[r] \in {"answered", "probing"} BY <1>1 DEF Routed, Probed
<1>3. Selecting(r) /\ PipelineTypes /\ Applied BY DEF IInv
<1>4. Decision(Router, answer[r]) # Fails BY <1>1, <1>3 DEF Routed, Probed, Selecting
<1>5. D \in Groups BY <1>2, <1>4, DecidesAGroup
<1>6. D \subseteq Fleet /\ D # {} /\ Dispatch.type \in Types /\ memory \in Memories
  BY <1>3, <1>5, GroupsOfTheFleet, Documented DEF PipelineTypes
<1>7. PICK C \in Groups : \E seq \in Comparisons(Dispatch.type, C) :
        /\ Placed(r, seq)
        /\ \A i \in ToSet(seq) : Queue[i] \in Int
        /\ IF Probes THEN compared[r] = seq ELSE D = C
  BY <1>1, PlacedFrom
<1>8. PICK seq \in Comparisons(Dispatch.type, C) :
        Placed(r, seq) /\ (\A i \in ToSet(seq) : Queue[i] \in Int) /\ IF Probes THEN compared[r] = seq ELSE D = C
  BY <1>7
<1>9. seq \in Comparisons(Dispatch.type, D)
  <2>1. CASE ~Probes BY <1>8, <2>1
  <2>2. CASE Probes
    <3>1. stage[r] = "probing" BY <1>1, <2>2 DEF Probed
    <3> QED BY <1>3, <1>8, <2>2, <3>1 DEF Selecting
  <2> QED BY <2>1, <2>2
<1>10. PICK p \in Picks(Dispatch.type, memory, seq, Queue) : instance' = [instance EXCEPT ![r] = p[1]]
  BY <1>8 DEF Placed
<1>11. p[1] \in D
  <2> HIDE DEF D
  <2>1. Dispatch.type = "least_outstanding" => ToSet(seq) = D BY <1>6, <1>9, ComparesCandidates
  <2>2. Dispatch.type = "least_outstanding" => \A i \in D : Queue[i] \in Int BY <1>8, <2>1
  <2> QED BY <1>6, <1>9, <1>10, <2>2, PicksACandidate
<1>12. instance'[r] = p[1] BY <1>3, <1>10 DEF PipelineTypes
<1> QED BY <1>2, <1>3, <1>4, <1>6, <1>11, <1>12 DEF Selecting

\* The tier of an instance determines its model.
LEMMA ModelOfTier ==
  /\ \A i \in Fleet : ModelOf[i] = Tiers[TierOf(i)].model
  /\ Manifest.fleet = [i \in Fleet |-> FleetEntry(i)]
<1>1. Fleet = DOMAIN ModelOf BY DispatchAssumption, LenProperties DEF Fleet
<1>2. \A i \in Fleet : ModelOf[i] = Tiers[Specs[i].tier].model BY <1>1, FleetAssumption
<1> QED BY <1>2 DEF TierOf, Manifest

\* A fleet's tiers are those of its instances, each with its model.
LEMMA FleetTiersAre == \A t \in ToSet(FleetTiers) : \E i \in Fleet : t.tier = TierOf(i) /\ t.model = ModelOf[i]
<1> DEFINE C == {k \in Fleet : \A j \in 1 .. k - 1 : Specs[j].tier # Specs[k].tier}
           first == InFleetOrder(C)
<1>1. first \in [1 .. Cardinality(C) -> C] /\ C \subseteq Fleet BY FleetOrder
<1>2. FleetTiers = [k \in DOMAIN first |-> [tier |-> Specs[first[k]].tier, model |-> ModelOf[first[k]]]] BY DEF FleetTiers
<1> HIDE DEF C, first
<1>3. ASSUME NEW t \in ToSet(FleetTiers) PROVE \E i \in Fleet : t.tier = TierOf(i) /\ t.model = ModelOf[i]
  <2>1. PICK k \in DOMAIN first : t = [tier |-> Specs[first[k]].tier, model |-> ModelOf[first[k]]]
    BY <1>2 DEF ToSet
  <2>2. first[k] \in Fleet BY <1>1
  <2> QED BY <2>1, <2>2 DEF TierOf
<1> QED BY <1>3

\* What a reason names serves the request: RB-decoupled's tier stands for its model.
LEMMA NamesServe ==
  ASSUME Applied, ~Refuses(Router), NEW a, CallsAModel(Router) => a \in Answers(Router), Decision(Router, a) # Fails,
         NEW i \in Fleet, i \in Candidates(Decision(Router, a)), NEW name \in Names(Router, a)
  PROVE  NamedModel(Manifest, name) = ModelOf[i]
<1> DEFINE m == Decision(Router, a)
<1>1. /\ Builds(Router) /\ doc.pipeline # None
      /\ Router.type \in {"passthrough", "best_route", "best_route_upstream", "avengers_pro", "rb_decoupled"}
  BY Documented DEF Applied, Accepted, ModeOK
<1>2. Router.type # "passthrough" BY DEF Names
<1>3. m \in Models /\ m # All BY <1>2, RouterDecides
<1>4. ModelOf[i] = m BY <1>3 DEF Candidates
<1>5. Manifest.system.router = Router BY DEF Manifest, SystemKeys
<1>6. CASE Router.type # "rb_decoupled"
  <2>1. NamedModel(Manifest, name) = name BY <1>5, <1>6 DEF NamedModel
  <2>2. name = m
    <3>1. CASE Router.type = "best_route"
      <4>1. m = BestRoute(Router.options, Router.artifact, a) BY <3>1 DEF Decision
      <4>2. FallsBack(Router.options, Router.artifact, a) /\ name = Router.options.fallback BY <3>1 DEF Names
      <4> QED BY <4>1, <4>2 DEF BestRoute, Fallback
    <3>2. CASE Router.type \in {"best_route_upstream", "avengers_pro"} BY <3>2 DEF Names
    <3> QED BY <1>1, <1>2, <1>6, <3>1, <3>2
  <2> QED BY <1>4, <2>1, <2>2
<1>7. CASE Router.type = "rb_decoupled"
  <2> DEFINE best == BestTier(Router.artifact, a)
             serving(f) == f.tier = name
  <2>1. name = best.tier BY <1>7 DEF Names
  <2>2. Decoupled(doc) BY <1>1, <1>7 DEF Decoupled, Router
  <2>3. Router.artifact.tiers = FleetTiers BY <2>2 DEF Applied, Loads, Router
  <2>4. Router.artifact.tiers \in Seq([tier : STRING, model : STRING]) /\ \A t \in DOMAIN a : a[t] \in Int
    BY <1>1, <1>7, DocumentAssumption DEF Applied, Router, CallsAModel
  <2>5. m = RBDecoupled(Router.artifact, a) BY <1>7 DEF Decision
  <2>6. /\ Considered(Router.artifact) # {} /\ \A t \in Considered(Router.artifact) : t.tier \in DOMAIN a
        /\ m = best.model
    BY <2>5 DEF RBDecoupled
  <2>7. best \in Considered(Router.artifact) BY <2>4, <2>6, BestTierConsidered
  <2>8. PICK j \in Fleet : best.tier = TierOf(j) /\ best.model = ModelOf[j]
    BY <2>3, <2>7, FleetTiersAre DEF Considered
  <2>9. \A f \in Range(Manifest.fleet) : f.tier = TierOf(j) => f.model = ModelOf[j]
    <3>1. \A k \in Fleet : FleetEntry(k).tier = TierOf(k) /\ FleetEntry(k).model = ModelOf[k] BY DEF FleetEntry
    <3>2. \A f \in Range(Manifest.fleet) : \E k \in Fleet : f = FleetEntry(k) BY ModelOfTier DEF Range
    <3> QED BY <3>1, <3>2, ModelOfTier
  <2>10. \E f \in Range(Manifest.fleet) : f.tier = TierOf(j)
    <3>1. FleetEntry(j) \in Range(Manifest.fleet) BY ModelOfTier DEF Range
    <3> QED BY <3>1 DEF FleetEntry
  <2>11. NamedModel(Manifest, name) = (CHOOSE f \in Range(Manifest.fleet) : f.tier = TierOf(j)).model
    BY <1>5, <1>7, <2>1, <2>8 DEF NamedModel
  <2>12. (CHOOSE f \in Range(Manifest.fleet) : f.tier = TierOf(j)).model = ModelOf[j] BY <2>9, <2>10
  <2> QED BY <1>4, <2>6, <2>8, <2>11, <2>12
<1> QED BY <1>6, <1>7

\* A length in whole tokens is the quotient, but at least one.
LEMMA WholeIs ==
  /\ \A x \in Nat : x \div Parts \in Nat /\ x \div Parts <= Whole(x) /\ Whole(x) \in {1, x \div Parts} /\ 1 <= Whole(x)
  /\ \A x, y \in Nat : x <= y => x \div Parts <= y \div Parts
<1>1. Parts \in Nat \ {0} BY FleetAssumption
<1>2. ASSUME NEW x \in Nat
      PROVE  x \div Parts \in Nat /\ x \div Parts <= Whole(x) /\ Whole(x) \in {1, x \div Parts} /\ 1 <= Whole(x)
  <2>1. x \div Parts \in Nat BY <1>1
  <2>2. CASE x < Parts
    <3>1. x \div Parts = 0 /\ Whole(x) = 1 BY <1>1, <2>2 DEF Whole
    <3> QED BY <3>1
  <2>3. CASE ~(x < Parts)
    <3>1. x \div Parts >= 1 /\ Whole(x) = x \div Parts BY <1>1, <2>3 DEF Whole
    <3> QED BY <2>1, <3>1
  <2> QED BY <2>2, <2>3
<1>3. \A x, y \in Nat : x <= y => x \div Parts <= y \div Parts BY <1>1
<1> QED BY <1>2, <1>3

\* The largest of some numbers.
LEMMA LargestIs ==
  ASSUME NEW T, NEW x \in T, \A y \in T : y \in Nat, \A y \in T : y <= x
  PROVE  Max(T) = x
<1>1. \E z \in T : \A y \in T : z >= y OBVIOUS
<1>2. Max(T) \in T /\ \A y \in T : Max(T) >= y BY <1>1 DEF Max
<1>3. Max(T) \in Nat /\ x \in Nat /\ Max(T) <= x /\ Max(T) >= x BY <1>2
<1> QED BY <1>3

\* A sweep's line has the lengths that it was dispatched by.
LEMMA LengthsAreFit ==
  ASSUME Sweeps, NEW r \in Requests, estimate[r] \in Estimates, NEW i \in Fleet
  PROVE  LengthsFit(Manifest, Line(r, i), ModelOf[i])
<1> DEFINE e == estimate[r]
           line == Line(r, i)
           W == {x \div Parts : x \in Range(e)}
<1>1. IsFiniteSet(DOMAIN e) /\ e \in [DOMAIN e -> Nat] /\ Models \subseteq DOMAIN e BY LengthAssumption
<1>2. line.lengths = e /\ line.decode_tokens = Whole(e[ModelOf[i]]) /\ line.feature_tokens = Whole(Max(Range(e)))
  BY DEF Line, Decode
<1> HIDE DEF e, line
<1>3. ModelOf[i] \in DOMAIN e BY <1>1, ModelsOf
<1>4. Range(e) \subseteq Nat /\ IsFiniteSet(Range(e)) /\ Range(e) # {} /\ e[ModelOf[i]] \in Nat
  <2>1. Range(e) = {e[x] : x \in DOMAIN e} BY DEF Range
  <2>2. e \in Surjection(DOMAIN e, Range(e)) BY <1>1, Fun_RangeProperties
  <2> QED BY <1>1, <1>3, <2>1, <2>2, FS_Surjection
<1>5. {f.model : f \in Range(Manifest.fleet)} \subseteq DOMAIN e
  <2>1. \A f \in Range(Manifest.fleet) : \E k \in Fleet : f = FleetEntry(k) BY ModelOfTier DEF Range
  <2>2. \A k \in Fleet : FleetEntry(k).model \in Models BY ModelsOf DEF FleetEntry
  <2> QED BY <1>1, <2>1, <2>2
<1>6. \A x \in Range(e) : x >= 0 BY <1>4
<1>7. Whole(Max(Range(e))) = Max({1} \cup W)
  <2> DEFINE M == Max(Range(e))
             T == {1} \cup W
  <2>1. M \in Range(e) /\ \A y \in Range(e) : y <= M BY <1>4, MaxIsGreatest
  <2> HIDE DEF M
  <2>2. M \in Nat BY <1>4, <2>1
  <2>3. Whole(M) \in T BY <2>1, <2>2, WholeIs
  <2>4. ASSUME NEW y \in T PROVE y \in Nat /\ y <= Whole(M)
    <3>1. CASE y = 1 BY <2>2, <3>1, WholeIs
    <3>2. CASE y \in W
      <4>1. PICK x \in Range(e) : y = x \div Parts BY <3>2
      <4>2. x \in Nat /\ x <= M BY <1>4, <2>1
      <4>3. x \div Parts \in Nat /\ x \div Parts <= M \div Parts /\ M \div Parts <= Whole(M) BY <2>2, <4>2, WholeIs
      <4>4. Whole(M) \in Nat /\ M \div Parts \in Nat BY <2>2, WholeIs
      <4> QED BY <4>1, <4>3, <4>4
    <3> QED BY <3>1, <3>2
  <2> HIDE DEF T
  <2>5. Max(T) = Whole(M) BY <2>3, <2>4, LargestIs
  <2> QED BY <2>5 DEF M, T
<1>8. Whole(e[ModelOf[i]]) = Max({1, e[ModelOf[i]] \div Parts})
  <2> DEFINE x == e[ModelOf[i]]
  <2> HIDE DEF x
  <2>1. x \in Nat BY <1>4 DEF x
  <2>2. x \div Parts \in Nat /\ x \div Parts <= Whole(x) /\ Whole(x) \in {1, x \div Parts} /\ 1 <= Whole(x)
    BY <2>1, WholeIs
  <2> DEFINE q == x \div Parts
             w == Whole(x)
  <2> HIDE DEF q, w
  <2>3. q \in Nat /\ q <= w /\ w \in {1, q} /\ 1 <= w BY <2>2 DEF q, w
  <2>4. Max({1, q}) = w BY <2>3, LargestIs
  <2> QED BY <2>4 DEF q, w, x
<1>9. W = {x \div Parts : x \in Range(line.lengths)} BY <1>2
<1> QED BY <1>2, <1>5, <1>6, <1>7, <1>8, <1>9 DEF LengthsFit, line

\* The gates accept every pick: the manifest is that of the applied document, and a request's line names the model and
\* the tier that serve it and has the lengths it was dispatched by, whatever was decided while it waited for its
\* estimate, its router and its probe (gates/cell.py, gates/arm.py).
THEOREM PicksAreAccepted == PipelineSpec => GateAcceptsEveryPick
<1> DEFINE P == \A r \in Requests :
                  Dispatches(r) => ManifestFits(Manifest) /\ LineFits(Manifest, Line(r, instance'[r]))
<1>1. ASSUME IInv, PipelineNext, NEW r \in Requests, Dispatches(r)
      PROVE  ManifestFits(Manifest) /\ LineFits(Manifest, Line(r, instance'[r]))
  <2> DEFINE i == instance'[r]
             line == Line(r, i)
  <2>1. Applied BY <1>1 DEF IInv
  <2>2. /\ Decision(Router, answer[r]) # Fails /\ ~Refuses(Router)
        /\ CallsAModel(Router) => answer[r] \in Answers(Router)
        /\ i \in Candidates(Decision(Router, answer[r])) /\ i \in Fleet
        /\ IF Sweeps THEN estimate[r] \in Estimates ELSE estimate[r] = None
    BY <1>1, PickIsOfTheDecision
  <2> HIDE DEF i
  <2>3. ManifestFits(Manifest)
    <3>1. doc.mode = "pipeline" /\ doc.telemetry_read \in {"poll", "per_request"} BY <2>1, Documented DEF Applied
    <3>2. /\ Manifest.system.mode = doc.mode /\ Manifest.system.telemetry_read = doc.telemetry_read
          /\ Manifest.loaded.telemetry_pollers = (doc.telemetry_read = "poll")
          /\ Manifest.loaded.router_lane_threads = Router.concurrency
      BY DEF Manifest, SystemKeys, Loaded
    <3> QED BY <3>1, <3>2 DEF ManifestFits, ReadFollowsMode, PollersFollowTheRead
  <2>4. Manifest.fleet[i] = FleetEntry(i) /\ i \in DOMAIN Manifest.fleet BY <2>2, ModelOfTier
  <2>5. Manifest.fleet[i].model = ModelOf[i] /\ Manifest.fleet[i].tier = TierOf(i) BY <2>4 DEF FleetEntry
  <2>6. /\ line.instance = i /\ line.tier = TierOf(i) /\ line.reason.type = Router.type
        /\ line.reason.names = Names(Router, answer[r])
    BY DEF Line
  <2>7. Manifest.system.router = Router /\ Manifest.system.pending_decode = doc.pending_decode BY DEF Manifest, SystemKeys
  <2>8. \A name \in line.reason.names : NamedModel(Manifest, name) = ModelOf[i] BY <2>1, <2>2, <2>6, NamesServe
  <2>9. CASE Sweeps
    <3>1. LengthsFit(Manifest, line, ModelOf[i]) BY <2>2, <2>9, LengthsAreFit
    <3>2. Manifest.system.pending_decode = "own_length" BY <2>7, <2>9 DEF Sweeps
    <3> HIDE DEF line
    <3>3. LineFits(Manifest, line) BY <2>4, <2>5, <2>6, <2>7, <2>8, <3>1, <3>2 DEF LineFits
    <3> QED BY <2>3, <3>3 DEF line, i
  <2>10. CASE ~Sweeps
    <3>1. line.lengths = None /\ line.decode_tokens = RequestTokens /\ line.feature_tokens = RequestTokens
      BY <2>2, <2>10 DEF Line, Decode
    <3>2. Manifest.system.pending_decode # "own_length" BY <2>7, <2>10 DEF Sweeps
    <3> HIDE DEF line
    <3>3. LineFits(Manifest, line) BY <2>4, <2>5, <2>6, <2>7, <2>8, <3>1, <3>2 DEF LineFits
    <3> QED BY <2>3, <3>3 DEF line, i
  <2> QED BY <2>9, <2>10
<1>2. IInv /\ [PipelineNext]_pipeline_vars => [P]_pipeline_vars BY <1>1
<1> QED BY <1>2, AlwaysInvariant, PTL DEF PipelineSpec, GateAcceptsEveryPick
=============================================================================
