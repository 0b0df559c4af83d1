--------------------------- MODULE DecisionLogProof ---------------------------
(***************************************************************************)
(* An empty buffer means a complete file, for any number of lines, appends, *)
(* failures and cancellations.                                              *)
(***************************************************************************)
EXTENDS DecisionLog, SequenceTheorems, TLAPS

Lines == Seq(Nat)

Types ==
  /\ logged \in Nat
  /\ lines \in Lines
  /\ writing \in Nat
  /\ file \in Lines
  /\ chunk \in [Flushes -> Lines]
  /\ job \in [Flushes -> {"none", "queued", "ok", "failed", "dropped"}]
  /\ flusher \in {"sleeping", "awaiting", "failed", "cancelled"}
  /\ stopper \in {"no", "cancelled", "awaiting", "stopped"}

\* The count is exact: a flush's lines are counted as long as their append has not been settled.
Counted ==
  /\ writing = Len(chunk["run"]) + Len(chunk["stop"])
  /\ \A w \in Flushes : chunk[w] = <<>> <=> job[w] = "none"

\* Who may await what: the background task and stop() never flush at the same time.
Turns ==
  /\ flusher = "sleeping" => job["run"] = "none"
  /\ flusher \in {"sleeping", "awaiting"} => stopper = "no"
  /\ stopper \in {"no", "cancelled"} => job["stop"] = "none"

InHand(w) == IF job[w] = "queued" THEN chunk[w] ELSE <<>>

\* No line is lost or out of place: before the final flush, while the background append has not failed or
\* been dropped; from then on, if there is no background append left unsettled.
InOrder ==
  /\ job["stop"] = "none" /\ job["run"] \in {"none", "queued", "ok"}
       /\ (stopper \in {"no", "cancelled"} \/ job["run"] = "none")
     => file \o (InHand("run") \o lines) = AllLines
  /\ job["run"] = "none" /\ job["stop"] \in {"queued", "ok"}
     => file \o (InHand("stop") \o lines) = AllLines

IInv == Types /\ Counted /\ Turns /\ InOrder

-----------------------------------------------------------------------------
(* Sequences *)

LEMMA EmptyLines == <<>> \in Lines /\ \A s \in Lines : s \o <<>> = s /\ <<>> \o s = s
BY EmptySeq, ConcatEmptySeq DEF Lines

LEMMA JoinedLines == \A s, t \in Lines : s \o t \in Lines
BY ConcatProperties DEF Lines

LEMMA Regroup == \A s, t, u \in Lines : (s \o t) \o u = s \o (t \o u)
<1> SUFFICES ASSUME NEW s \in Seq(Nat), NEW t \in Seq(Nat), NEW u \in Seq(Nat)
             PROVE  (s \o t) \o u = s \o (t \o u)
  BY DEF Lines
<1> QED BY ConcatAssociative

LEMMA Lengths == \A s \in Lines : Len(s) \in Nat /\ (s = <<>> <=> Len(s) = 0)
BY EmptySeq, LenProperties DEF Lines

\* Appending the next line at the end of everything written keeps the order.
LEMMA WriteKeepsOrder ==
  ASSUME logged \in Nat, logged' = logged + 1,
         NEW s \in Lines, NEW t \in Lines, NEW u \in Lines,
         s \o (t \o u) = AllLines
  PROVE  s \o (t \o Append(u, logged + 1)) = AllLines'
<1> DEFINE x == logged + 1
<1>1. x \in Nat /\ <<x>> \in Lines BY DEF Lines
<1>2. Append(u, x) = u \o <<x>> BY <1>1, AppendIsConcat DEF Lines
<1>3. t \o (u \o <<x>>) = (t \o u) \o <<x>> BY <1>1, Regroup
<1>4. s \o ((t \o u) \o <<x>>) = (s \o (t \o u)) \o <<x>>
  <2>1. t \o u \in Lines BY JoinedLines
  <2> QED BY <1>1, <2>1, Regroup
<1>5. s \o (t \o Append(u, x)) = AllLines \o <<x>> BY <1>2, <1>3, <1>4
<1>6. AllLines \in Lines /\ AllLines' \in Lines
  BY JoinedLines, <1>1 DEF AllLines, Lines
<1>7. Len(AllLines) = logged /\ Len(AllLines') = logged + 1 BY DEF AllLines
<1>8. AllLines \o <<x>> \in Lines /\ Len(AllLines \o <<x>>) = logged + 1
  BY <1>1, <1>6, <1>7, ConcatProperties DEF Lines
<1>9. \A i \in 1 .. logged + 1 : (AllLines \o <<x>>)[i] = AllLines'[i]
  <2> SUFFICES ASSUME NEW i \in 1 .. logged + 1 PROVE (AllLines \o <<x>>)[i] = i
    BY DEF AllLines
  <2>1. (AllLines \o <<x>>)[i] = IF i <= logged THEN AllLines[i] ELSE <<x>>[i - logged]
    BY <1>1, <1>6, <1>7, ConcatProperties DEF Lines
  <2> QED BY <2>1 DEF AllLines
<1>10. AllLines \o <<x>> = AllLines' BY <1>6, <1>7, <1>8, <1>9, SeqEqual DEF Lines
<1> QED BY <1>5, <1>10

-----------------------------------------------------------------------------
(* The steps *)

LEMMA InitIInv == Init => IInv
<1> SUFFICES ASSUME Init PROVE IInv OBVIOUS
<1>1. Types BY EmptyLines DEF Init, Types, Flushes
<1>2. Counted BY Lengths, EmptyLines DEF Init, Counted, Flushes
<1>3. Turns BY DEF Init, Turns, Flushes
<1>4. AllLines = <<>> BY DEF Init, AllLines
<1>5. InOrder BY <1>4, EmptyLines DEF Init, InOrder, InHand, Flushes
<1> QED BY <1>1, <1>2, <1>3, <1>5 DEF IInv

LEMMA InHandIsLines == Types => \A w \in Flushes : InHand(w) \in Lines
BY EmptyLines DEF Types, InHand

LEMMA WriteKeepsIInv == ASSUME IInv, Write PROVE IInv'
<1> USE DEF IInv
<1>1. Types'
  <2>1. lines' \in Lines BY AppendProperties DEF Write, Types, Lines
  <2> QED BY <2>1 DEF Write, Types
<1>2. (Counted /\ Turns)' BY DEF Write, Counted, Turns
<1>3. UNCHANGED <<file, chunk, job, stopper>> /\ lines' = Append(lines, logged + 1) /\ logged' = logged + 1
  BY DEF Write
<1>4. \A w \in Flushes : InHand(w)' = InHand(w) /\ InHand(w) \in Lines
  BY <1>3, InHandIsLines DEF InHand
<1>5. \A w \in Flushes : file \o (InHand(w) \o lines) = AllLines
        => file' \o (InHand(w)' \o lines') = AllLines'
  <2> SUFFICES ASSUME NEW w \in Flushes, file \o (InHand(w) \o lines) = AllLines
               PROVE  file \o (InHand(w) \o Append(lines, logged + 1)) = AllLines'
    BY <1>3, <1>4
  <2>1. logged \in Nat /\ file \in Lines /\ lines \in Lines /\ InHand(w) \in Lines
    BY <1>4 DEF Types
  <2> QED BY <1>3, <2>1, WriteKeepsOrder
<1>6. InOrder'
  <2>1. "run" \in Flushes /\ "stop" \in Flushes BY DEF Flushes
  <2> QED BY <1>3, <1>5, <2>1 DEF InOrder
<1> QED BY <1>1, <1>2, <1>6

\* A worker's append moves the lines in hand to the end of the file.
LEMMA AppendKeepsIInv ==
  ASSUME IInv, NEW w \in Flushes, AppendOk(w) \/ AppendFail(w)
  PROVE  IInv'
<1> USE DEF IInv
<1>1. /\ job[w] = "queued"
      /\ job' = [job EXCEPT ![w] = IF AppendOk(w) THEN "ok" ELSE "failed"]
      /\ UNCHANGED <<logged, lines, writing, chunk, flusher, stopper>>
  <2>1. CASE AppendOk(w) BY <2>1 DEF AppendOk
  <2>2. CASE ~AppendOk(w) BY <2>2 DEF AppendFail
  <2> QED BY <2>1, <2>2
<1>2. job' \in [Flushes -> {"none", "queued", "ok", "failed", "dropped"}] /\ \A v \in Flushes :
        job'[v] = IF v = w THEN (IF AppendOk(w) THEN "ok" ELSE "failed") ELSE job[v]
  BY <1>1 DEF Types
<1>3. file' \in Lines
  <2>1. CASE AppendOk(w) BY <2>1, JoinedLines DEF AppendOk, Types
  <2>2. CASE AppendFail(w)
    <3>1. PICK n \in 0 .. Len(chunk[w]) - 1 : file' = file \o SubSeq(chunk[w], 1, n) BY <2>2 DEF AppendFail
    <3>2. chunk[w] \in Lines BY DEF Types
    <3>3. SubSeq(chunk[w], 1, n) \in Lines BY <3>2 DEF Lines
    <3> QED BY <3>1, <3>3, JoinedLines DEF Types
  <2> QED BY <2>1, <2>2
<1>4. Types' BY <1>1, <1>2, <1>3 DEF Types
<1>5. Counted' BY <1>1, <1>2 DEF Counted
<1>6. Turns' BY <1>1, <1>2 DEF Turns, Flushes
<1>7. InOrder'
  <2>1. AllLines' = AllLines BY <1>1 DEF AllLines
  <2>2. CASE AppendOk(w)
    <3>1. file' = file \o chunk[w] /\ chunk[w] \in Lines /\ InHand(w) = chunk[w] /\ InHand(w)' = <<>>
      BY <1>1, <1>2, <2>2 DEF AppendOk, Types, InHand
    <3>2. file' \o (InHand(w)' \o lines') = file \o (InHand(w) \o lines)
      <4>1. lines' = lines /\ lines \in Lines /\ file \in Lines BY <1>1 DEF Types
      <4>2. <<>> \o lines = lines BY <4>1, EmptyLines
      <4>3. (file \o chunk[w]) \o lines = file \o (chunk[w] \o lines) BY <3>1, <4>1, Regroup
      <4> QED BY <3>1, <4>1, <4>2, <4>3
    <3> QED BY <1>1, <1>2, <2>1, <2>2, <3>2 DEF InOrder, Flushes, Turns
  <2>3. CASE ~AppendOk(w)
    BY <1>1, <1>2, <2>3 DEF InOrder, Flushes, Turns
  <2> QED BY <2>2, <2>3
<1> QED BY <1>4, <1>5, <1>6, <1>7

\* The lengths as numbers: SMT reasons about them as long as it does not see Len.
Left == Len(lines)

Size(w) == Len(chunk[w])

LEMMA CountInNumbers ==
  ASSUME Types, Counted
  PROVE  /\ Left \in Nat
         /\ Size("run") \in Nat /\ Size("stop") \in Nat
         /\ writing = Size("run") + Size("stop")
         /\ \A w \in Flushes : job[w] = "none" <=> Size(w) = 0
<1>1. \A w \in Flushes : chunk[w] \in Lines BY DEF Types
<1>2. \A w \in Flushes : Size(w) \in Nat /\ (chunk[w] = <<>> <=> Size(w) = 0)
  BY <1>1, Lengths DEF Size
<1>3. Left \in Nat BY Lengths DEF Types, Left
<1>4. writing = Size("run") + Size("stop") BY DEF Counted, Size
<1> QED BY <1>2, <1>3, <1>4 DEF Counted, Flushes

\* flush() hands over all buffered lines, in order.
LEMMA HandOverKeepsIInv ==
  ASSUME IInv, lines # <<>>, NEW w \in Flushes, HandOver(w),
         \/ /\ w = "run" /\ flusher = "sleeping"
            /\ flusher' = "awaiting" /\ stopper' = stopper
         \/ /\ w = "stop" /\ stopper = "cancelled"
            /\ stopper' = "awaiting" /\ flusher' = flusher
  PROVE  IInv'
<1> USE DEF IInv
<1>1. /\ lines' = <<>> /\ writing' = writing + Len(lines)
      /\ chunk' = [chunk EXCEPT ![w] = lines]
      /\ job' = [job EXCEPT ![w] = "queued"]
      /\ UNCHANGED <<logged, file>>
  BY DEF HandOver
<1>2. job[w] = "none" BY DEF Turns
<1>3. /\ chunk' \in [Flushes -> Lines] /\ chunk'[w] = lines
      /\ job' \in [Flushes -> {"none", "queued", "ok", "failed", "dropped"}] /\ job'[w] = "queued"
      /\ \A v \in Flushes : v # w => chunk'[v] = chunk[v] /\ job'[v] = job[v]
  BY <1>1 DEF Types
<1>4. Types'
  <2>1. Left \in Nat /\ writing' = writing + Left BY <1>1, CountInNumbers DEF Left
  <2>2. writing' \in Nat BY <2>1 DEF Types
  <2> QED BY <1>1, <1>3, <2>2, EmptyLines DEF Types
<1>5. Counted'
  <2>1. writing' = Len(chunk'["run"]) + Len(chunk'["stop"])
    <3>3. writing' = writing + Left /\ Size(w)' = Left BY <1>1, <1>3 DEF Left, Size
    <3>4. Size(w) = 0 BY <1>2, CountInNumbers
    <3>1. CASE w = "run"
      <4>1. Size("stop")' = Size("stop") BY <1>3, <3>1 DEF Flushes, Size
      <4>2. writing' = Size("run")' + Size("stop")' BY <3>1, <3>3, <3>4, <4>1, CountInNumbers
      <4> QED BY <4>2 DEF Size
    <3>2. CASE w = "stop"
      <4>1. Size("run")' = Size("run") BY <1>3, <3>2 DEF Flushes, Size
      <4>2. writing' = Size("run")' + Size("stop")' BY <3>2, <3>3, <3>4, <4>1, CountInNumbers
      <4> QED BY <4>2 DEF Size
    <3> QED BY <3>1, <3>2 DEF Flushes
  <2> QED BY <1>3, <2>1 DEF Counted
<1>6. Turns' BY <1>3 DEF Turns, Flushes
<1>7. InOrder'
  <2>1. AllLines' = AllLines BY <1>1 DEF AllLines
  <2>2. InHand(w) = <<>> /\ InHand(w)' = lines BY <1>2, <1>3 DEF InHand
  <2>3. /\ file' \o (InHand(w)' \o lines') = file \o lines
        /\ file \o (InHand(w) \o lines) = file \o lines
    BY <1>1, <2>2, EmptyLines DEF Types
  <2>4. CASE w = "run"
    <3>1. stopper = "no" /\ job["stop"] = "none" BY <2>4 DEF Turns, Flushes
    <3>2. file \o lines = AllLines BY <1>2, <2>3, <2>4, <3>1 DEF InOrder
    <3> QED BY <1>3, <2>1, <2>3, <2>4, <3>1, <3>2 DEF InOrder, Flushes
  <2>5. CASE w = "stop"
    <3>1. job["run"] = "none" => InHand("run") = InHand("stop") BY <1>2, <2>5 DEF InHand
    <3>2. job["run"] = "none" => file \o lines = AllLines BY <1>2, <2>3, <2>5, <3>1 DEF InOrder
    <3> QED BY <1>3, <2>1, <2>3, <2>5, <3>2 DEF InOrder, Flushes
  <2> QED BY <2>4, <2>5 DEF Flushes
<1> QED BY <1>4, <1>5, <1>6, <1>7

\* flush() settles the count once its append is on disk.
LEMMA SettleKeepsIInv ==
  ASSUME IInv, NEW w \in Flushes, Settle(w), job[w] = "ok",
         \/ /\ w = "run" /\ flusher = "awaiting"
            /\ flusher' = "sleeping" /\ stopper' = stopper
         \/ /\ w = "stop" /\ stopper = "awaiting"
            /\ stopper' = "stopped" /\ flusher' = flusher
  PROVE  IInv'
<1> USE DEF IInv
<1>1. /\ writing' = writing - Len(chunk[w])
      /\ chunk' = [chunk EXCEPT ![w] = <<>>]
      /\ job' = [job EXCEPT ![w] = "none"]
      /\ UNCHANGED <<logged, lines, file>>
  BY DEF Settle
<1>2. /\ chunk' \in [Flushes -> Lines] /\ chunk'[w] = <<>>
      /\ job' \in [Flushes -> {"none", "queued", "ok", "failed", "dropped"}] /\ job'[w] = "none"
      /\ \A v \in Flushes : v # w => chunk'[v] = chunk[v] /\ job'[v] = job[v]
  BY <1>1, EmptyLines DEF Types
<1>3. writing' = Len(chunk'["run"]) + Len(chunk'["stop"]) /\ writing' \in Nat
  <2>1. Size(w)' = 0 BY <1>2, Lengths, EmptyLines DEF Size
  <2>4. writing' = writing - Size(w) BY <1>1 DEF Size
  <2>2. CASE w = "run"
    <3>1. Size("stop")' = Size("stop") BY <1>2, <2>2 DEF Flushes, Size
    <3>2. writing' = Size("run")' + Size("stop")' /\ writing' \in Nat
      BY <2>1, <2>2, <2>4, <3>1, CountInNumbers
    <3> QED BY <3>2 DEF Size
  <2>3. CASE w = "stop"
    <3>1. Size("run")' = Size("run") BY <1>2, <2>3 DEF Flushes, Size
    <3>2. writing' = Size("run")' + Size("stop")' /\ writing' \in Nat
      BY <2>1, <2>3, <2>4, <3>1, CountInNumbers
    <3> QED BY <3>2 DEF Size
  <2> QED BY <2>2, <2>3 DEF Flushes
<1>4. Counted' BY <1>2, <1>3 DEF Counted
<1>5. Types' BY <1>1, <1>2, <1>3 DEF Types
<1>6. Turns' BY <1>2 DEF Turns, Flushes
<1>7. InOrder'
  <2>1. AllLines' = AllLines BY <1>1 DEF AllLines
  <2>2. \A v \in Flushes : InHand(v)' = InHand(v) BY <1>2 DEF InHand
  <2>3. CASE w = "run"
    <3>1. stopper = "no" /\ job["stop"] = "none" BY <2>3 DEF Turns
    <3> QED BY <1>1, <1>2, <2>1, <2>2, <2>3, <3>1 DEF InOrder, Flushes
  <2>4. CASE w = "stop"
    <3>1. job["run"] = "none" => InHand("run") = InHand("stop") BY <2>4 DEF InHand
    <3> QED BY <1>1, <1>2, <2>1, <2>2, <2>4, <3>1 DEF InOrder, Flushes
  <2> QED BY <2>3, <2>4 DEF Flushes
<1> QED BY <1>3, <1>4, <1>5, <1>6, <1>7

\* A dead task, a cancelled one and stop()'s own ends move no line.
LEMMA EndsKeepIInv ==
  ASSUME IInv, FlushFail \/ StopBegin \/ (FinalFlush /\ lines = <<>>) \/ FinalFail
  PROVE  IInv'
<1> USE DEF IInv
<1>1. UNCHANGED <<logged, lines, writing, file, chunk>> BY DEF FlushFail, StopBegin, FinalFlush, FinalFail
<1>2. AllLines' = AllLines BY <1>1 DEF AllLines
<1>3. CASE UNCHANGED job
  <2>1. Types'
    BY <1>1, <1>3 DEF Types, FlushFail, StopBegin, FinalFlush, FinalFail
  <2>2. Turns'
    BY <1>1, <1>3 DEF Turns, FlushFail, StopBegin, FinalFlush, FinalFail
  <2>3. InOrder'
    BY <1>1, <1>2, <1>3 DEF InOrder, InHand, FlushFail, StopBegin, FinalFlush, FinalFail
  <2> QED BY <1>1, <1>3, <2>1, <2>2, <2>3 DEF Counted
<1>4. CASE StopBegin /\ job["run"] = "queued" /\ job' = [job EXCEPT !["run"] = "dropped"]
  <2>1. /\ job' \in [Flushes -> {"none", "queued", "ok", "failed", "dropped"}]
        /\ job'["run"] = "dropped" /\ job'["stop"] = job["stop"]
    BY <1>4 DEF Types, Flushes
  <2>2. Types' BY <1>1, <1>4, <2>1 DEF Types, StopBegin
  <2>3. Counted' BY <1>1, <1>4, <2>1 DEF Counted, Flushes
  <2>4. Turns' BY <1>4, <2>1 DEF Turns, StopBegin
  <2>5. InOrder' BY <1>4, <2>1 DEF InOrder
  <2> QED BY <2>2, <2>3, <2>4, <2>5
<1> QED BY <1>3, <1>4 DEF FlushFail, StopBegin, FinalFlush, FinalFail

LEMMA NextKeepsIInv == IInv /\ [Next]_vars => IInv'
<1> SUFFICES ASSUME IInv, [Next]_vars PROVE IInv' OBVIOUS
<1>1. CASE Write BY <1>1, WriteKeepsIInv
<1>2. CASE Worker BY <1>2, AppendKeepsIInv DEF Worker
<1>3. CASE Flusher
  <2>1. CASE FlushBegin BY <2>1, HandOverKeepsIInv DEF FlushBegin, Flushes
  <2>2. CASE FlushEnd BY <2>2, SettleKeepsIInv DEF FlushEnd, Flushes
  <2> QED BY <1>3, <2>1, <2>2, EndsKeepIInv DEF Flusher
<1>4. CASE Stopper
  <2>1. CASE FinalFlush /\ lines # <<>> BY <2>1, HandOverKeepsIInv DEF FinalFlush, Flushes
  <2>2. CASE FinalEnd BY <2>2, SettleKeepsIInv DEF FinalEnd, Flushes
  <2> QED BY <1>4, <2>1, <2>2, EndsKeepIInv DEF Stopper
<1>5. CASE UNCHANGED vars
  BY <1>5 DEF vars, IInv, Types, Counted, Turns, InOrder, InHand, AllLines
<1> QED BY <1>1, <1>2, <1>3, <1>4, <1>5 DEF Next

\* An empty buffer means that the file holds every line, in order (decision_log.py, buffered): the fact that the
\* cell driver relies on when it cuts a run's window out of the log.
THEOREM EmptyBufferMeansComplete == Spec => []BufferedZeroIsComplete
<1>1. IInv => BufferedZeroIsComplete
  <2> SUFFICES ASSUME IInv, Buffered = 0 PROVE file = AllLines BY DEF BufferedZeroIsComplete
  <2> USE DEF IInv
  <2>4. Left + writing = 0 BY DEF Buffered, Left
  <2>1. Size("run") = 0 /\ Size("stop") = 0 /\ Left = 0 BY <2>4, CountInNumbers
  <2>2. job["run"] = "none" /\ job["stop"] = "none" BY <2>1, CountInNumbers DEF Flushes
  <2>3. lines = <<>> BY <2>1, Lengths DEF Types, Left
  <2>5. file \o (<<>> \o lines) = AllLines BY <2>2 DEF InOrder, InHand
  <2> QED BY <2>3, <2>5, EmptyLines DEF Types
<1> QED BY <1>1, InitIInv, NextKeepsIInv, PTL DEF Spec

\* A failed append is never forgotten: its lines stay in the count that the server reports.
THEOREM FailureStaysVisible == Spec => []FailureNeverLooksComplete
<1>1. IInv => FailureNeverLooksComplete
  <2> SUFFICES ASSUME IInv, NEW w \in Flushes, job[w] = "failed" PROVE Buffered > 0
    BY DEF FailureNeverLooksComplete
  <2> USE DEF IInv
  <2>1. Size(w) # 0 BY CountInNumbers
  <2>2. writing > 0 /\ Left \in Nat BY <2>1, CountInNumbers DEF Flushes
  <2>3. Left + writing > 0 BY <2>2 DEF Types
  <2> QED BY <2>3 DEF Buffered, Left
<1> QED BY <1>1, InitIInv, NextKeepsIInv, PTL DEF Spec

-----------------------------------------------------------------------------
(* Nothing is lost or written twice.  The cancelled background task's append may run on beside the final flush   *)
(* and end in either order, so the file need not be in order: its lines are counted, and their set is compared.  *)

Unharmed == \A w \in Flushes : job[w] \notin {"failed", "dropped"}

\* As long as no append has failed or been dropped, every line is in the file, in a worker's hands or buffered,
\* and in one of these only.
EveryLineOnce ==
  Unharmed =>
    /\ Len(file) + Len(InHand("run")) + Len(InHand("stop")) + Len(lines) = logged
    /\ Range(file) \cup Range(InHand("run")) \cup Range(InHand("stop")) \cup Range(lines) = 1 .. logged

\* Every line the server has written is counted in one place.
Totals == written + writing + Len(lines) = logged

StopIInv ==
  /\ IInv /\ TypeOK
  /\ Totals
  /\ EveryLineOnce
  /\ stopper \in {"awaiting", "stopped"} => lines = <<>>

\* The lengths as numbers.
Filed == Len(file)

Held(w) == Len(InHand(w))

LEMMA EmptyRange == Range(<<>>) = {} /\ Len(<<>>) = 0 /\ <<>> \in LineSeq
BY EmptySeq DEF Range, LineSeq

LEMMA InHandIsLineSeq == TypeOK => \A w \in Flushes : InHand(w) \in LineSeq
BY EmptyRange DEF TypeOK, InHand

LEMMA StopNumbers ==
  ASSUME TypeOK
  PROVE  /\ logged \in Nat /\ written \in Nat /\ writing \in Nat
         /\ Left \in Nat /\ Filed \in Nat
         /\ \A w \in Flushes : Held(w) \in Nat /\ Size(w) \in Nat
<1>1. \A s \in LineSeq : Len(s) \in Nat BY LenProperties DEF LineSeq
<1>2. \A w \in Flushes : chunk[w] \in LineSeq BY DEF TypeOK
<1> QED BY <1>1, <1>2, InHandIsLineSeq DEF TypeOK, Left, Filed, Held, Size

LEMMA InitStopIInv == Init => StopIInv
<1> SUFFICES ASSUME Init PROVE StopIInv OBVIOUS
<1>1. TypeOK
  <2>1. logged \in 0 .. MaxLines /\ writing \in 0 .. logged /\ written \in 0 .. logged
    BY LogAssumption DEF Init
  <2> QED BY <2>1, EmptyRange DEF Init, TypeOK, Flushes
<1>2. EveryLineOnce
  <2>1. InHand("run") = <<>> /\ InHand("stop") = <<>> BY DEF Init, InHand, Flushes
  <2>2. 1 .. logged = {} BY DEF Init
  <2> QED BY <2>1, <2>2, EmptyRange DEF Init, EveryLineOnce
<1> QED BY <1>1, <1>2, InitIInv, EmptyRange DEF Init, StopIInv, Totals

LEMMA WriteKeepsStopIInv == ASSUME StopIInv, Write PROVE StopIInv'
<1> USE DEF StopIInv
<1>1. logged \in Nat /\ logged' = logged + 1 /\ 1 .. logged \subseteq 1 .. logged' /\ logged' \in 1 .. logged'
      /\ logged' <= MaxLines
  BY LogAssumption DEF Write, TypeOK
<1>2. \A s \in LineSeq : s \in LineSeq' BY <1>1, SeqMonotonic DEF LineSeq
<1>3. /\ lines' \in LineSeq' /\ Len(lines') = Len(lines) + 1
      /\ lines' = lines \o <<logged'>> /\ <<logged'>> \in LineSeq'
  <2>1. lines \in LineSeq' /\ lines' = Append(lines, logged') BY <1>1, <1>2 DEF TypeOK, Write
  <2> QED BY <1>1, <2>1, AppendProperties, AppendIsConcat DEF LineSeq
<1>4. TypeOK'
  <2>1. chunk' \in [Flushes -> LineSeq'] BY <1>2 DEF Write, TypeOK
  <2> QED BY <1>1, <1>2, <1>3, <2>1, LogAssumption DEF Write, TypeOK
<1>5. Totals'
  <2>1. Left' = Left + 1 /\ written + writing + Left = logged BY <1>3 DEF Left, Totals
  <2>2. written' + writing' + Left' = logged' BY <1>1, <2>1, StopNumbers DEF Write
  <2> QED BY <2>2 DEF Totals, Left
<1>6. EveryLineOnce'
  <2> SUFFICES ASSUME Unharmed
               PROVE  /\ Filed' + Held("run")' + Held("stop")' + Left' = logged'
                      /\ Range(file) \cup Range(InHand("run")) \cup Range(InHand("stop")) \cup Range(lines')
                           = 1 .. logged'
    BY DEF Write, EveryLineOnce, Unharmed, Filed, Held, Left, InHand
  <2>1. Filed + Held("run") + Held("stop") + Left = logged BY DEF EveryLineOnce, Filed, Held, Left
  <2>2. Filed' = Filed /\ Held("run")' = Held("run") /\ Held("stop")' = Held("stop") /\ Left' = Left + 1
    BY <1>3 DEF Write, Filed, Held, InHand, Left
  <2>3. Filed' + Held("run")' + Held("stop")' + Left' = logged'
    BY <1>1, <2>1, <2>2, StopNumbers DEF Flushes
  <2>4. Range(lines') = Range(lines) \cup {logged'}
    <3>1. lines \in LineSeq' BY <1>2 DEF TypeOK
    <3>2. Range(<<logged'>>) = {logged'} BY DEF Range
    <3> DEFINE new == <<logged'>>
    <3>3. new \in LineSeq' BY <1>3
    <3> HIDE DEF new
    <3>4. Range(lines \o new) = Range(lines) \cup Range(new) BY <3>1, <3>3, RangeConcatenation DEF LineSeq
    <3> QED BY <1>3, <3>2, <3>4 DEF new
  <2>5. 1 .. logged' = 1 .. logged \cup {logged'} BY <1>1
  <2>6. Range(file) \cup Range(InHand("run")) \cup Range(InHand("stop")) \cup Range(lines) = 1 .. logged
    BY DEF EveryLineOnce
  <2> QED BY <2>3, <2>4, <2>5, <2>6
<1> QED BY <1>4, <1>5, <1>6, WriteKeepsIInv DEF Write

\* A worker's append moves the lines in hand to the file.
LEMMA AppendKeepsStopIInv ==
  ASSUME StopIInv, NEW w \in Flushes, AppendOk(w) \/ AppendFail(w)
  PROVE  StopIInv'
<1> USE DEF StopIInv
<1>1. UNCHANGED <<logged, lines, writing, written, chunk, flusher, stopper, evidence_failure>> /\ job[w] = "queued"
  BY DEF AppendOk, AppendFail
<1>2. LineSeq' = LineSeq /\ chunk[w] \in LineSeq /\ file \in LineSeq BY <1>1 DEF LineSeq, TypeOK
<1>3. file' \in LineSeq
  <2>1. CASE AppendOk(w) BY <1>2, <2>1, ConcatProperties DEF AppendOk, LineSeq
  <2>2. CASE AppendFail(w)
    <3>1. PICK n \in 0 .. Len(chunk[w]) - 1 : file' = file \o SubSeq(chunk[w], 1, n) BY <2>2 DEF AppendFail
    <3>2. \A i \in 1 .. n : chunk[w][i] \in 1 .. logged
      <4>1. Len(chunk[w]) \in Nat BY <1>2, LenProperties DEF LineSeq
      <4>2. \A i \in 1 .. n : i \in 1 .. Len(chunk[w]) BY <4>1
      <4> QED BY <1>2, <4>2, ElementOfSeq DEF LineSeq
    <3>3. SubSeq(chunk[w], 1, n) \in LineSeq BY <3>2, SubSeqProperties DEF LineSeq
    <3> QED BY <1>2, <3>1, <3>3, ConcatProperties DEF LineSeq
  <2> QED BY <2>1, <2>2
<1>4. TypeOK' BY <1>1, <1>2, <1>3 DEF TypeOK, AppendOk, AppendFail
<1>5. EveryLineOnce'
  <2>1. CASE AppendFail(w)
    <3>1. job'[w] = "failed" BY <2>1 DEF AppendFail, TypeOK
    <3> QED BY <3>1 DEF EveryLineOnce, Unharmed
  <2>2. CASE AppendOk(w)
    <3>1. job' = [job EXCEPT ![w] = "ok"] /\ file' = file \o chunk[w] BY <2>2 DEF AppendOk
    <3>2. InHand(w) = chunk[w] /\ InHand(w)' = <<>> /\ \A v \in Flushes : v # w => InHand(v)' = InHand(v)
      BY <1>1, <3>1 DEF InHand, TypeOK
    <3>3. Filed' = Filed + Size(w) /\ Held(w) = Size(w) /\ Held(w)' = 0
      BY <1>2, <3>1, <3>2, ConcatProperties, EmptyRange DEF Filed, Held, Size, LineSeq
    <3>4. \A v \in Flushes : v # w => Held(v)' = Held(v) BY <3>2 DEF Held
    <3>5. Range(file') = Range(file) \cup Range(InHand(w)) /\ Range(InHand(w)') = {}
      BY <1>2, <3>1, <3>2, RangeConcatenation, EmptyRange DEF LineSeq
    <3>6. Unharmed' => Unharmed BY <1>1, <3>1 DEF Unharmed, TypeOK
    <3> SUFFICES ASSUME Unharmed
                 PROVE  /\ Filed' + Held("run")' + Held("stop")' + Left' = logged'
                        /\ Range(file') \cup Range(InHand("run")') \cup Range(InHand("stop")') \cup Range(lines')
                             = 1 .. logged'
      BY <3>6 DEF EveryLineOnce, Filed, Held, Left
    <3>7. /\ Filed + Held("run") + Held("stop") + Left = logged
          /\ Range(file) \cup Range(InHand("run")) \cup Range(InHand("stop")) \cup Range(lines) = 1 .. logged
      BY DEF EveryLineOnce, Filed, Held, Left
    <3>8. Left' = Left BY <1>1 DEF Left
    <3>9. Filed' + Held("run")' + Held("stop")' + Left' = logged'
      BY <1>1, <3>3, <3>4, <3>7, <3>8, StopNumbers DEF Flushes
    <3> QED BY <1>1, <3>2, <3>5, <3>7, <3>9 DEF Flushes
  <2> QED BY <2>1, <2>2
<1> QED BY <1>1, <1>4, <1>5, AppendKeepsIInv DEF Totals

LEMMA HandOverKeepsStopIInv ==
  ASSUME StopIInv, IInv', NEW w \in Flushes, HandOver(w), job[w] = "none",
         flusher' \in {"sleeping", "awaiting", "failed", "cancelled"},
         stopper' \in {"no", "cancelled", "awaiting", "stopped"}
  PROVE  StopIInv'
<1> USE DEF StopIInv
<1>1. /\ lines' = <<>> /\ writing' = writing + Left
      /\ chunk' = [chunk EXCEPT ![w] = lines]
      /\ job' = [job EXCEPT ![w] = "queued"]
      /\ UNCHANGED <<logged, written, file, evidence_failure>>
  BY DEF HandOver, Left
<1>2. LineSeq' = LineSeq /\ lines \in LineSeq BY <1>1 DEF LineSeq, TypeOK
<1>3. Left' = 0 BY <1>1, EmptyRange DEF Left
<1>4. Totals' /\ writing' \in 0 .. logged
  <2>1. written + writing + Left = logged BY DEF Totals, Left
  <2>2. written' + writing' + Left' = logged' /\ writing' \in 0 .. logged BY <1>1, <1>3, <2>1, StopNumbers
  <2> QED BY <2>2 DEF Totals, Left
<1>5. TypeOK' BY <1>1, <1>2, <1>4, EmptyRange DEF TypeOK
<1>6. EveryLineOnce'
  <2>1. InHand(w) = <<>> /\ InHand(w)' = lines /\ \A v \in Flushes : v # w => InHand(v)' = InHand(v)
    BY <1>1 DEF InHand, TypeOK
  <2>2. Held(w) = 0 /\ Held(w)' = Left /\ \A v \in Flushes : v # w => Held(v)' = Held(v)
    BY <2>1, EmptyRange DEF Held, Left
  <2>3. Unharmed' => Unharmed BY <1>1 DEF Unharmed, TypeOK
  <2> SUFFICES ASSUME Unharmed
               PROVE  /\ Filed' + Held("run")' + Held("stop")' + Left' = logged'
                      /\ Range(file') \cup Range(InHand("run")') \cup Range(InHand("stop")') \cup Range(lines')
                           = 1 .. logged'
    BY <2>3 DEF EveryLineOnce, Filed, Held, Left
  <2>4. /\ Filed + Held("run") + Held("stop") + Left = logged
        /\ Range(file) \cup Range(InHand("run")) \cup Range(InHand("stop")) \cup Range(lines) = 1 .. logged
    BY DEF EveryLineOnce, Filed, Held, Left
  <2>5. Filed' = Filed BY <1>1 DEF Filed
  <2>6. Filed' + Held("run")' + Held("stop")' + Left' = logged'
    BY <1>1, <1>3, <2>2, <2>4, <2>5, StopNumbers DEF Flushes
  <2> QED BY <1>1, <2>1, <2>4, <2>6, EmptyRange DEF Flushes
<1> QED BY <1>1, <1>4, <1>5, <1>6

LEMMA SettleKeepsStopIInv ==
  ASSUME StopIInv, IInv', NEW w \in Flushes, Settle(w), job[w] = "ok",
         flusher' \in {"sleeping", "awaiting", "failed", "cancelled"},
         stopper' \in {"no", "cancelled", "awaiting", "stopped"},
         stopper' \in {"awaiting", "stopped"} => lines = <<>>
  PROVE  StopIInv'
<1> USE DEF StopIInv
<1>1. /\ writing' = writing - Size(w) /\ written' = written + Size(w)
      /\ chunk' = [chunk EXCEPT ![w] = <<>>]
      /\ job' = [job EXCEPT ![w] = "none"]
      /\ UNCHANGED <<logged, lines, file, evidence_failure>>
  BY DEF Settle, Size
<1>2. LineSeq' = LineSeq BY <1>1 DEF LineSeq
<1>3. Size("run") + Size("stop") = writing BY CountInNumbers DEF IInv
<1>4. writing' \in 0 .. logged /\ written' \in 0 .. logged /\ Totals'
  <2>1. written + writing + Left = logged BY DEF Totals, Left
  <2>2. Left' = Left BY <1>1 DEF Left
  <2>3. Size(w) \in Nat /\ Size(w) <= writing BY <1>3, StopNumbers DEF Flushes
  <2>4. writing' = writing - Size(w) /\ written' = written + Size(w) /\ logged' = logged BY <1>1
  <2>5. logged \in Nat /\ written \in Nat /\ writing \in Nat /\ Left \in Nat BY StopNumbers
  <2>6. writing' \in 0 .. logged /\ written' \in 0 .. logged BY <2>1, <2>3, <2>4, <2>5
  <2>7. written' + writing' + Left' = logged'
    <3>1. \A a, b, c, d \in Nat : (a + d) + (b - d) + c = a + b + c OBVIOUS
    <3>2. (written + Size(w)) + (writing - Size(w)) + Left = written + writing + Left BY <2>3, <2>5, <3>1
    <3> QED BY <2>1, <2>2, <2>4, <3>2
  <2> QED BY <2>6, <2>7 DEF Totals, Left
<1>5. TypeOK' BY <1>1, <1>2, <1>4, EmptyRange DEF TypeOK
<1>6. EveryLineOnce'
  <2>1. \A v \in Flushes : InHand(v)' = InHand(v) BY <1>1 DEF InHand, TypeOK
  <2>2. Unharmed' => Unharmed BY <1>1 DEF Unharmed, TypeOK
  <2> QED BY <1>1, <2>1, <2>2 DEF EveryLineOnce, Flushes
<1> QED BY <1>1, <1>4, <1>5, <1>6

LEMMA EndsKeepStopIInv ==
  ASSUME StopIInv, FlushFail \/ StopBegin \/ (FinalFlush /\ lines = <<>>) \/ FinalFail
  PROVE  StopIInv'
<1> USE DEF StopIInv
<1>1. UNCHANGED <<logged, lines, writing, written, file, chunk>> BY DEF FlushFail, StopBegin, FinalFlush, FinalFail
<1>2. LineSeq' = LineSeq BY <1>1 DEF LineSeq
<1>3. /\ job' \in [Flushes -> {"none", "queued", "ok", "failed", "dropped"}]
      /\ UNCHANGED job \/ job'["run"] = "dropped"
  BY DEF FlushFail, StopBegin, FinalFlush, FinalFail, TypeOK, Flushes
<1>4. TypeOK' BY <1>1, <1>2, <1>3 DEF TypeOK, FlushFail, StopBegin, FinalFlush, FinalFail
<1>5. EveryLineOnce'
  <2>1. CASE UNCHANGED job BY <1>1, <2>1 DEF EveryLineOnce, Unharmed, InHand
  <2>2. CASE job'["run"] = "dropped" BY <2>2 DEF EveryLineOnce, Unharmed, Flushes
  <2> QED BY <1>3, <2>1, <2>2
<1>6. stopper' \in {"awaiting", "stopped"} => lines' = <<>>
  BY <1>1 DEF FlushFail, StopBegin, FinalFlush, FinalFail
<1> QED BY <1>1, <1>4, <1>5, <1>6, EndsKeepIInv DEF Totals

LEMMA NextKeepsStopIInv == StopIInv /\ [Next]_vars => StopIInv'
<1> SUFFICES ASSUME StopIInv, [Next]_vars PROVE StopIInv' OBVIOUS
<1> IInv /\ IInv' BY NextKeepsIInv DEF StopIInv
<1>1. CASE Write BY <1>1, WriteKeepsStopIInv
<1>2. CASE Worker BY <1>2, AppendKeepsStopIInv DEF Worker
<1>3. CASE Flusher
  <2>1. CASE FlushBegin
    <3>1. job["run"] = "none" BY <2>1 DEF FlushBegin, IInv, Turns
    <3> QED BY <2>1, <3>1, HandOverKeepsStopIInv DEF FlushBegin, Flushes, StopIInv, TypeOK
  <2>2. CASE FlushEnd BY <2>2, SettleKeepsStopIInv DEF FlushEnd, Flushes, StopIInv, TypeOK
  <2> QED BY <1>3, <2>1, <2>2, EndsKeepStopIInv DEF Flusher
<1>4. CASE Stopper
  <2>1. CASE FinalFlush /\ lines # <<>>
    <3>1. job["stop"] = "none" BY <2>1 DEF FinalFlush, IInv, Turns
    <3> QED BY <2>1, <3>1, HandOverKeepsStopIInv DEF FinalFlush, Flushes, StopIInv, TypeOK
  <2>2. CASE FinalEnd BY <2>2, SettleKeepsStopIInv DEF FinalEnd, Flushes, StopIInv, TypeOK
  <2> QED BY <1>4, <2>1, <2>2, EndsKeepStopIInv DEF Stopper
<1>5. CASE UNCHANGED vars
  BY <1>5 DEF vars, StopIInv, TypeOK, LineSeq, Totals, EveryLineOnce, Unharmed, InHand
<1> QED BY <1>1, <1>2, <1>3, <1>4, <1>5 DEF Next

\* A server that stopped without a failed or dropped append has each of its lines in the file, once
\* (decision_log.py: flush, run, stop), although two appends may have ended in either order.
THEOREM StoppedIsComplete == Spec => []StoppedHoldsEveryLine
<1>1. StopIInv => StoppedHoldsEveryLine
  <2> SUFFICES ASSUME StopIInv, stopper = "stopped", Quiet, Unharmed
               PROVE  Range(file) = 1 .. logged /\ Len(file) = logged
    BY DEF StopIInv, StoppedHoldsEveryLine, Unharmed
  <2>1. InHand("run") = <<>> /\ InHand("stop") = <<>> /\ lines = <<>> BY DEF InHand, Quiet, StopIInv, Flushes
  <2>2. Filed + 0 + 0 + 0 = logged BY <2>1, EmptyRange DEF StopIInv, EveryLineOnce, Filed
  <2>3. Filed = logged BY <2>2, StopNumbers DEF StopIInv
  <2> QED BY <2>1, <2>3, EmptyRange DEF StopIInv, EveryLineOnce, Filed
<1> QED BY <1>1, InitStopIInv, NextKeepsStopIInv, PTL DEF Spec
=============================================================================
