--------------------------- MODULE RouteBalanceProof ---------------------------
(***************************************************************************)
(* The scheduler service keeps its ledger and its accounts, for any number  *)
(* of requests, clients that go away, rounds of any size and any number of  *)
(* applied configurations.                                                  *)
(***************************************************************************)
EXTENDS RouteBalance, FiniteSetTheorems, SequenceTheorems, TLAPS

\* The states of run() in which the loop's task is alive.
Alive == {"collecting", "estimating", "fetching", "scoring"}

\* The requests of generation g's round that no callback of its thread speaks for yet.
Held(g) == undecided[g] \cup (IF loop[g] \in {"estimating", "fetching"} THEN batch[g] ELSE {})

\* The requests whose dispatch waits in the loop's FIFO.
Called == {ready[k].req : k \in {j \in 1 .. Len(ready) : ready[j].kind = "dispatch"}}

Queued == UNION {Elements(queue[g]) : g \in Generations}

\* What a request's stage says of its future and its token.
Phases ==
  \A r \in Requests :
    /\ pc[r] \in {"new", "select"} => fut[r] = "none" /\ token[r] = "none"
    /\ fut[r] = "pending" => pc[r] = "round"
    /\ pc[r] = "serving" => fut[r] \in {"none", "assigned"}

\* While a configuration is applied nothing is active, and the only live loop is the live configuration's.
Swaps ==
  /\ applying # "no" => Active = {} /\ live < MaxConfigs
  /\ rb <= live
  /\ \A g \in Generations : loop[g] \in Alive => g = rb /\ g = live /\ applying # "swapping"

\* A generation to come has nothing yet.
Fresh ==
  \A g \in Generations : g > live =>
    /\ queue[g] = <<>> /\ ~scoring[g]
    /\ \A k \in 1 .. Len(ready) : ready[k].gen # g

\* A thread's result is its last word: nothing of its generation follows it.
ResultsLast ==
  /\ \A g \in Generations : ~scoring[g] => undecided[g] = {}
  /\ \A k \in 1 .. Len(ready) : ready[k].kind = "result" => ~scoring[ready[k].gen]
  /\ \A j, k \in 1 .. Len(ready) : j < k /\ ready[j].kind = "result" => ready[j].gen # ready[k].gen

\* A request that waits for a decision waits in one place.
OnePlace ==
  /\ \A g, h \in Generations : \A i \in 1 .. Len(queue[g]), j \in 1 .. Len(queue[h]) :
       queue[g][i] = queue[h][j] => g = h /\ i = j
  /\ \A g, h \in Generations : g # h => Held(g) \cap Held(h) = {}
  /\ \A g \in Generations : Held(g) \cap (Queued \cup Called) = {}
  /\ Queued \cap Called = {}
  /\ \A j, k \in 1 .. Len(ready) :
       ready[j].kind = "dispatch" /\ ready[k].kind = "dispatch" /\ ready[j].req = ready[k].req => j = k

\* The requests of the round under way wait nowhere else.
Batches ==
  \A g \in Generations : loop[g] \in {"estimating", "fetching", "scoring"} =>
    \A r \in batch[g] :
      /\ fut[r] # "none" /\ r \notin Queued
      /\ \A h \in Generations : h # g => r \notin Held(h)
      /\ \A k \in 1 .. Len(ready) : ready[k].kind = "dispatch" /\ ready[k].req = r => ready[k].gen = g

\* Until it is decided it has no token, and its future says that it waits or has given up.
NotYetDecided ==
  \A r \in Requests :
    r \in Queued \cup Called \cup UNION {Held(g) : g \in Generations} =>
      fut[r] \in {"pending", "cancelled"} /\ token[r] = "none"

\* A decision for a request that still waits comes from the round that the loop awaits.
Answers ==
  /\ \A g \in Generations : \A r \in undecided[g] : fut[r] = "pending" => loop[g] = "scoring"
  /\ \A k \in 1 .. Len(ready) :
       ready[k].kind = "dispatch" /\ fut[ready[k].req] = "pending" => loop[ready[k].gen] = "scoring"

Tokens ==
  /\ ~misclosed
  /\ \A r \in Requests :
       /\ Outstanding(r) => token[r] = "open" /\ view[r] = live
       /\ token[r] = "open" => view[r] \in Generations /\ (Outstanding(r) \/ dispatch_error[view[r]])

IInv ==
  /\ TypeOK /\ Phases /\ Swaps /\ Fresh /\ ResultsLast /\ LoadsCountEveryPick
  /\ OnePlace /\ Batches /\ NotYetDecided /\ Answers /\ Tokens

-----------------------------------------------------------------------------
(* Sequences *)

LEMMA EventParts ==
  ASSUME NEW e \in Events
  PROVE  /\ e.gen \in Generations /\ e.kind \in {"dispatch", "result"}
         /\ e.kind = "dispatch" => e.req \in Requests
         /\ e.kind = "result" => e.ok \in BOOLEAN
BY DEF Events

LEMMA Appended ==
  ASSUME NEW S, NEW s \in Seq(S), NEW x \in S
  PROVE  /\ Append(s, x) \in Seq(S) /\ Len(s) \in Nat /\ Len(Append(s, x)) = Len(s) + 1
         /\ \A k \in 1 .. Len(s) : Append(s, x)[k] = s[k]
         /\ Append(s, x)[Len(s) + 1] = x
         /\ Elements(Append(s, x)) = Elements(s) \cup {x}
<1>1. /\ Append(s, x) \in Seq(S) /\ Len(s) \in Nat /\ Len(Append(s, x)) = Len(s) + 1
      /\ \A k \in 1 .. Len(s) : Append(s, x)[k] = s[k]
      /\ Append(s, x)[Len(s) + 1] = x
  BY AppendProperties, LenProperties
<1> DEFINE t == Append(s, x)
           n == Len(s)
<1>2. n \in Nat /\ Len(t) = n + 1 /\ (\A k \in 1 .. n : t[k] = s[k]) /\ t[n + 1] = x BY <1>1
<1> HIDE DEF t, n
<1>3. \A k \in 1 .. n + 1 : k \in 1 .. n \/ k = n + 1 BY <1>2
<1>4. 1 .. n \subseteq 1 .. n + 1 /\ n + 1 \in 1 .. n + 1 BY <1>2
<1>5. {t[k] : k \in 1 .. n + 1} = {s[k] : k \in 1 .. n} \cup {x} BY <1>2, <1>3, <1>4
<1>6. Elements(t) = Elements(s) \cup {x} BY <1>2, <1>5 DEF Elements, n
<1> QED BY <1>1, <1>6 DEF t

LEMMA Tailed ==
  ASSUME NEW S, NEW s \in Seq(S), s # <<>>
  PROVE  /\ Tail(s) \in Seq(S) /\ Len(s) \in Nat \ {0} /\ Len(Tail(s)) = Len(s) - 1
         /\ Head(s) \in S /\ Head(s) = s[1]
         /\ \A k \in 1 .. Len(s) - 1 : Tail(s)[k] = s[k + 1]
BY HeadTailProperties, EmptySeq

-----------------------------------------------------------------------------
(* Types *)

LEMMA InitTypeOK == Init => TypeOK
<1> SUFFICES ASSUME Init PROVE TypeOK OBVIOUS
<1> USE DEF Init
<1>1. 1 \in Generations /\ live \in Generations /\ rb \in 0 .. MaxConfigs BY ServiceAssumption DEF Generations
<1>2. <<>> \in Seq(Requests) /\ <<>> \in Seq(Events) BY EmptySeq
<1>3. /\ pc \in [Requests -> {"new", "round", "select", "serving", "ok", "error"}]
      /\ gone \in [Requests -> BOOLEAN]
      /\ fut \in [Requests -> {"none", "pending", "assigned", "failed", "cancelled"}]
      /\ lines \in [Requests -> Nat]
      /\ token \in [Requests -> {"none", "open", "closed"}]
      /\ view \in [Requests -> 0 .. MaxConfigs]
      /\ applying \in {"no", "building", "swapping"}
  BY ServiceAssumption
<1>5. misclosed \in BOOLEAN /\ failure \in BOOLEAN OBVIOUS
<1>4. /\ queue \in [Generations -> Seq(Requests)]
      /\ loop \in [Generations -> {"none", "collecting", "estimating", "fetching", "scoring", "raised", "failed",
                                   "cancelled"}]
      /\ batch \in [Generations -> SUBSET Requests]
      /\ undecided \in [Generations -> SUBSET Requests]
      /\ scoring \in [Generations -> BOOLEAN]
      /\ dispatch_error \in [Generations -> BOOLEAN]
  BY <1>2
<1> QED BY <1>1, <1>2, <1>3, <1>4, <1>5 DEF TypeOK

LEMMA CloseTypes ==
  ASSUME TypeOK, NEW r \in Requests, NEW g, Close(r, g)
  PROVE  /\ token' \in [Requests -> {"none", "open", "closed"}]
         /\ misclosed' \in BOOLEAN /\ view' = view
<1>1. CASE token[r] = "open" /\ view[r] = g BY <1>1 DEF TypeOK, Close
<1>2. CASE ~(token[r] = "open" /\ view[r] = g) BY <1>2 DEF TypeOK, Close
<1> QED BY <1>1, <1>2

LEMMA AnswerTypes ==
  ASSUME TypeOK, NEW r \in Requests, NEW how \in {"ok", "error"}, Answer(r, how)
  PROVE  /\ pc' = [pc EXCEPT ![r] = how]
         /\ pc' \in [Requests -> {"new", "round", "select", "serving", "ok", "error"}]
         /\ lines' \in [Requests -> Nat]
BY DEF TypeOK, Answer

LEMMA RequestTypeOK ==
  ASSUME TypeOK, NEW r \in Requests, Handler(r) \/ Accept(r) \/ AcceptUnbudgeted(r) \/ ClientGoes(r)
  PROVE  TypeOK'
<1>1. CASE Accept(r)
  <2>1. queue' \in [Generations -> Seq(Requests)]
    <3>1. CASE rb # 0
      <4>1. rb \in Generations BY <3>1 DEF Generations, TypeOK
      <4>2. Append(queue[rb], r) \in Seq(Requests) BY <4>1, AppendProperties DEF TypeOK
      <4>3. queue' = [queue EXCEPT ![rb] = Append(queue[rb], r)] BY <1>1, <3>1 DEF Accept
      <4> QED BY <4>1, <4>2, <4>3 DEF TypeOK
    <3>2. CASE rb = 0 BY <1>1, <3>2 DEF Accept, TypeOK
    <3> QED BY <3>1, <3>2
  <2> QED BY <1>1, <2>1 DEF Accept, KeepTokens, service_vars, TypeOK
<1>2. CASE AcceptUnbudgeted(r) BY <1>2 DEF AcceptUnbudgeted, Answer, KeepTokens, service_vars, round_vars, TypeOK
<1>3. CASE ClientGoes(r) BY <1>3 DEF ClientGoes, KeepTokens, service_vars, round_vars, TypeOK
<1>4. CASE Placed(r) BY <1>4 DEF Placed, KeepTokens, service_vars, round_vars, TypeOK
<1>5. CASE RoundFailedIt(r) BY <1>5 DEF RoundFailedIt, Answer, KeepTokens, service_vars, round_vars, TypeOK
<1>6. CASE GoneInRound(r)
  <2>1. Close(r, live) \/ KeepTokens BY <1>6 DEF GoneInRound
  <2>2. token' \in [Requests -> {"none", "open", "closed"}] /\ misclosed' \in BOOLEAN /\ view' = view
    BY <2>1, CloseTypes DEF KeepTokens, TypeOK
  <2>3. Answer(r, "error") BY <1>6 DEF GoneInRound
  <2> QED BY <1>6, <2>2, <2>3, AnswerTypes DEF GoneInRound, service_vars, round_vars, TypeOK
<1>7. CASE Selected(r) BY <1>7 DEF Selected, Record, service_vars, round_vars, Generations, TypeOK
<1>8. CASE SelectFails(r) BY <1>8 DEF SelectFails, Answer, KeepTokens, service_vars, round_vars, TypeOK
<1>9. CASE Served(r)
  <2>1. token' \in [Requests -> {"none", "open", "closed"}] /\ misclosed' \in BOOLEAN /\ view' = view
    BY <1>9, CloseTypes DEF Served
  <2>2. Answer(r, "ok") \/ Answer(r, "error") BY <1>9 DEF Served
  <2> QED BY <1>9, <2>1, <2>2, AnswerTypes DEF Served, service_vars, round_vars, TypeOK
<1> QED BY <1>1, <1>2, <1>3, <1>4, <1>5, <1>6, <1>7, <1>8, <1>9 DEF Handler

LEMMA RoundEndsTypes ==
  ASSUME TypeOK, NEW g \in Generations, RoundEnds(g)
  PROVE  loop' \in [Generations -> {"none", "collecting", "estimating", "fetching", "scoring", "raised", "failed",
                                    "cancelled"}]
BY DEF TypeOK, RoundEnds

LEMMA FailRestTypes ==
  ASSUME TypeOK, NEW rs, FailRest(rs)
  PROVE  fut' \in [Requests -> {"none", "pending", "assigned", "failed", "cancelled"}]
BY DEF TypeOK, FailRest

LEMMA RoundTypeOK ==
  ASSUME TypeOK, NEW g \in Generations, RoundLoop(g) \/ Thread(g)
  PROVE  TypeOK'
<1>1. CASE RoundCloses(g)
  <2>1. PICK n \in 1 .. MaxRound :
          /\ n <= Len(queue[g])
          /\ batch' = [batch EXCEPT ![g] = {queue[g][k] : k \in 1 .. n}]
          /\ queue' = [queue EXCEPT ![g] = SubSeq(@, n + 1, Len(@))]
    BY <1>1 DEF RoundCloses
  <2>2. queue[g] \in Seq(Requests) /\ Len(queue[g]) \in Nat BY LenProperties DEF TypeOK
  <2>3. \A k \in 1 .. Len(queue[g]) : queue[g][k] \in Requests BY <2>2, ElementOfSeq
  <2>4. \A k \in 1 .. n : queue[g][k] \in Requests BY <2>1, <2>2, <2>3
  <2>5. SubSeq(queue[g], n + 1, Len(queue[g])) \in Seq(Requests)
    <3>1. \A k \in n + 1 .. Len(queue[g]) : queue[g][k] \in Requests BY <2>2, <2>3
    <3> QED BY <2>2, <3>1, SubSeqProperties
  <2>6. batch' \in [Generations -> SUBSET Requests] BY <2>1, <2>4 DEF TypeOK
  <2>7. queue' \in [Generations -> Seq(Requests)] BY <2>1, <2>5 DEF TypeOK
  <2> QED BY <1>1, <2>6, <2>7 DEF RoundCloses, TypeOK, request_vars, service_vars
<1>2. CASE Estimated(g) BY <1>2 DEF Estimated, TypeOK, request_vars, service_vars
<1>3. CASE Fetched(g) BY <1>3 DEF Fetched, TypeOK, request_vars, service_vars
<1>4. CASE EstimateOrFetchFails(g)
  BY <1>4, RoundEndsTypes, FailRestTypes DEF EstimateOrFetchFails, KeepTokens, TypeOK, service_vars
<1>5. CASE LoopFailed(g)
  <2>1. queue' \in [Generations -> Seq(Requests)] BY <1>5, EmptySeq DEF LoopFailed, TypeOK
  <2> QED BY <1>5, <2>1, FailRestTypes DEF LoopFailed, KeepTokens, TypeOK
<1>6. CASE Decides(g)
  <2>1. PICK r \in undecided[g] :
          /\ undecided' = [undecided EXCEPT ![g] = @ \ {r}]
          /\ ready' = Append(ready, [kind |-> "dispatch", gen |-> g, req |-> r])
    BY <1>6 DEF Decides
  <2>2. [kind |-> "dispatch", gen |-> g, req |-> r] \in Events BY DEF Events, TypeOK
  <2>3. ready' \in Seq(Events) BY <2>1, <2>2, AppendProperties DEF TypeOK
  <2> QED BY <1>6, <2>1, <2>3 DEF Decides, TypeOK, request_vars, service_vars
<1>7. CASE ScoringEnds(g)
  <2>1. [kind |-> "result", gen |-> g, ok |-> undecided[g] = {}] \in Events BY DEF Events
  <2>2. ready' \in Seq(Events) BY <1>7, <2>1, AppendProperties DEF ScoringEnds, TypeOK
  <2> QED BY <1>7, <2>2 DEF ScoringEnds, TypeOK, request_vars, service_vars
<1> QED BY <1>1, <1>2, <1>3, <1>4, <1>5, <1>6, <1>7 DEF RoundLoop, Thread

LEMMA CallbackTypeOK == ASSUME TypeOK, Callbacks PROVE TypeOK'
<1> DEFINE e == Head(ready)
           g == e.gen
           r == e.req
<1>1. ready # <<>> /\ ready' = Tail(ready) BY DEF Callbacks, RunDispatch, RunResult
<1>2. ready' \in Seq(Events) /\ e \in Events BY <1>1, HeadTailProperties DEF TypeOK
<1>3. g \in Generations /\ (e.kind = "dispatch" => r \in Requests) BY <1>2, EventParts
<1>4. CASE RunDispatch
  <2>1. e.kind = "dispatch" /\ (Dispatch(g, r) \/ DispatchFails(g, r))
        /\ UNCHANGED <<pc, gone, lines, queue, loop, batch, undecided, scoring, service_vars>>
    BY <1>4 DEF RunDispatch
  <2> HIDE DEF e, g, r
  <2>2. g \in 0 .. MaxConfigs BY <1>3 DEF Generations
  <2>3. token' \in [Requests -> {"none", "open", "closed"}]
    BY <2>1 DEF Dispatch, DispatchFails, Record, KeepTokens, TypeOK
  <2>6. view' \in [Requests -> 0 .. MaxConfigs]
    BY <2>1, <2>2 DEF Dispatch, DispatchFails, Record, KeepTokens, TypeOK
  <2>7. fut' \in [Requests -> {"none", "pending", "assigned", "failed", "cancelled"}]
    <3>1. CASE Dispatch(g, r)
      <4>1. fut' = [fut EXCEPT ![r] = "assigned"] \/ fut' = fut BY <3>1 DEF Dispatch
      <4> QED BY <4>1 DEF TypeOK
    <3>2. CASE DispatchFails(g, r)
      <4>1. fut' = [fut EXCEPT ![r] = IF fut[r] = "pending" THEN "failed" ELSE fut[r]] BY <3>2 DEF DispatchFails
      <4>2. r \in Requests BY <1>3, <2>1
      <4> QED BY <4>1, <4>2 DEF TypeOK
    <3> QED BY <2>1, <3>1, <3>2
  <2>4. misclosed' = misclosed BY <2>1 DEF Dispatch, DispatchFails, Record, KeepTokens
  <2>5. dispatch_error' \in [Generations -> BOOLEAN]
    BY <1>3, <2>1 DEF Dispatch, DispatchFails, TypeOK
  <2> QED BY <1>2, <2>1, <2>3, <2>4, <2>5, <2>6, <2>7 DEF TypeOK, service_vars
<1>5. CASE RunResult
  <2>1. (RoundEnds(g) \/ UNCHANGED loop) /\ (FailRest(batch[g]) \/ UNCHANGED fut) BY <1>5 DEF RunResult
  <2> HIDE DEF g
  <2>2. /\ fut' \in [Requests -> {"none", "pending", "assigned", "failed", "cancelled"}]
        /\ loop' \in [Generations -> {"none", "collecting", "estimating", "fetching", "scoring", "raised", "failed",
                                      "cancelled"}]
    BY <1>3, <2>1, RoundEndsTypes, FailRestTypes DEF TypeOK
  <2> QED BY <1>2, <1>5, <2>2 DEF RunResult, KeepTokens, service_vars, TypeOK
<1> QED BY <1>4, <1>5 DEF Callbacks

LEMMA ApplyTypeOK == ASSUME TypeOK, Swaps, Apply PROVE TypeOK'
<1>1. CASE ApplyBegins \/ BuildFails BY <1>1 DEF ApplyBegins, BuildFails, TypeOK, request_vars, round_vars
<1>2. CASE OldLoopStops
  <2>1. loop' \in [Generations -> {"none", "collecting", "estimating", "fetching", "scoring", "raised", "failed",
                                   "cancelled"}]
    BY <1>2 DEF OldLoopStops, TypeOK
  <2>2. undecided' \in [Generations -> SUBSET Requests] BY <1>2 DEF OldLoopStops, TypeOK
  <2>3. scoring' \in [Generations -> BOOLEAN] BY <1>2 DEF OldLoopStops, TypeOK
  <2> QED BY <1>2, <2>1, <2>2, <2>3 DEF OldLoopStops, TypeOK, request_vars
<1>3. CASE SwapToRounds \/ SwapToPipeline \/ SwapRaises
  <2>1. live < MaxConfigs BY <1>3 DEF Swaps, SwapToRounds, SwapToPipeline, SwapRaises
  <2>2. live' = live + 1 => live' \in Generations /\ live' \in 0 .. MaxConfigs
    BY <2>1, ServiceAssumption DEF Generations, TypeOK
  <2>3. loop' \in [Generations -> {"none", "collecting", "estimating", "fetching", "scoring", "raised", "failed",
                                   "cancelled"}]
    BY <1>3 DEF SwapToRounds, SwapToPipeline, SwapRaises, TypeOK, round_vars
  <2>4. rb' \in 0 .. MaxConfigs /\ live' \in Generations
    BY <1>3, <2>2, ServiceAssumption DEF SwapToRounds, SwapToPipeline, SwapRaises, TypeOK
  <2> QED BY <1>3, <2>3, <2>4 DEF SwapToRounds, SwapToPipeline, SwapRaises, TypeOK, request_vars, round_vars
<1> QED BY <1>1, <1>2, <1>3 DEF Apply

-----------------------------------------------------------------------------
(* The steps of a request *)

Waits(r) == r \in Queued \cup Called \cup UNION {Held(g) : g \in Generations}

\* What the rounds hold depends on their own variables only.
LEMMA SameRounds ==
  ASSUME UNCHANGED round_vars
  PROVE  /\ Queued' = Queued /\ Called' = Called
         /\ \A g \in Generations : Held(g)' = Held(g)
         /\ \A r : Waits(r)' <=> Waits(r)
<1> USE DEF round_vars
<1>1. Queued' = Queued BY DEF Queued, Elements
<1>2. Called' = Called BY DEF Called
<1>3. \A g \in Generations : Held(g)' = Held(g) BY DEF Held
<1>4. UNION {Held(g)' : g \in Generations} = UNION {Held(g) : g \in Generations} BY <1>3
<1> QED BY <1>1, <1>2, <1>3, <1>4 DEF Waits

\* One request moves and nothing else does: the invariant asks something of that request only.
LEMMA RequestStep ==
  ASSUME IInv, TypeOK', NEW r \in Requests, UNCHANGED <<service_vars, round_vars>>,
         \A q \in Requests : q # r =>
           pc'[q] = pc[q] /\ fut'[q] = fut[q] /\ token'[q] = token[q] /\ view'[q] = view[q],
         r \in Active \/ applying = "no",
         pc'[r] \in {"new", "select"} => fut'[r] = "none" /\ token'[r] = "none",
         fut'[r] = "pending" => pc'[r] = "round",
         pc'[r] = "serving" => fut'[r] \in {"none", "assigned"},
         fut'[r] = "pending" => fut[r] = "pending",
         fut[r] # "none" => fut'[r] # "none",
         Waits(r) => fut'[r] \in {"pending", "cancelled"} /\ token'[r] = "none",
         ~misclosed',
         Outstanding(r)' => token'[r] = "open" /\ view'[r] = live,
         token'[r] = "open" => view'[r] \in Generations /\ (Outstanding(r)' \/ dispatch_error[view'[r]])
  PROVE  IInv'
<1> USE DEF IInv
<1>1. Phases' BY DEF Phases
<1>2. Swaps'
  <2>1. Active' \subseteq Active \cup {r} BY DEF Active
  <2> QED BY <2>1 DEF Swaps, service_vars, round_vars
<1>3. Fresh' /\ ResultsLast' /\ LoadsCountEveryPick'
  BY DEF Fresh, ResultsLast, LoadsCountEveryPick, service_vars, round_vars
<1>4. OnePlace' BY SameRounds DEF OnePlace, round_vars
<1>5. NotYetDecided'
  <2>1. \A q \in Requests : Waits(q) => fut'[q] \in {"pending", "cancelled"} /\ token'[q] = "none"
    BY DEF NotYetDecided, Waits
  <2> QED BY <2>1, SameRounds DEF NotYetDecided, Waits
<1>6. Answers'
  <2>1. \A q \in Requests : fut'[q] = "pending" => fut[q] = "pending" OBVIOUS
  <2>2. \A g \in Generations : undecided[g] \subseteq Requests BY DEF TypeOK
  <2>3. \A k \in 1 .. Len(ready) : ready[k].kind = "dispatch" => ready[k].req \in Requests
    BY ElementOfSeq, EventParts DEF TypeOK
  <2> QED BY <2>1, <2>2, <2>3 DEF Answers, round_vars
<1>7. Tokens'
  <2>1. \A q \in Requests : q # r => (Outstanding(q)' <=> Outstanding(q)) BY DEF Outstanding
  <2> QED BY <2>1 DEF Tokens, service_vars, round_vars
<1>8. Batches'
  <2>1. \A q \in Requests : fut[q] # "none" => fut'[q] # "none" OBVIOUS
  <2>2. \A g \in Generations : batch[g] \subseteq Requests BY DEF TypeOK
  <2> QED BY <2>1, <2>2, SameRounds DEF Batches, round_vars
<1> QED BY <1>1, <1>2, <1>3, <1>4, <1>5, <1>6, <1>7, <1>8

\* The handler of a placed request closes the token that its placement opened.
LEMMA CloseOfPlaced ==
  ASSUME IInv, NEW r \in Requests, Outstanding(r), Close(r, live)
  PROVE  /\ token' = [token EXCEPT ![r] = "closed"] /\ token'[r] = "closed"
         /\ UNCHANGED <<view, misclosed>>
BY DEF IInv, Tokens, Close, TypeOK

\* What the invariant says of one request.
LEMMA OfOneRequest ==
  ASSUME IInv, NEW r \in Requests
  PROVE  /\ ~misclosed
         /\ Waits(r) => fut[r] \in {"pending", "cancelled"} /\ token[r] = "none"
         /\ pc[r] \in {"new", "select"} => fut[r] = "none" /\ token[r] = "none"
         /\ fut[r] = "pending" => pc[r] = "round"
         /\ pc[r] = "serving" => fut[r] \in {"none", "assigned"}
         /\ Outstanding(r) => token[r] = "open" /\ view[r] = live
         /\ token[r] = "open" => view[r] \in Generations /\ (Outstanding(r) \/ dispatch_error[view[r]])
BY DEF IInv, Phases, NotYetDecided, Waits, Tokens

\* A request that is not placed fails.
LEMMA UnplacedFails ==
  ASSUME IInv, TypeOK', NEW r \in Requests, pc' = [pc EXCEPT ![r] = "error"],
         UNCHANGED <<fut, token, view, misclosed>>, UNCHANGED <<service_vars, round_vars>>,
         r \in Active \/ applying = "no", fut[r] # "pending", ~Outstanding(r)
  PROVE  IInv'
<1>1. /\ pc'[r] = "error" /\ fut'[r] = fut[r] /\ token'[r] = token[r] /\ view'[r] = view[r] /\ misclosed' = misclosed
      /\ \A q \in Requests : q # r =>
           pc'[q] = pc[q] /\ fut'[q] = fut[q] /\ token'[q] = token[q] /\ view'[q] = view[q]
  BY DEF IInv, TypeOK
<1>2. ~Outstanding(r)' BY <1>1 DEF Outstanding
<1> QED BY <1>1, <1>2, OfOneRequest, RequestStep

\* A placed request ends, and its handler closes its token.
LEMMA PlacedEnds ==
  ASSUME IInv, TypeOK', NEW r \in Requests, NEW how \in {"ok", "error"}, pc' = [pc EXCEPT ![r] = how],
         Close(r, live), fut' = fut, UNCHANGED <<service_vars, round_vars>>, Outstanding(r)
  PROVE  IInv'
<1>1. /\ token'[r] = "closed" /\ misclosed' = misclosed
      /\ \A q \in Requests : q # r => token'[q] = token[q] /\ view'[q] = view[q]
  <2>1. token' = [token EXCEPT ![r] = "closed"] /\ token'[r] = "closed" /\ UNCHANGED <<view, misclosed>>
    BY CloseOfPlaced
  <2> QED BY <2>1 DEF IInv, TypeOK
<1>2. /\ pc'[r] = how /\ fut'[r] = fut[r]
      /\ \A q \in Requests : q # r => pc'[q] = pc[q] /\ fut'[q] = fut[q]
  BY DEF IInv, TypeOK
<1>3. r \in Active BY DEF Outstanding, Active
<1>4. ~Outstanding(r)' BY <1>2 DEF Outstanding
<1>5. token[r] # "none" /\ fut[r] # "pending" BY OfOneRequest DEF Outstanding
<1> QED BY <1>1, <1>2, <1>3, <1>4, <1>5, OfOneRequest, RequestStep

LEMMA RequestKeepsIInv ==
  ASSUME IInv, NEW r \in Requests, Handler(r) \/ AcceptUnbudgeted(r) \/ ClientGoes(r)
  PROVE  IInv'
<1>0. TypeOK' BY RequestTypeOK DEF IInv
<1>1. CASE AcceptUnbudgeted(r)
  <2>1. /\ pc[r] = "new" /\ applying = "no" /\ pc' = [pc EXCEPT ![r] = "error"]
        /\ UNCHANGED <<fut, token, view, misclosed>> /\ UNCHANGED <<service_vars, round_vars>>
    BY <1>1 DEF AcceptUnbudgeted, Answer, KeepTokens
  <2>2. ~Outstanding(r) /\ fut[r] # "pending" BY <2>1, OfOneRequest DEF Outstanding
  <2> QED BY <1>0, <2>1, <2>2, UnplacedFails
<1>2. CASE ClientGoes(r)
  <2>1. /\ fut' = [fut EXCEPT ![r] = IF fut[r] = "pending" THEN "cancelled" ELSE fut[r]]
        /\ r \in Active
        /\ UNCHANGED <<pc, token, view, misclosed>> /\ UNCHANGED <<service_vars, round_vars>>
    BY <1>2 DEF ClientGoes, KeepTokens
  <2>2. /\ fut'[r] = IF fut[r] = "pending" THEN "cancelled" ELSE fut[r]
        /\ \A q \in Requests : q # r => fut'[q] = fut[q]
    BY <2>1 DEF IInv, TypeOK
  <2>3. Outstanding(r)' <=> Outstanding(r) BY <2>1, <2>2 DEF Outstanding
  <2> QED BY <1>0, <2>1, <2>2, <2>3, OfOneRequest, RequestStep
<1>3. CASE Placed(r)
  <2>1. /\ pc[r] = "round" /\ fut[r] = "assigned" /\ pc' = [pc EXCEPT ![r] = "serving"]
        /\ UNCHANGED <<fut, token, view, misclosed>> /\ UNCHANGED <<service_vars, round_vars>>
    BY <1>3 DEF Placed, KeepTokens
  <2>2. pc'[r] = "serving" /\ \A q \in Requests : q # r => pc'[q] = pc[q] BY <2>1 DEF IInv, TypeOK
  <2>3. Outstanding(r)' /\ Outstanding(r) /\ r \in Active BY <2>1, <2>2 DEF Outstanding, Active
  <2> QED BY <1>0, <2>1, <2>2, <2>3, OfOneRequest, RequestStep
<1>4. CASE RoundFailedIt(r)
  <2>1. /\ pc[r] = "round" /\ fut[r] = "failed" /\ pc' = [pc EXCEPT ![r] = "error"]
        /\ UNCHANGED <<fut, token, view, misclosed>> /\ UNCHANGED <<service_vars, round_vars>>
    BY <1>4 DEF RoundFailedIt, Answer, KeepTokens
  <2>2. ~Outstanding(r) /\ r \in Active BY <2>1 DEF Outstanding, Active
  <2> QED BY <1>0, <2>1, <2>2, UnplacedFails
<1>5. CASE GoneInRound(r)
  <2>1. /\ pc[r] = "round" /\ fut[r] \in {"assigned", "cancelled"} /\ pc' = [pc EXCEPT ![r] = "error"]
        /\ fut' = fut /\ UNCHANGED <<service_vars, round_vars>>
        /\ IF fut[r] = "assigned" THEN Close(r, live) ELSE KeepTokens
    BY <1>5 DEF GoneInRound, Answer
  <2>2. CASE fut[r] = "assigned"
    <3>1. Close(r, live) /\ Outstanding(r) BY <2>1, <2>2 DEF Outstanding
    <3> QED BY <1>0, <2>1, <3>1, PlacedEnds
  <2>3. CASE fut[r] # "assigned"
    <3>1. UNCHANGED <<token, view, misclosed>> /\ ~Outstanding(r) /\ r \in Active
      BY <2>1, <2>3 DEF KeepTokens, Outstanding, Active
    <3> QED BY <1>0, <2>1, <2>3, <3>1, UnplacedFails
  <2> QED BY <2>2, <2>3
<1>6. CASE Selected(r)
  <2>1. /\ pc[r] = "select" /\ pc' = [pc EXCEPT ![r] = "serving"]
        /\ token' = [token EXCEPT ![r] = "open"] /\ view' = [view EXCEPT ![r] = live]
        /\ UNCHANGED <<fut, misclosed>> /\ UNCHANGED <<service_vars, round_vars>>
    BY <1>6 DEF Selected, Record
  <2>2. fut[r] = "none" /\ ~Waits(r) /\ r \in Active BY <2>1, OfOneRequest DEF Active
  <2>3. /\ pc'[r] = "serving" /\ token'[r] = "open" /\ view'[r] = live
        /\ \A q \in Requests : q # r => pc'[q] = pc[q] /\ token'[q] = token[q] /\ view'[q] = view[q]
    BY <2>1 DEF IInv, TypeOK
  <2>4. Outstanding(r)' BY <2>3 DEF Outstanding
  <2>5. live \in Generations BY DEF IInv, TypeOK
  <2> QED BY <1>0, <2>1, <2>2, <2>3, <2>4, <2>5, OfOneRequest, RequestStep
<1>7. CASE SelectFails(r)
  <2>1. /\ pc[r] = "select" /\ pc' = [pc EXCEPT ![r] = "error"]
        /\ UNCHANGED <<fut, token, view, misclosed>> /\ UNCHANGED <<service_vars, round_vars>>
    BY <1>7 DEF SelectFails, Answer, KeepTokens
  <2>2. ~Outstanding(r) /\ fut[r] # "pending" /\ r \in Active BY <2>1, OfOneRequest DEF Outstanding, Active
  <2> QED BY <1>0, <2>1, <2>2, UnplacedFails
<1>8. CASE Served(r)
  <2>1. PICK how \in {"ok", "error"} : pc' = [pc EXCEPT ![r] = how] BY <1>8 DEF Served, Answer
  <2>2. pc[r] = "serving" /\ Close(r, live) /\ fut' = fut /\ UNCHANGED <<service_vars, round_vars>>
    BY <1>8 DEF Served
  <2>3. Outstanding(r) BY <2>2 DEF Outstanding
  <2> QED BY <1>0, <2>1, <2>2, <2>3, PlacedEnds
<1> QED BY <1>1, <1>2, <1>3, <1>4, <1>5, <1>6, <1>7, <1>8 DEF Handler

\* Whoever is in a queue is so at some position.
LEMMA InQueue == \A q : q \in Queued <=> \E g \in Generations : \E i \in 1 .. Len(queue[g]) : queue[g][i] = q
BY DEF Queued, Elements

LEMMA InCalled ==
  \A q : q \in Called <=> \E k \in 1 .. Len(ready) : ready[k].kind = "dispatch" /\ ready[k].req = q
BY DEF Called

LEMMA AcceptKeepsIInv ==
  ASSUME IInv, NEW r \in Requests, Accept(r)
  PROVE  IInv'
<1>0. TypeOK' BY RequestTypeOK DEF IInv
<1>1. pc[r] = "new" /\ applying = "no" /\ UNCHANGED <<token, view, misclosed>> /\ UNCHANGED service_vars
  BY DEF Accept, KeepTokens
<1>2. fut[r] = "none" /\ token[r] = "none" /\ ~Waits(r) /\ ~misclosed BY <1>1, OfOneRequest
<1>3. CASE rb = 0
  <2>1. pc' = [pc EXCEPT ![r] = "select"] /\ fut' = fut /\ UNCHANGED <<service_vars, round_vars>>
    BY <1>3 DEF Accept, round_vars
  <2>2. pc'[r] = "select" /\ \A q \in Requests : q # r => pc'[q] = pc[q] BY <2>1 DEF IInv, TypeOK
  <2>3. ~Outstanding(r)' BY <2>2 DEF Outstanding
  <2> QED BY <1>0, <1>1, <1>2, <2>1, <2>2, <2>3, OfOneRequest, RequestStep
<1>4. CASE rb # 0
  <2>1. /\ pc' = [pc EXCEPT ![r] = "round"] /\ fut' = [fut EXCEPT ![r] = "pending"]
        /\ queue' = [queue EXCEPT ![rb] = Append(queue[rb], r)]
        /\ UNCHANGED <<loop, batch, undecided, scoring, ready, dispatch_error>>
    BY <1>4 DEF Accept
  <2>2. rb \in Generations /\ queue[rb] \in Seq(Requests)
    <3>1. rb \in Generations BY <1>4, ServiceAssumption DEF IInv, TypeOK, Generations
    <3> QED BY <3>1 DEF IInv, TypeOK
  <2>3. /\ pc'[r] = "round" /\ fut'[r] = "pending"
        /\ \A q \in Requests : q # r => pc'[q] = pc[q] /\ fut'[q] = fut[q]
    BY <2>1 DEF IInv, TypeOK
  <2> DEFINE n == Len(queue[rb])
  <2>4. /\ n \in Nat /\ Len(queue'[rb]) = n + 1 /\ queue'[rb][n + 1] = r
        /\ \A k \in 1 .. n : queue'[rb][k] = queue[rb][k]
        /\ \A g \in Generations : g # rb => queue'[g] = queue[g]
    <3>1. queue'[rb] = Append(queue[rb], r) /\ \A g \in Generations : g # rb => queue'[g] = queue[g]
      BY <2>1, <2>2 DEF IInv, TypeOK
    <3> QED BY <2>2, <3>1, Appended
  <2> HIDE DEF n
  <2>5. \A i \in 1 .. n + 1 : i \in 1 .. n \/ i = n + 1 BY <2>4
  <2>6. \A g \in Generations : \A i \in 1 .. Len(queue'[g]) :
          \/ g = rb /\ i = n + 1 /\ queue'[g][i] = r
          \/ i \in 1 .. Len(queue[g]) /\ queue'[g][i] = queue[g][i]
    BY <2>4, <2>5 DEF n
  <2>7. \A q : q \in Queued' => q \in Queued \/ q = r
    <3>1. \A q : q \in Queued' <=> \E g \in Generations : \E i \in 1 .. Len(queue'[g]) : queue'[g][i] = q
      BY DEF Queued, Elements
    <3> QED BY <2>6, <3>1, InQueue
  <2>8. r \notin Queued /\ r \notin Called /\ (\A g \in Generations : r \notin Held(g)) BY <1>2 DEF Waits
  <2>9. Called' = Called /\ \A g \in Generations : Held(g)' = Held(g) BY <2>1 DEF Called, Held
  <2>10. Phases' BY <1>1, <1>2, <2>3 DEF IInv, Phases
  <2>11. Swaps' BY <1>1, <2>1 DEF IInv, Swaps, service_vars
  <2>12. Fresh'
    <3>1. rb <= live /\ \A g \in Generations : g > live => g # rb BY <1>0 DEF IInv, Swaps, TypeOK, Generations
    <3> QED BY <1>1, <2>1, <2>4, <3>1 DEF IInv, Fresh, service_vars
  <2>13. ResultsLast' /\ LoadsCountEveryPick' BY <2>1 DEF IInv, ResultsLast, LoadsCountEveryPick
  <2>14. OnePlace'
    <3>1. \A g, h \in Generations : \A i \in 1 .. Len(queue'[g]), j \in 1 .. Len(queue'[h]) :
            queue'[g][i] = queue'[h][j] => g = h /\ i = j
      BY <2>6, <2>8, InQueue DEF IInv, OnePlace
    <3> QED BY <2>1, <2>7, <2>8, <2>9, <3>1 DEF IInv, OnePlace
  <2>15. NotYetDecided'
    <3>1. \A q \in Requests : Waits(q)' => Waits(q) \/ q = r BY <2>7, <2>9 DEF Waits
    <3> QED BY <1>1, <1>2, <2>3, <3>1 DEF IInv, NotYetDecided, Waits
  <2>16. Answers'
    <3>1. \A g \in Generations : r \notin undecided[g] /\ undecided[g] \subseteq Requests
      BY <2>8 DEF Held, IInv, TypeOK
    <3>2. \A k \in 1 .. Len(ready) : ready[k].kind = "dispatch" => ready[k].req # r /\ ready[k].req \in Requests
      BY <2>8, InCalled, ElementOfSeq, EventParts DEF IInv, TypeOK
    <3> QED BY <2>1, <2>3, <3>1, <3>2 DEF IInv, Answers
  <2>17. Tokens'
    <3>1. ~Outstanding(r)' /\ \A q \in Requests : q # r => (Outstanding(q)' <=> Outstanding(q))
      BY <2>3 DEF Outstanding
    <3> QED BY <1>1, <1>2, <2>1, <3>1 DEF IInv, Tokens, service_vars
  <2>18. Batches'
    <3>1. \A g \in Generations : batch[g] \subseteq Requests BY DEF IInv, TypeOK
    <3>2. \A g \in Generations : loop[g] \in {"estimating", "fetching", "scoring"} =>
            \A q \in batch[g] : q # r /\ q \notin Queued' /\ fut'[q] # "none"
      BY <1>2, <2>3, <2>7, <3>1 DEF IInv, Batches
    <3> QED BY <2>1, <2>9, <3>2 DEF IInv, Batches
  <2> QED BY <1>0, <2>10, <2>11, <2>12, <2>13, <2>14, <2>15, <2>16, <2>17, <2>18 DEF IInv
<1> QED BY <1>3, <1>4

-----------------------------------------------------------------------------
(* The steps of a round *)

\* A loop that collects, estimates or fetches holds its round's requests only.
LEMMA BetweenRounds ==
  ASSUME IInv, NEW g \in Generations, loop[g] \in {"collecting", "estimating", "fetching"}
  PROVE  /\ ~scoring[g] /\ undecided[g] = {}
         /\ \A k \in 1 .. Len(ready) : ready[k].gen # g
         /\ g = rb /\ g = live /\ applying # "swapping"
         /\ Held(g) = IF loop[g] = "collecting" THEN {} ELSE batch[g]
         /\ \A h \in Generations : h # g => loop[h] \notin Alive
BY DEF IInv, LoadsCountEveryPick, ResultsLast, Swaps, Alive, Held

LEMMA RoundClosesKeepsIInv ==
  ASSUME IInv, NEW g \in Generations, RoundCloses(g)
  PROVE  IInv'
<1>0. TypeOK' BY RoundTypeOK DEF IInv, RoundLoop
<1>1. PICK n \in 1 .. MaxRound :
        /\ n <= Len(queue[g])
        /\ batch' = [batch EXCEPT ![g] = {queue[g][k] : k \in 1 .. n}]
        /\ queue' = [queue EXCEPT ![g] = SubSeq(@, n + 1, Len(@))]
  BY DEF RoundCloses
<1>2. /\ loop[g] = "collecting" /\ loop' = [loop EXCEPT ![g] = "estimating"]
      /\ UNCHANGED <<undecided, scoring, ready, dispatch_error>> /\ UNCHANGED request_vars /\ UNCHANGED service_vars
  BY DEF RoundCloses
<1> DEFINE m == Len(queue[g])
<1>3. m \in Nat /\ n \in Nat \ {0} /\ n <= m
  BY <1>1, LenProperties, ServiceAssumption DEF IInv, TypeOK
<1>4. /\ Len(queue'[g]) = m - n
      /\ \A i \in 1 .. m - n : queue'[g][i] = queue[g][i + n]
  <2>1. queue'[g] = SubSeq(queue[g], n + 1, m) BY <1>1 DEF IInv, TypeOK
  <2>2. \A i \in n + 1 .. m : queue[g][i] \in Requests
    <3>1. queue[g] \in Seq(Requests) BY DEF IInv, TypeOK
    <3>2. \A i \in n + 1 .. m : i \in 1 .. m BY <1>3
    <3> QED BY <3>1, <3>2, ElementOfSeq
  <2> HIDE DEF m
  <2>3. n + 1 \in Int /\ m \in Int /\ m - (n + 1) + 1 = m - n /\ (n + 1 <= m \/ m - n = 0) BY <1>3
  <2>4. /\ Len(SubSeq(queue[g], n + 1, m)) = IF n + 1 <= m THEN m - (n + 1) + 1 ELSE 0
        /\ \A i \in 1 .. m - (n + 1) + 1 : SubSeq(queue[g], n + 1, m)[i] = queue[g][(n + 1) + i - 1]
    BY <2>2, <2>3, SubSeqProperties
  <2>5. \A i \in 1 .. m - n : (n + 1) + i - 1 = i + n BY <1>3
  <2>6. Len(queue'[g]) = m - n BY <1>3, <2>1, <2>3, <2>4
  <2> QED BY <2>1, <2>3, <2>4, <2>5, <2>6
<1> HIDE DEF m
<1>5. \A h \in Generations : h # g => queue'[h] = queue[h] /\ batch'[h] = batch[h] /\ loop'[h] = loop[h]
  BY <1>1, <1>2 DEF IInv, TypeOK
<1>6. loop'[g] = "estimating" /\ batch'[g] = {queue[g][k] : k \in 1 .. n} BY <1>1, <1>2 DEF IInv, TypeOK
\* Where the requests in a queue were before.
<1>7. \A h \in Generations : \A i \in 1 .. Len(queue'[h]) :
        \/ h = g /\ i + n \in n + 1 .. m /\ queue'[h][i] = queue[g][i + n]
        \/ h # g /\ i \in 1 .. Len(queue[h]) /\ queue'[h][i] = queue[h][i]
  BY <1>3, <1>4, <1>5
<1>8. \A q : q \in Queued' <=> \E h \in Generations : \E i \in 1 .. Len(queue'[h]) : queue'[h][i] = q
  BY DEF Queued, Elements
<1>9. (\A i \in n + 1 .. m : i \in 1 .. m) /\ (\A i \in 1 .. n : i \in 1 .. m) BY <1>3
<1>10. Queued' \subseteq Queued
  <2> SUFFICES ASSUME NEW q \in Queued' PROVE q \in Queued OBVIOUS
  <2>1. PICK h \in Generations : \E i \in 1 .. Len(queue'[h]) : queue'[h][i] = q BY <1>8
  <2>2. PICK i \in 1 .. Len(queue'[h]) : queue'[h][i] = q BY <2>1
  <2>3. CASE h = g /\ i + n \in n + 1 .. m /\ queue'[h][i] = queue[g][i + n]
    <3>1. i + n \in 1 .. m BY <1>9, <2>3
    <3> QED BY <2>2, <2>3, <3>1, InQueue DEF m
  <2>4. CASE i \in 1 .. Len(queue[h]) /\ queue'[h][i] = queue[h][i] BY <2>2, <2>4, InQueue
  <2> QED BY <1>7, <2>3, <2>4
<1>11. batch'[g] \subseteq Queued /\ batch'[g] \cap Queued' = {}
  <2>1. batch'[g] \subseteq Queued BY <1>6, <1>9, InQueue DEF m
  <2>2. ASSUME NEW k \in 1 .. n, queue[g][k] \in Queued' PROVE FALSE
    <3>1. PICK h \in Generations : \E i \in 1 .. Len(queue'[h]) : queue'[h][i] = queue[g][k] BY <1>8, <2>2
    <3>2. PICK i \in 1 .. Len(queue'[h]) : queue'[h][i] = queue[g][k] BY <3>1
    <3>3. CASE h # g BY <1>7, <1>9, <3>2, <3>3 DEF IInv, OnePlace, m
    <3>4. CASE h = g
      <4>1. i + n \in n + 1 .. m /\ queue[g][i + n] = queue[g][k] /\ k # i + n BY <1>3, <1>7, <3>2, <3>4
      <4> QED BY <1>9, <4>1 DEF IInv, OnePlace, m
    <3> QED BY <3>3, <3>4
  <2> QED BY <1>6, <2>1, <2>2
<1>12. /\ Called' = Called /\ Held(g) = {} /\ Held(g)' = batch'[g]
       /\ \A h \in Generations : h # g => Held(h)' = Held(h)
  <2>1. undecided[g] = {} /\ Held(g) = {} BY <1>2, BetweenRounds
  <2> QED BY <1>2, <1>5, <1>6, <2>1 DEF Called, Held
<1>13. \A q : Waits(q)' => Waits(q)
  BY <1>10, <1>11, <1>12 DEF Waits
<1>14. Phases' BY <1>2 DEF IInv, Phases, request_vars
<1>15. Swaps'
  <2>1. g = rb /\ g = live /\ applying # "swapping" BY <1>2, BetweenRounds
  <2>2. Active' = Active BY <1>2 DEF Active, request_vars
  <2> QED BY <1>2, <1>5, <2>1, <2>2 DEF IInv, Swaps, service_vars
<1>16. Fresh'
  <2>1. g = live /\ live \in Nat BY <1>2, BetweenRounds DEF Generations
  <2> QED BY <1>2, <1>5, <2>1 DEF IInv, Fresh, service_vars
<1>17. ResultsLast' BY <1>2 DEF IInv, ResultsLast
<1>18. LoadsCountEveryPick' BY <1>2, <1>5, BetweenRounds DEF IInv, LoadsCountEveryPick
<1>19. OnePlace'
  <2>1. \A h1, h2 \in Generations : \A i \in 1 .. Len(queue'[h1]), j \in 1 .. Len(queue'[h2]) :
          queue'[h1][i] = queue'[h2][j] => h1 = h2 /\ i = j
    <3> SUFFICES ASSUME NEW h1 \in Generations, NEW h2 \in Generations,
                        NEW i \in 1 .. Len(queue'[h1]), NEW j \in 1 .. Len(queue'[h2]),
                        queue'[h1][i] = queue'[h2][j]
                 PROVE  h1 = h2 /\ i = j
      OBVIOUS
    <3>1. CASE h1 = g /\ h2 = g
      <4>1. i + n \in 1 .. m /\ j + n \in 1 .. m /\ queue[g][i + n] = queue[g][j + n] BY <1>7, <1>9, <3>1
      <4>2. i + n = j + n BY <4>1 DEF IInv, OnePlace, m
      <4> QED BY <1>3, <1>4, <3>1, <4>2
    <3>2. CASE h1 # g \/ h2 # g BY <1>7, <1>9, <3>2 DEF IInv, OnePlace, m
    <3> QED BY <3>1, <3>2
  <2> QED BY <1>2, <1>10, <1>11, <1>12, <2>1 DEF IInv, OnePlace
<1>20. NotYetDecided' BY <1>2, <1>13 DEF IInv, NotYetDecided, Waits, request_vars
<1>21. Answers'
  <2>1. undecided[g] = {} /\ \A k \in 1 .. Len(ready) : ready[k].gen # g BY <1>2, BetweenRounds
  <2>2. \A k \in 1 .. Len(ready) : ready[k].gen \in Generations BY ElementOfSeq, EventParts DEF IInv, TypeOK
  <2> QED BY <1>2, <1>5, <2>1, <2>2 DEF IInv, Answers, request_vars
<1>22. Tokens' BY <1>2 DEF IInv, Tokens, Outstanding, request_vars, service_vars
<1>23. Batches'
  <2>1. \A h \in Generations : loop'[h] \in {"estimating", "fetching", "scoring"} => h = g
    BY <1>2, <1>5, BetweenRounds DEF Alive
  <2>2. ASSUME NEW r \in batch'[g]
        PROVE  /\ fut'[r] # "none" /\ r \notin Queued'
               /\ \A h \in Generations : h # g => r \notin Held(h)'
               /\ \A k \in 1 .. Len(ready') : ready'[k].kind = "dispatch" /\ ready'[k].req = r => ready'[k].gen = g
    <3>1. r \in Queued /\ r \notin Queued' BY <1>11, <2>2
    <3>2. r \in Requests BY <1>0, <2>2 DEF TypeOK
    <3>3. fut[r] # "none" BY <3>1, <3>2 DEF IInv, NotYetDecided
    <3>4. r \notin Called /\ \A h \in Generations : r \notin Held(h) BY <3>1 DEF IInv, OnePlace
    <3> QED BY <1>2, <1>12, <3>1, <3>3, <3>4, InCalled DEF request_vars
  <2> QED BY <2>1, <2>2 DEF Batches
<1> QED BY <1>0, <1>14, <1>15, <1>16, <1>17, <1>18, <1>19, <1>20, <1>21, <1>22, <1>23 DEF IInv

LEMMA EstimatedKeepsIInv ==
  ASSUME IInv, NEW g \in Generations, Estimated(g)
  PROVE  IInv'
<1>0. TypeOK' BY RoundTypeOK DEF IInv, RoundLoop
<1>1. /\ loop[g] = "estimating" /\ loop' = [loop EXCEPT ![g] = "fetching"]
      /\ UNCHANGED <<queue, batch, undecided, scoring, ready, dispatch_error>>
      /\ UNCHANGED request_vars /\ UNCHANGED service_vars
  BY DEF Estimated
<1>2. loop'[g] = "fetching" /\ \A h \in Generations : h # g => loop'[h] = loop[h] BY <1>1 DEF IInv, TypeOK
<1>3. Queued' = Queued /\ Called' = Called BY <1>1 DEF Queued, Called, Elements
<1>4. \A h \in Generations : Held(h)' = Held(h) BY <1>1, <1>2 DEF Held
<1>5. \A q : Waits(q)' <=> Waits(q) BY <1>3, <1>4 DEF Waits
<1>6. Phases' BY <1>1 DEF IInv, Phases, request_vars
<1>7. Swaps'
  <2>1. Active' = Active BY <1>1 DEF Active, request_vars
  <2> QED BY <1>1, <1>2, <2>1, BetweenRounds DEF IInv, Swaps, service_vars
<1>8. Fresh' /\ ResultsLast' BY <1>1 DEF IInv, Fresh, ResultsLast, service_vars
<1>9. LoadsCountEveryPick' BY <1>1, <1>2, BetweenRounds DEF IInv, LoadsCountEveryPick
<1>10. OnePlace' BY <1>1, <1>3, <1>4 DEF IInv, OnePlace
<1>11. NotYetDecided' BY <1>1, <1>5 DEF IInv, NotYetDecided, Waits, request_vars
<1>12. Answers'
  <2>1. \A h \in Generations : loop[h] = "scoring" => loop'[h] = "scoring" BY <1>1, <1>2
  <2>2. \A k \in 1 .. Len(ready) : ready[k].gen \in Generations BY ElementOfSeq, EventParts DEF IInv, TypeOK
  <2> QED BY <1>1, <2>1, <2>2 DEF IInv, Answers, request_vars
<1>13. Tokens' BY <1>1 DEF IInv, Tokens, Outstanding, request_vars, service_vars
<1>14. Batches' BY <1>1, <1>2, <1>3, <1>4 DEF IInv, Batches, request_vars
<1> QED BY <1>0, <1>6, <1>7, <1>8, <1>9, <1>10, <1>11, <1>12, <1>13, <1>14 DEF IInv

LEMMA FetchedKeepsIInv ==
  ASSUME IInv, NEW g \in Generations, Fetched(g)
  PROVE  IInv'
<1>0. TypeOK' BY RoundTypeOK DEF IInv, RoundLoop
<1>1. /\ loop[g] = "fetching" /\ loop' = [loop EXCEPT ![g] = "scoring"]
      /\ undecided' = [undecided EXCEPT ![g] = batch[g]]
      /\ scoring' = [scoring EXCEPT ![g] = TRUE]
      /\ UNCHANGED <<queue, batch, ready, dispatch_error>> /\ UNCHANGED request_vars /\ UNCHANGED service_vars
  BY DEF Fetched
<1>2. /\ loop'[g] = "scoring" /\ undecided'[g] = batch[g] /\ scoring'[g]
      /\ \A h \in Generations : h # g =>
           loop'[h] = loop[h] /\ undecided'[h] = undecided[h] /\ scoring'[h] = scoring[h]
  BY <1>1 DEF IInv, TypeOK
<1>3. Queued' = Queued /\ Called' = Called BY <1>1 DEF Queued, Called, Elements
<1>4. \A h \in Generations : Held(h)' = Held(h)
  <2>1. Held(g) = batch[g] BY <1>1, BetweenRounds
  <2>2. Held(g)' = batch[g] BY <1>2 DEF Held
  <2>3. \A h \in Generations : h # g => Held(h)' = Held(h) BY <1>1, <1>2 DEF Held
  <2> QED BY <2>1, <2>2, <2>3
<1>5. \A q : Waits(q)' <=> Waits(q) BY <1>3, <1>4 DEF Waits
<1>6. Phases' BY <1>1 DEF IInv, Phases, request_vars
<1>7. Swaps'
  <2>1. Active' = Active BY <1>1 DEF Active, request_vars
  <2> QED BY <1>1, <1>2, <2>1, BetweenRounds DEF IInv, Swaps, service_vars
<1>8. \A k \in 1 .. Len(ready) : ready[k].gen \in Generations /\ ready[k].gen # g
  BY <1>1, BetweenRounds, ElementOfSeq, EventParts DEF IInv, TypeOK
<1>9. Fresh'
  <2>1. g = live /\ live \in Nat BY <1>1, BetweenRounds DEF Generations
  <2>2. \A h \in Generations : h > live' => h # g /\ h > live BY <1>1, <2>1 DEF service_vars
  <2>3. UNCHANGED <<queue, ready>> BY <1>1
  <2> QED BY <1>2, <2>2, <2>3 DEF IInv, Fresh
<1>10. ResultsLast' BY <1>1, <1>2, <1>8 DEF IInv, ResultsLast
<1>11. LoadsCountEveryPick' BY <1>1, <1>2 DEF IInv, LoadsCountEveryPick
<1>12. OnePlace' BY <1>1, <1>3, <1>4 DEF IInv, OnePlace
<1>13. NotYetDecided' BY <1>1, <1>5 DEF IInv, NotYetDecided, Waits, request_vars
<1>14. Answers' BY <1>1, <1>2, <1>8 DEF IInv, Answers, request_vars
<1>15. Tokens' BY <1>1 DEF IInv, Tokens, Outstanding, request_vars, service_vars
<1>16. Batches' BY <1>1, <1>2, <1>3, <1>4 DEF IInv, Batches, request_vars
<1> QED BY <1>0, <1>6, <1>7, <1>9, <1>10, <1>11, <1>12, <1>13, <1>14, <1>15, <1>16 DEF IInv

\* Failing the requests that wait opens, closes and moves no token.
LEMMA FailingKeepsTokens ==
  ASSUME IInv, NEW rs, FailRest(rs), pc' = pc, KeepTokens, live' = live, dispatch_error' = dispatch_error
  PROVE  /\ \A q \in Requests : fut'[q] = IF q \in rs /\ fut[q] = "pending" THEN "failed" ELSE fut[q]
         /\ \A q \in Requests : fut'[q] = "pending" => fut[q] = "pending"
         /\ \A q \in Requests : fut[q] # "none" => fut'[q] # "none"
         /\ \A q \in Requests : q \notin rs => fut'[q] = fut[q]
         /\ Active' = Active /\ Phases' /\ Tokens'
<1>1. \A q \in Requests : fut'[q] = IF q \in rs /\ fut[q] = "pending" THEN "failed" ELSE fut[q] BY DEF FailRest
<1>2. Active' = Active BY DEF Active
<1>3. Phases' BY <1>1 DEF IInv, Phases, KeepTokens
<1>4. Tokens'
  <2>1. \A q \in Requests : Outstanding(q)' <=> Outstanding(q) BY <1>1 DEF Outstanding
  <2> QED BY <2>1 DEF IInv, Tokens, KeepTokens
<1> QED BY <1>1, <1>2, <1>3, <1>4

LEMMA FetchFailsKeepsIInv ==
  ASSUME IInv, NEW g \in Generations, EstimateOrFetchFails(g)
  PROVE  IInv'
<1>0. TypeOK' BY RoundTypeOK DEF IInv, RoundLoop
<1>1. /\ loop[g] \in {"estimating", "fetching"} /\ FailRest(batch[g]) /\ RoundEnds(g) /\ KeepTokens
      /\ UNCHANGED <<pc, queue, batch, undecided, scoring, ready, dispatch_error>> /\ UNCHANGED service_vars
  BY DEF EstimateOrFetchFails
<1>2. loop'[g] \in {"raised", "collecting"} /\ \A h \in Generations : h # g => loop'[h] = loop[h]
  BY <1>1 DEF IInv, TypeOK, RoundEnds
<1>3. Queued' = Queued /\ Called' = Called BY <1>1 DEF Queued, Called, Elements
<1>4. Held(g) = batch[g] /\ Held(g)' = {} /\ \A h \in Generations : h # g => Held(h)' = Held(h)
  <2>1. Held(g) = batch[g] /\ undecided[g] = {} BY <1>1, BetweenRounds
  <2> QED BY <1>1, <1>2, <2>1 DEF Held
<1>5. \A q : Waits(q)' => Waits(q) /\ q \notin batch[g]
  BY <1>3, <1>4 DEF Waits, IInv, OnePlace
<1>6. live' = live BY <1>1 DEF service_vars
<1>7. Phases' /\ Tokens' /\ Active' = Active BY <1>1, <1>6, FailingKeepsTokens
<1>8. \A q \in Requests : fut'[q] = "pending" => fut[q] = "pending" BY <1>1, <1>6, FailingKeepsTokens
<1>9. \A q \in Requests : q \notin batch[g] => fut'[q] = fut[q] BY <1>1, <1>6, FailingKeepsTokens
<1>10. \A k \in 1 .. Len(ready) : ready[k].gen \in Generations /\ ready[k].gen # g
                                    /\ (ready[k].kind = "dispatch" => ready[k].req \in Requests)
  BY <1>1, BetweenRounds, ElementOfSeq, EventParts DEF IInv, TypeOK
<1>11. Swaps' BY <1>1, <1>2, <1>7, BetweenRounds DEF IInv, Swaps, service_vars
<1>12. Fresh' /\ ResultsLast' BY <1>1 DEF IInv, Fresh, ResultsLast, service_vars
<1>13. LoadsCountEveryPick' BY <1>1, <1>2, BetweenRounds DEF IInv, LoadsCountEveryPick
<1>14. OnePlace' BY <1>1, <1>3, <1>4 DEF IInv, OnePlace
<1>15. NotYetDecided'
  <2>1. UNCHANGED token BY <1>1 DEF KeepTokens
  <2> QED BY <1>5, <1>9, <2>1 DEF IInv, NotYetDecided, Waits
<1>16. Answers'
  <2>1. undecided[g] = {} BY <1>1, BetweenRounds
  <2>2. \A h \in Generations : undecided[h] \subseteq Requests BY DEF IInv, TypeOK
  <2> QED BY <1>1, <1>2, <1>8, <1>10, <2>1, <2>2 DEF IInv, Answers
<1>17. Batches'
  <2>1. \A h \in Generations : loop'[h] \notin {"estimating", "fetching", "scoring"}
    BY <1>1, <1>2, BetweenRounds DEF Alive
  <2> QED BY <2>1 DEF Batches
<1> QED BY <1>0, <1>7, <1>11, <1>12, <1>13, <1>14, <1>15, <1>16, <1>17 DEF IInv

LEMMA LoopFailedKeepsIInv ==
  ASSUME IInv, NEW g \in Generations, LoopFailed(g)
  PROVE  IInv'
<1>0. TypeOK' BY RoundTypeOK DEF IInv, RoundLoop
<1>1. /\ loop[g] = "raised" /\ loop' = [loop EXCEPT ![g] = "failed"]
      /\ FailRest(Elements(queue[g])) /\ queue' = [queue EXCEPT ![g] = <<>>] /\ KeepTokens
      /\ UNCHANGED <<pc, live, rb, applying, batch, undecided, scoring, ready, dispatch_error>>
  BY DEF LoopFailed
<1>2. /\ loop'[g] = "failed" /\ queue'[g] = <<>>
      /\ \A h \in Generations : h # g => loop'[h] = loop[h] /\ queue'[h] = queue[h]
  BY <1>1 DEF IInv, TypeOK
<1>3. Called' = Called /\ \A h \in Generations : Held(h)' = Held(h) BY <1>1, <1>2 DEF Called, Held
<1>4. Len(queue'[g]) = 0 BY <1>2
<1>5. \A h \in Generations : \A i \in 1 .. Len(queue'[h]) :
        h # g /\ i \in 1 .. Len(queue[h]) /\ queue'[h][i] = queue[h][i]
  BY <1>2, <1>4
<1>6. Queued' \subseteq Queued /\ Queued' \cap Elements(queue[g]) = {}
  <2>1. \A q : q \in Queued' <=> \E h \in Generations : \E i \in 1 .. Len(queue'[h]) : queue'[h][i] = q
    BY DEF Queued, Elements
  <2>2. Queued' \subseteq Queued BY <1>5, <2>1, InQueue
  <2>3. ASSUME NEW q \in Queued', q \in Elements(queue[g]) PROVE FALSE
    <3>1. PICK j \in 1 .. Len(queue[g]) : queue[g][j] = q BY <2>3 DEF Elements
    <3>2. PICK h \in Generations : \E i \in 1 .. Len(queue'[h]) : queue'[h][i] = q BY <2>1
    <3>3. PICK i \in 1 .. Len(queue'[h]) : queue'[h][i] = q BY <3>2
    <3>4. h # g /\ i \in 1 .. Len(queue[h]) /\ queue[h][i] = queue[g][j] BY <1>5, <3>1, <3>3
    <3>5. OnePlace BY DEF IInv
    <3> QED BY <3>4, <3>5 DEF OnePlace
  <2> QED BY <2>2, <2>3
<1>7. Elements(queue[g]) \subseteq Queued BY DEF Queued
<1>8. \A q : Waits(q)' => Waits(q) /\ q \notin Elements(queue[g])
  BY <1>3, <1>6, <1>7 DEF Waits, IInv, OnePlace
<1>9. Phases' /\ Tokens' /\ Active' = Active BY <1>1, FailingKeepsTokens
<1>10. \A q \in Requests : (fut'[q] = "pending" => fut[q] = "pending") /\ (fut[q] # "none" => fut'[q] # "none")
  BY <1>1, FailingKeepsTokens
<1>11. \A q \in Requests : q \notin Elements(queue[g]) => fut'[q] = fut[q] BY <1>1, FailingKeepsTokens
<1>12. Swaps' BY <1>1, <1>2, <1>9 DEF IInv, Swaps, Alive
<1>13. Fresh' /\ ResultsLast' BY <1>1, <1>2 DEF IInv, Fresh, ResultsLast
<1>14. LoadsCountEveryPick' BY <1>1, <1>2 DEF IInv, LoadsCountEveryPick
<1>15. OnePlace'
  <2>1. \A h1, h2 \in Generations : \A i \in 1 .. Len(queue'[h1]), j \in 1 .. Len(queue'[h2]) :
          queue'[h1][i] = queue'[h2][j] => h1 = h2 /\ i = j
    BY <1>5 DEF IInv, OnePlace
  <2> QED BY <1>1, <1>3, <1>6, <2>1 DEF IInv, OnePlace
<1>16. NotYetDecided'
  <2>1. UNCHANGED token BY <1>1 DEF KeepTokens
  <2> QED BY <1>8, <1>11, <2>1 DEF IInv, NotYetDecided, Waits
<1>17. Answers'
  <2>1. \A h \in Generations : undecided[h] \subseteq Requests BY DEF IInv, TypeOK
  <2>2. \A k \in 1 .. Len(ready) : ready[k].gen \in Generations
                                     /\ (ready[k].kind = "dispatch" => ready[k].req \in Requests)
    BY ElementOfSeq, EventParts DEF IInv, TypeOK
  <2>3. \A h \in Generations : loop[h] = "scoring" => loop'[h] = "scoring" BY <1>1, <1>2
  <2> QED BY <1>1, <1>10, <2>1, <2>2, <2>3 DEF IInv, Answers
<1>18. Batches'
  <2>1. \A h \in Generations : batch[h] \subseteq Requests BY DEF IInv, TypeOK
  <2> QED BY <1>1, <1>2, <1>3, <1>6, <1>10, <2>1 DEF IInv, Batches
<1> QED BY <1>0, <1>9, <1>12, <1>13, <1>14, <1>15, <1>16, <1>17, <1>18 DEF IInv

-----------------------------------------------------------------------------
(* The steps of a scoring thread, and the callbacks *)

\* A scoring thread's generation has begun, and its loop waits for it or has ended.
LEMMA WhileScoring ==
  ASSUME IInv, NEW g \in Generations, scoring[g]
  PROVE  /\ g <= live /\ live \in Nat /\ g \in Nat
         /\ loop[g] \notin {"collecting", "estimating", "fetching"}
         /\ Held(g) = undecided[g]
         /\ \A k \in 1 .. Len(ready) : ready[k].kind = "result" => ready[k].gen # g
<1>1. live \in Nat /\ g \in Nat BY ServiceAssumption DEF IInv, TypeOK, Generations
<1>2. ~(g > live) BY DEF IInv, Fresh
<1>3. loop[g] \notin {"collecting", "estimating", "fetching"} BY DEF IInv, LoadsCountEveryPick
<1>4. \A k \in 1 .. Len(ready) : ready[k].kind = "result" => ready[k].gen # g BY DEF IInv, ResultsLast
<1> QED BY <1>1, <1>2, <1>3, <1>4 DEF Held

LEMMA DecidesKeepsIInv ==
  ASSUME IInv, NEW g \in Generations, Decides(g)
  PROVE  IInv'
<1>0. TypeOK' BY RoundTypeOK DEF IInv, Thread
<1>1. PICK r \in undecided[g] :
        /\ undecided' = [undecided EXCEPT ![g] = @ \ {r}]
        /\ ready' = Append(ready, [kind |-> "dispatch", gen |-> g, req |-> r])
  BY DEF Decides
<1>2. scoring[g] /\ UNCHANGED <<queue, loop, batch, scoring, dispatch_error>>
      /\ UNCHANGED request_vars /\ UNCHANGED service_vars
  BY DEF Decides
<1>3. /\ undecided'[g] = undecided[g] \ {r}
      /\ \A h \in Generations : h # g => undecided'[h] = undecided[h]
  BY <1>1 DEF IInv, TypeOK
<1>4. r \in Requests BY DEF IInv, TypeOK
<1> DEFINE n == Len(ready)
           e == [kind |-> "dispatch", gen |-> g, req |-> r]
<1>5. e \in Events /\ e.kind = "dispatch" /\ e.gen = g /\ e.req = r BY <1>4 DEF Events
<1>6. n \in Nat /\ Len(ready') = n + 1 /\ ready'[n + 1] = e /\ \A k \in 1 .. n : ready'[k] = ready[k]
  <2>1. ready \in Seq(Events) BY DEF IInv, TypeOK
  <2> QED BY <1>1, <1>5, <2>1, Appended
<1> HIDE DEF n, e
<1>7. \A k \in 1 .. Len(ready') : k \in 1 .. n \/ k = n + 1 BY <1>6
<1>8. \A k \in 1 .. n : k \in 1 .. Len(ready') BY <1>6
<1>9. \A q : q \in Called' <=> q \in Called \/ q = r
  <2>1. \A q : q \in Called' <=> \E k \in 1 .. Len(ready') : ready'[k].kind = "dispatch" /\ ready'[k].req = q
    BY DEF Called
  <2>2. n + 1 \in 1 .. Len(ready') BY <1>6
  <2>3. \A q : q \in Called => q \in Called' BY <1>6, <1>8, <2>1, InCalled DEF n
  <2>4. r \in Called' BY <1>5, <1>6, <2>1, <2>2
  <2>5. \A q : q \in Called' => q \in Called \/ q = r BY <1>5, <1>6, <1>7, <2>1, InCalled DEF n
  <2> QED BY <2>3, <2>4, <2>5
<1>10. /\ Queued' = Queued /\ r \in Held(g) /\ Held(g)' = Held(g) \ {r}
       /\ \A h \in Generations : h # g => Held(h)' = Held(h)
  BY <1>2, <1>3, WhileScoring DEF Queued, Elements, Held
<1>11. r \notin Called /\ r \notin Queued /\ (\A h \in Generations : h # g => r \notin Held(h))
  BY <1>10 DEF IInv, OnePlace
<1>12. \A q : Waits(q)' => Waits(q) BY <1>9, <1>10 DEF Waits
<1>13. Phases' /\ Tokens' /\ Swaps'
  BY <1>2 DEF IInv, Phases, Tokens, Outstanding, Swaps, Active, request_vars, service_vars
<1>14. Fresh'
  <2>1. \A h \in Generations : h > live => h # g BY <1>2, WhileScoring
  <2> QED BY <1>2, <1>5, <1>6, <1>7, <2>1 DEF IInv, Fresh, service_vars, n
<1>15. ResultsLast'
  <2>1. \A h \in Generations : ~scoring'[h] => undecided'[h] = {} BY <1>2, <1>3 DEF IInv, ResultsLast
  <2>2. \A k \in 1 .. Len(ready') : ready'[k].kind = "result" => ~scoring'[ready'[k].gen]
    BY <1>2, <1>5, <1>6, <1>7 DEF IInv, ResultsLast, n
  <2>3. \A j, k \in 1 .. Len(ready') : j < k /\ ready'[j].kind = "result" => ready'[j].gen # ready'[k].gen
    <3> SUFFICES ASSUME NEW j \in 1 .. Len(ready'), NEW k \in 1 .. Len(ready'), j < k, ready'[j].kind = "result"
                 PROVE  ready'[j].gen # ready'[k].gen
      OBVIOUS
    <3>1. j \in 1 .. n BY <1>6, <1>7
    <3>2. CASE k \in 1 .. n BY <1>6, <3>1, <3>2 DEF IInv, ResultsLast, n
    <3>3. CASE k = n + 1
      <4>1. ready[j].gen # g BY <1>2, <1>6, <3>1, WhileScoring DEF n
      <4> QED BY <1>5, <1>6, <3>1, <3>3, <4>1
    <3> QED BY <1>7, <3>2, <3>3
  <2> QED BY <2>1, <2>2, <2>3 DEF ResultsLast
<1>16. LoadsCountEveryPick'
  <2>1. loop[g] \notin {"collecting", "estimating", "fetching"} BY <1>2, WhileScoring
  <2> QED BY <1>2, <1>5, <1>6, <1>7, <2>1 DEF IInv, LoadsCountEveryPick, n
<1>17. OnePlace'
  <2>1. \A j, k \in 1 .. Len(ready') :
          ready'[j].kind = "dispatch" /\ ready'[k].kind = "dispatch" /\ ready'[j].req = ready'[k].req => j = k
    <3>1. \A k \in 1 .. n : ready[k].kind = "dispatch" => ready[k].req # r BY <1>11, InCalled DEF n
    <3> QED BY <1>5, <1>6, <1>7, <3>1 DEF IInv, OnePlace, n
  <2>2. \A h \in Generations : Held(h)' \cap (Queued' \cup Called') = {}
    BY <1>9, <1>10, <1>11 DEF IInv, OnePlace
  <2>3. Queued' \cap Called' = {} BY <1>9, <1>10, <1>11 DEF IInv, OnePlace
  <2>4. \A h1, h2 \in Generations : h1 # h2 => Held(h1)' \cap Held(h2)' = {} BY <1>10 DEF IInv, OnePlace
  <2> QED BY <1>2, <2>1, <2>2, <2>3, <2>4 DEF IInv, OnePlace
<1>18. Batches'
  <2>1. ASSUME NEW h \in Generations, loop'[h] \in {"estimating", "fetching", "scoring"}, NEW q \in batch'[h],
               NEW k \in 1 .. Len(ready'), ready'[k].kind = "dispatch", ready'[k].req = q
        PROVE  ready'[k].gen = h
    <3>1. CASE k \in 1 .. n BY <1>2, <1>6, <2>1, <3>1 DEF IInv, Batches, n
    <3>2. CASE k = n + 1
      <4>1. q = r /\ ready'[k].gen = g BY <1>5, <1>6, <2>1, <3>2
      <4> QED BY <1>2, <1>10, <2>1, <4>1 DEF IInv, Batches
    <3> QED BY <1>7, <3>1, <3>2
  <2>2. \A h, o \in Generations : o # h => (\A q : q \notin Held(o) => q \notin Held(o)') BY <1>10
  <2> QED BY <1>2, <1>10, <2>1, <2>2 DEF IInv, Batches, request_vars
<1>19. NotYetDecided' BY <1>2, <1>12 DEF IInv, NotYetDecided, Waits, request_vars
<1>20. Answers'
  <2>1. \A k \in 1 .. Len(ready') :
          ready'[k].kind = "dispatch" /\ fut[ready'[k].req] = "pending" => loop[ready'[k].gen] = "scoring"
    BY <1>5, <1>6, <1>7 DEF IInv, Answers, n
  <2>2. \A h \in Generations : undecided'[h] \subseteq undecided[h] BY <1>3
  <2> QED BY <1>2, <2>1, <2>2 DEF IInv, Answers, request_vars
<1> QED BY <1>0, <1>13, <1>14, <1>15, <1>16, <1>17, <1>18, <1>19, <1>20 DEF IInv

LEMMA ScoringEndsKeepsIInv ==
  ASSUME IInv, NEW g \in Generations, ScoringEnds(g)
  PROVE  IInv'
<1>0. TypeOK' BY RoundTypeOK DEF IInv, Thread
<1> DEFINE n == Len(ready)
           e == [kind |-> "result", gen |-> g, ok |-> undecided[g] = {}]
<1>1. /\ scoring[g] /\ scoring' = [scoring EXCEPT ![g] = FALSE]
      /\ undecided' = [undecided EXCEPT ![g] = {}]
      /\ ready' = Append(ready, e)
      /\ UNCHANGED <<queue, loop, batch, dispatch_error>> /\ UNCHANGED request_vars /\ UNCHANGED service_vars
  BY DEF ScoringEnds
<1>2. /\ undecided'[g] = {} /\ ~scoring'[g]
      /\ \A h \in Generations : h # g => undecided'[h] = undecided[h] /\ scoring'[h] = scoring[h]
  BY <1>1 DEF IInv, TypeOK
<1>3. e \in Events /\ e.kind = "result" /\ e.gen = g BY DEF Events
<1>4. n \in Nat /\ Len(ready') = n + 1 /\ ready'[n + 1] = e /\ \A k \in 1 .. n : ready'[k] = ready[k]
  <2>1. ready \in Seq(Events) BY DEF IInv, TypeOK
  <2> QED BY <1>1, <1>3, <2>1, Appended
<1> HIDE DEF n, e
<1>5. \A k \in 1 .. Len(ready') : k \in 1 .. n \/ k = n + 1 BY <1>4
<1>6. \A k \in 1 .. n : k \in 1 .. Len(ready') BY <1>4
<1>7. Called' = Called
  <2>1. \A q : q \in Called' <=> \E k \in 1 .. Len(ready') : ready'[k].kind = "dispatch" /\ ready'[k].req = q
    BY DEF Called
  <2>2. \A q : q \in Called => q \in Called' BY <1>4, <1>6, <2>1, InCalled DEF n
  <2>3. \A q : q \in Called' => q \in Called BY <1>3, <1>4, <1>5, <2>1, InCalled DEF n
  <2> QED BY <2>2, <2>3
<1>8. /\ Queued' = Queued /\ Held(g)' = {}
      /\ \A h \in Generations : h # g => Held(h)' = Held(h)
  BY <1>1, <1>2, WhileScoring DEF Queued, Elements, Held
<1>9. \A q : Waits(q)' => Waits(q) BY <1>7, <1>8 DEF Waits
<1>10. Phases' /\ Tokens' /\ Swaps'
  BY <1>1 DEF IInv, Phases, Tokens, Outstanding, Swaps, Active, request_vars, service_vars
<1>11. Fresh'
  <2>1. \A h \in Generations : h > live => h # g BY <1>1, WhileScoring
  <2> QED BY <1>1, <1>2, <1>3, <1>4, <1>5, <2>1 DEF IInv, Fresh, service_vars, n
<1>12. ResultsLast'
  <2>1. \A h \in Generations : ~scoring'[h] => undecided'[h] = {} BY <1>2 DEF IInv, ResultsLast
  <2>2. \A k \in 1 .. n : ready[k].gen \in Generations
    BY ElementOfSeq, EventParts DEF IInv, TypeOK, n
  <2>3. \A k \in 1 .. Len(ready') : ready'[k].kind = "result" => ~scoring'[ready'[k].gen]
    BY <1>2, <1>3, <1>4, <1>5, <2>2 DEF IInv, ResultsLast, n
  <2>4. \A j, k \in 1 .. Len(ready') : j < k /\ ready'[j].kind = "result" => ready'[j].gen # ready'[k].gen
    <3> SUFFICES ASSUME NEW j \in 1 .. Len(ready'), NEW k \in 1 .. Len(ready'), j < k, ready'[j].kind = "result"
                 PROVE  ready'[j].gen # ready'[k].gen
      OBVIOUS
    <3>1. j \in 1 .. n BY <1>4, <1>5
    <3>2. CASE k \in 1 .. n BY <1>4, <3>1, <3>2 DEF IInv, ResultsLast, n
    <3>3. CASE k = n + 1
      <4>1. ready[j].gen # g BY <1>1, <1>4, <3>1, WhileScoring DEF n
      <4> QED BY <1>3, <1>4, <3>1, <3>3, <4>1
    <3> QED BY <1>5, <3>2, <3>3
  <2> QED BY <2>1, <2>3, <2>4 DEF ResultsLast
<1>13. LoadsCountEveryPick'
  <2>1. loop[g] \notin {"collecting", "estimating", "fetching"} BY <1>1, WhileScoring
  <2> QED BY <1>1, <1>2, <1>3, <1>4, <1>5, <2>1 DEF IInv, LoadsCountEveryPick, n
<1>14. OnePlace'
  <2>1. \A j, k \in 1 .. Len(ready') :
          ready'[j].kind = "dispatch" /\ ready'[k].kind = "dispatch" /\ ready'[j].req = ready'[k].req => j = k
    BY <1>3, <1>4, <1>5 DEF IInv, OnePlace, n
  <2> QED BY <1>1, <1>7, <1>8, <2>1 DEF IInv, OnePlace
<1>15. Batches'
  <2>1. \A k \in 1 .. Len(ready') : ready'[k].kind = "dispatch" => k \in 1 .. n /\ ready'[k] = ready[k]
    BY <1>3, <1>4, <1>5
  <2>2. \A h \in Generations : \A q : q \notin Held(h) => q \notin Held(h)' BY <1>8
  <2> QED BY <1>1, <1>8, <2>1, <2>2 DEF IInv, Batches, request_vars, n
<1>16. NotYetDecided' BY <1>1, <1>9 DEF IInv, NotYetDecided, Waits, request_vars
<1>17. Answers'
  <2>1. \A k \in 1 .. Len(ready') :
          ready'[k].kind = "dispatch" /\ fut[ready'[k].req] = "pending" => loop[ready'[k].gen] = "scoring"
    BY <1>3, <1>4, <1>5 DEF IInv, Answers, n
  <2>2. \A h \in Generations : undecided'[h] \subseteq undecided[h] BY <1>2
  <2> QED BY <1>1, <2>1, <2>2 DEF IInv, Answers, request_vars
<1> QED BY <1>0, <1>10, <1>11, <1>12, <1>13, <1>14, <1>15, <1>16, <1>17 DEF IInv

\* The oldest callback leaves the FIFO.
LEMMA OldestLeaves ==
  ASSUME IInv, ready # <<>>, ready' = Tail(ready)
  PROVE  /\ Len(ready) \in Nat \ {0} /\ Len(ready') = Len(ready) - 1
         /\ Head(ready) = ready[1] /\ Head(ready) \in Events /\ 1 \in 1 .. Len(ready)
         /\ \A k \in 1 .. Len(ready') : k \in Nat /\ k + 1 \in 1 .. Len(ready) /\ ready'[k] = ready[k + 1]
         /\ \A q : q \in Called' => q \in Called
<1>1. ready \in Seq(Events) BY DEF IInv, TypeOK
<1> DEFINE n == Len(ready)
<1>2. /\ n \in Nat \ {0} /\ Len(ready') = n - 1 /\ Head(ready) = ready[1] /\ Head(ready) \in Events
      /\ \A k \in 1 .. n - 1 : ready'[k] = ready[k + 1]
  BY <1>1, Tailed
<1> HIDE DEF n
<1>3. \A k \in 1 .. Len(ready') : k \in Nat /\ k + 1 \in 1 .. n /\ ready'[k] = ready[k + 1] BY <1>2
<1>4. \A q : q \in Called' <=> \E k \in 1 .. Len(ready') : ready'[k].kind = "dispatch" /\ ready'[k].req = q
  BY DEF Called
<1>5. \A q : q \in Called' => q \in Called BY <1>3, <1>4, InCalled DEF n
<1>6. 1 \in 1 .. n BY <1>2
<1> QED BY <1>2, <1>3, <1>5, <1>6 DEF n

\* What the shorter FIFO and unchanged loops keep.
LEMMA ShorterFifo ==
  ASSUME IInv, ready # <<>>, ready' = Tail(ready), UNCHANGED <<queue, undecided, scoring, batch>>, live' = live
  PROVE  /\ Fresh' /\ ResultsLast'
         /\ \A j, k \in 1 .. Len(ready') :
              ready'[j].kind = "dispatch" /\ ready'[k].kind = "dispatch" /\ ready'[j].req = ready'[k].req => j = k
<1>1. Fresh' BY OldestLeaves DEF IInv, Fresh
<1>2. ResultsLast'
  <2>1. \A k \in 1 .. Len(ready') : ready'[k].kind = "result" => ~scoring[ready'[k].gen]
    BY OldestLeaves DEF IInv, ResultsLast
  <2>2. \A j, k \in 1 .. Len(ready') : j < k /\ ready'[j].kind = "result" => ready'[j].gen # ready'[k].gen
    <3> SUFFICES ASSUME NEW j \in 1 .. Len(ready'), NEW k \in 1 .. Len(ready'), j < k, ready'[j].kind = "result"
                 PROVE  ready'[j].gen # ready'[k].gen
      OBVIOUS
    <3>1. /\ j + 1 \in 1 .. Len(ready) /\ ready'[j] = ready[j + 1] /\ j \in Nat
          /\ k + 1 \in 1 .. Len(ready) /\ ready'[k] = ready[k + 1] /\ k \in Nat
      BY OldestLeaves
    <3>2. j + 1 < k + 1 BY <3>1
    <3> QED BY <3>1, <3>2 DEF IInv, ResultsLast
  <2> QED BY <2>1, <2>2 DEF IInv, ResultsLast
<1>3. ASSUME NEW j \in 1 .. Len(ready'), NEW k \in 1 .. Len(ready'),
             ready'[j].kind = "dispatch", ready'[k].kind = "dispatch", ready'[j].req = ready'[k].req
      PROVE  j = k
  <2>1. /\ j + 1 \in 1 .. Len(ready) /\ ready'[j] = ready[j + 1] /\ j \in Nat
        /\ k + 1 \in 1 .. Len(ready) /\ ready'[k] = ready[k + 1] /\ k \in Nat
    BY <1>3, OldestLeaves
  <2>2. j + 1 = k + 1 BY <1>3, <2>1 DEF IInv, OnePlace
  <2> QED BY <2>1, <2>2
<1> QED BY <1>1, <1>2, <1>3

LEMMA RunDispatchKeepsIInv == ASSUME IInv, RunDispatch PROVE IInv'
<1>0. TypeOK' BY CallbackTypeOK DEF IInv, Callbacks
<1> DEFINE e == Head(ready)
           g == e.gen
           r == e.req
<1>1. /\ ready # <<>> /\ e.kind = "dispatch" /\ ready' = Tail(ready)
      /\ Dispatch(g, r) \/ DispatchFails(g, r)
      /\ UNCHANGED <<pc, gone, lines, queue, loop, batch, undecided, scoring>> /\ UNCHANGED service_vars
  BY DEF RunDispatch
<1>2. g \in Generations /\ r \in Requests /\ e = ready[1] /\ 1 \in 1 .. Len(ready)
  <2>1. e \in Events /\ e = ready[1] /\ 1 \in 1 .. Len(ready) BY <1>1, OldestLeaves
  <2> QED BY <1>1, <2>1, EventParts
<1>3. ready[1].kind = "dispatch" /\ ready[1].req = r /\ ready[1].gen = g BY <1>1, <1>2
<1> HIDE DEF e, g, r
<1>4. r \in Called BY <1>2, <1>3, InCalled
<1>5. fut[r] \in {"pending", "cancelled"} /\ token[r] = "none" BY <1>2, <1>4 DEF IInv, NotYetDecided
<1>6. fut[r] = "pending" => g = live BY <1>2, <1>3 DEF IInv, Answers, Swaps, Alive
<1>7. r \notin Queued /\ \A h \in Generations : r \notin Held(h) BY <1>4 DEF IInv, OnePlace
<1>8. r \notin Called'
  <2>1. \A k \in 1 .. Len(ready') : ready'[k].kind = "dispatch" => ready'[k].req # r
    <3> SUFFICES ASSUME NEW k \in 1 .. Len(ready'), ready'[k].kind = "dispatch", ready'[k].req = r PROVE FALSE
      OBVIOUS
    <3>1. k \in Nat /\ k + 1 \in 1 .. Len(ready) /\ ready'[k] = ready[k + 1] BY <1>1, OldestLeaves
    <3>2. k \in 1 .. Len(ready') /\ k # 0 BY OldestLeaves, <1>1
    <3>3. k + 1 # 1 BY <3>1, <3>2
    <3> QED BY <1>2, <1>3, <3>1, <3>3 DEF IInv, OnePlace
  <2> QED BY <2>1 DEF Called
<1>9. /\ Queued' = Queued /\ (\A h \in Generations : Held(h)' = Held(h))
      /\ \A q : q \in Called' => q \in Called
  BY <1>1, OldestLeaves DEF Queued, Elements, Held
<1>10. \A q : Waits(q)' => Waits(q) /\ q # r BY <1>7, <1>8, <1>9 DEF Waits
\* What becomes of the request's future and token.
<1>11. \A q \in Requests : q # r => fut'[q] = fut[q] /\ token'[q] = token[q] /\ view'[q] = view[q]
  BY <1>1 DEF Dispatch, DispatchFails, Record, KeepTokens, IInv, TypeOK
<1>12. misclosed' = misclosed BY <1>1 DEF Dispatch, DispatchFails, Record, KeepTokens
<1>13. \A h \in Generations : dispatch_error[h] => dispatch_error'[h]
  BY <1>1 DEF Dispatch, DispatchFails, IInv, TypeOK
<1>14. \/ fut[r] = "pending" /\ fut'[r] = "assigned" /\ token'[r] = "open" /\ view'[r] = g
       \/ fut'[r] = "cancelled" /\ token'[r] = "closed"
       \/ fut'[r] \in {"failed", "cancelled"} /\ token'[r] = "open" /\ view'[r] = g /\ dispatch_error'[g]
       \/ fut'[r] \in {"failed", "cancelled"} /\ token'[r] = "none"
  <2>1. CASE Dispatch(g, r) BY <1>2, <1>5, <2>1 DEF Dispatch, Record, IInv, TypeOK
  <2>2. CASE DispatchFails(g, r)
    <3>1. fut'[r] \in {"failed", "cancelled"} /\ dispatch_error'[g]
      BY <1>2, <1>5, <2>2 DEF DispatchFails, IInv, TypeOK
    <3>2. (token'[r] = "open" /\ view'[r] = g) \/ token'[r] = "none"
      BY <1>2, <1>5, <2>2 DEF DispatchFails, Record, KeepTokens, IInv, TypeOK
    <3> QED BY <3>1, <3>2
  <2> QED BY <1>1, <2>1, <2>2
<1>15. live' = live /\ applying' = applying /\ rb' = rb BY <1>1 DEF service_vars
<1>16. Phases'
  <2>1. (fut[r] = "pending" => pc[r] = "round") /\ pc[r] \notin {"new", "select", "serving"}
    BY <1>2, <1>5 DEF IInv, Phases
  <2> QED BY <1>1, <1>11, <1>14, <2>1 DEF IInv, Phases
<1>17. Swaps' BY <1>1, <1>15 DEF IInv, Swaps, Active
<1>18. Fresh' /\ ResultsLast' BY <1>1, <1>15, ShorterFifo
<1>19. LoadsCountEveryPick' BY <1>1, OldestLeaves DEF IInv, LoadsCountEveryPick
<1>20. OnePlace'
  <2>1. \A j, k \in 1 .. Len(ready') :
          ready'[j].kind = "dispatch" /\ ready'[k].kind = "dispatch" /\ ready'[j].req = ready'[k].req => j = k
    BY <1>1, <1>15, ShorterFifo
  <2> QED BY <1>1, <1>9, <2>1 DEF IInv, OnePlace
<1>21. Batches'
  <2>1. \A q \in Requests : fut[q] # "none" => fut'[q] # "none" BY <1>11, <1>14
  <2>2. \A h \in Generations : batch[h] \subseteq Requests BY DEF IInv, TypeOK
  <2> QED BY <1>1, <1>9, <2>1, <2>2, OldestLeaves DEF IInv, Batches
<1>22. NotYetDecided' BY <1>10, <1>11 DEF IInv, NotYetDecided, Waits
<1>23. Answers'
  <2>1. \A q \in Requests : fut'[q] = "pending" => fut[q] = "pending" BY <1>11, <1>14
  <2>2. \A h \in Generations : undecided[h] \subseteq Requests BY DEF IInv, TypeOK
  <2>3. \A k \in 1 .. Len(ready') : ready'[k].kind = "dispatch" => ready'[k].req \in Requests
    BY <1>0, ElementOfSeq, EventParts DEF TypeOK
  <2>4. \A k \in 1 .. Len(ready') :
          ready'[k].kind = "dispatch" /\ fut'[ready'[k].req] = "pending" => loop[ready'[k].gen] = "scoring"
    BY <1>1, <2>1, <2>3, OldestLeaves DEF IInv, Answers
  <2> QED BY <1>1, <2>1, <2>2, <2>4 DEF IInv, Answers
<1>24. Tokens'
  <2>1. ~misclosed' BY <1>12 DEF IInv, Tokens
  <2>2. \A q \in Requests : q # r => (Outstanding(q)' <=> Outstanding(q)) BY <1>1, <1>11 DEF Outstanding
  <2>3. \A q \in Requests : q # r =>
          /\ Outstanding(q)' => token'[q] = "open" /\ view'[q] = live'
          /\ token'[q] = "open" => view'[q] \in Generations /\ (Outstanding(q)' \/ dispatch_error'[view'[q]])
    BY <1>11, <1>13, <1>15, <2>2 DEF IInv, Tokens
  <2>4. pc[r] # "serving" /\ (fut[r] = "pending" => pc[r] = "round") BY <1>2, <1>5 DEF IInv, Phases
  <2>5. \A q \in Requests : q = r => (Outstanding(q)' <=> pc[r] = "round" /\ fut'[r] = "assigned")
    BY <1>1, <2>4 DEF Outstanding
  <2>6. \A q \in Requests : q = r =>
          /\ Outstanding(q)' => token'[q] = "open" /\ view'[q] = live'
          /\ token'[q] = "open" => view'[q] \in Generations /\ (Outstanding(q)' \/ dispatch_error'[view'[q]])
    BY <1>2, <1>6, <1>14, <1>15, <2>4, <2>5
  <2> QED BY <2>1, <2>3, <2>6 DEF Tokens
<1> QED BY <1>0, <1>16, <1>17, <1>18, <1>19, <1>20, <1>21, <1>22, <1>23, <1>24 DEF IInv

LEMMA RunResultKeepsIInv == ASSUME IInv, RunResult PROVE IInv'
<1>0. TypeOK' BY CallbackTypeOK DEF IInv, Callbacks
<1>1. PICK g \in Generations : g = Head(ready).gen
  <2>1. ready # <<>> /\ ready' = Tail(ready) BY DEF RunResult
  <2> QED BY <2>1, OldestLeaves, EventParts
<1>2. /\ ready # <<>> /\ ready' = Tail(ready) /\ ready[1].kind = "result" /\ ready[1].gen = g
      /\ 1 \in 1 .. Len(ready) /\ KeepTokens
      /\ UNCHANGED <<pc, queue, batch, undecided, scoring, dispatch_error>> /\ UNCHANGED service_vars
  <2>1. /\ ready # <<>> /\ ready' = Tail(ready) /\ Head(ready).kind = "result" /\ KeepTokens
        /\ UNCHANGED <<pc, queue, batch, undecided, scoring, dispatch_error>> /\ UNCHANGED service_vars
    BY DEF RunResult
  <2> QED BY <1>1, <2>1, OldestLeaves
<1>3. IF loop[g] = "scoring" THEN RoundEnds(g) /\ (UNCHANGED fut \/ FailRest(batch[g])) ELSE UNCHANGED <<loop, fut>>
  BY <1>1 DEF RunResult
<1>4. live' = live BY <1>2 DEF service_vars
\* The thread has ended, and its result is the last callback of its generation.
<1>5. ~scoring[g] /\ undecided[g] = {} BY <1>2 DEF IInv, ResultsLast
<1>6. \A k \in 1 .. Len(ready') :
        /\ k + 1 \in 1 .. Len(ready) /\ ready'[k] = ready[k + 1] /\ ready'[k].gen # g /\ ready'[k].gen \in Generations
        /\ ready'[k].kind = "dispatch" => ready'[k].req \in Requests
  <2> SUFFICES ASSUME NEW k \in 1 .. Len(ready')
               PROVE  /\ k + 1 \in 1 .. Len(ready) /\ ready'[k] = ready[k + 1] /\ ready'[k].gen # g
                      /\ ready'[k].gen \in Generations
                      /\ ready'[k].kind = "dispatch" => ready'[k].req \in Requests
    OBVIOUS
  <2>1. k \in Nat /\ k + 1 \in 1 .. Len(ready) /\ ready'[k] = ready[k + 1] BY <1>2, OldestLeaves
  <2>2. 1 < k + 1 BY <1>2, <2>1, OldestLeaves
  <2>3. ready[k + 1].gen # g BY <1>2, <2>1, <2>2 DEF IInv, ResultsLast
  <2>4. ready'[k].gen \in Generations /\ (ready'[k].kind = "dispatch" => ready'[k].req \in Requests)
    BY <1>0, ElementOfSeq, EventParts DEF TypeOK
  <2> QED BY <2>1, <2>3, <2>4
<1>7. Fresh' /\ ResultsLast'
      /\ \A j, k \in 1 .. Len(ready') :
           ready'[j].kind = "dispatch" /\ ready'[k].kind = "dispatch" /\ ready'[j].req = ready'[k].req => j = k
  BY <1>2, <1>4, ShorterFifo
<1>8. Queued' = Queued /\ (\A q : q \in Called' => q \in Called)
  BY <1>2, OldestLeaves DEF Queued, Elements
<1>9. \A q : q \in Called' <=> \E k \in 1 .. Len(ready') : ready'[k].kind = "dispatch" /\ ready'[k].req = q
  BY DEF Called
<1>10. CASE loop[g] = "scoring"
  <2>1. loop'[g] \in {"raised", "collecting"} /\ \A h \in Generations : h # g => loop'[h] = loop[h]
    BY <1>3, <1>10 DEF IInv, TypeOK, RoundEnds
  <2>2. g = rb /\ g = live /\ applying # "swapping" /\ \A h \in Generations : h # g => loop[h] \notin Alive
    BY <1>10 DEF IInv, Swaps, Alive
  <2>3. \A h \in Generations : Held(h)' = Held(h) BY <1>2, <1>10, <2>1 DEF Held
  <2>4. Held(g) = {} BY <1>5, <1>10 DEF Held
  <2>5. \A q : Waits(q)' => Waits(q) /\ q \notin batch[g]
    <3>1. \A q \in Called' : q \notin batch[g] BY <1>6, <1>9, <1>10 DEF IInv, Batches
    <3>2. \A q \in batch[g] : q \notin Queued /\ \A h \in Generations : q \notin Held(h)
      BY <1>10, <2>4 DEF IInv, Batches
    <3> QED BY <1>8, <2>3, <3>1, <3>2 DEF Waits
  <2>6. /\ Phases' /\ Tokens' /\ Active' = Active
        /\ \A q \in Requests : fut'[q] = "pending" => fut[q] = "pending"
        /\ \A q \in Requests : q \notin batch[g] => fut'[q] = fut[q]
    <3>1. CASE UNCHANGED fut
      BY <1>2, <1>4, <3>1 DEF IInv, Phases, Tokens, Outstanding, Active, KeepTokens
    <3>2. CASE FailRest(batch[g]) BY <1>2, <1>4, <3>2, FailingKeepsTokens
    <3> QED BY <1>3, <1>10, <3>1, <3>2
  <2>7. Swaps' BY <1>2, <2>1, <2>2, <2>6 DEF IInv, Swaps, service_vars
  <2>8. LoadsCountEveryPick' BY <1>2, <1>5, <1>6, <2>1 DEF IInv, LoadsCountEveryPick
  <2>9. OnePlace' BY <1>2, <1>7, <1>8, <2>3 DEF IInv, OnePlace
  <2>10. NotYetDecided'
    <3>1. UNCHANGED token BY <1>2 DEF KeepTokens
    <3> QED BY <2>5, <2>6, <3>1 DEF IInv, NotYetDecided, Waits
  <2>11. Answers'
    <3>1. \A h \in Generations : undecided[h] \subseteq Requests BY DEF IInv, TypeOK
    <3> QED BY <1>2, <1>5, <1>6, <2>1, <2>6, <3>1 DEF IInv, Answers
  <2>12. Batches'
    <3>1. \A h \in Generations : loop'[h] \notin {"estimating", "fetching", "scoring"}
      BY <2>1, <2>2 DEF Alive
    <3> QED BY <3>1 DEF Batches
  <2> QED BY <1>0, <1>7, <2>6, <2>7, <2>8, <2>9, <2>10, <2>11, <2>12 DEF IInv
<1>11. CASE loop[g] # "scoring"
  <2>1. UNCHANGED <<loop, fut>> BY <1>3, <1>11
  <2>2. \A h \in Generations : Held(h)' = Held(h) BY <1>2, <2>1 DEF Held
  <2>3. \A q : Waits(q)' => Waits(q) BY <1>8, <2>2 DEF Waits
  <2>4. Phases' /\ Tokens' BY <1>2, <1>4, <2>1 DEF IInv, Phases, Tokens, Outstanding, KeepTokens
  <2>5. Swaps' BY <1>2, <2>1 DEF IInv, Swaps, Active, service_vars
  <2>6. LoadsCountEveryPick' BY <1>2, <1>6, <2>1 DEF IInv, LoadsCountEveryPick
  <2>7. OnePlace' BY <1>2, <1>7, <1>8, <2>2 DEF IInv, OnePlace
  <2>8. NotYetDecided' BY <1>2, <2>1, <2>3 DEF IInv, NotYetDecided, Waits, KeepTokens
  <2>9. Answers' BY <1>2, <1>6, <2>1 DEF IInv, Answers
  <2>10. Batches' BY <1>2, <1>6, <1>8, <2>1, <2>2 DEF IInv, Batches
  <2> QED BY <1>0, <1>7, <2>4, <2>5, <2>6, <2>7, <2>8, <2>9, <2>10 DEF IInv
<1> QED BY <1>10, <1>11

-----------------------------------------------------------------------------
(* The steps of apply *)

\* While nothing is active no request waits for an answer or counts as in flight.
LEMMA NobodyWaits ==
  ASSUME IInv, Active = {}
  PROVE  \A r \in Requests : fut[r] # "pending" /\ ~Outstanding(r)
BY DEF IInv, Phases, Outstanding, Active

\* Nothing that concerns a request or waits for a callback moves.
LEMMA ApplyKeepsRequests ==
  ASSUME IInv, UNCHANGED request_vars, UNCHANGED <<queue, batch, ready, dispatch_error>>,
         Active = {},
         \A g \in Generations : Held(g)' \subseteq Held(g),
         \A g \in Generations : undecided'[g] \subseteq undecided[g]
  PROVE  /\ Phases' /\ OnePlace' /\ NotYetDecided' /\ Answers' /\ Tokens'
<1>1. Queued' = Queued /\ Called' = Called BY DEF Queued, Elements, Called
<1>2. \A q : Waits(q)' => Waits(q) BY <1>1 DEF Waits
<1>3. Phases' BY DEF IInv, Phases, request_vars
<1>4. OnePlace'
  <2>1. \A g, h \in Generations : g # h => Held(g)' \cap Held(h)' = {} BY DEF IInv, OnePlace
  <2>2. \A g \in Generations : Held(g)' \cap (Queued' \cup Called') = {} BY <1>1 DEF IInv, OnePlace
  <2> QED BY <1>1, <2>1, <2>2 DEF IInv, OnePlace
<1>5. NotYetDecided' BY <1>2 DEF IInv, NotYetDecided, Waits, request_vars
<1>6. Answers'
  <2>1. \A h \in Generations : undecided'[h] \subseteq Requests BY DEF IInv, TypeOK
  <2>2. \A k \in 1 .. Len(ready) : ready[k].kind = "dispatch" => ready[k].req \in Requests
    BY ElementOfSeq, EventParts DEF IInv, TypeOK
  <2>3. \A q \in Requests : fut'[q] # "pending" BY NobodyWaits DEF request_vars
  <2> QED BY <2>1, <2>2, <2>3 DEF Answers
<1>7. Tokens'
  <2>1. \A q \in Requests : ~Outstanding(q)' BY NobodyWaits DEF Outstanding, request_vars
  <2>2. \A q \in Requests : ~Outstanding(q) BY NobodyWaits
  <2> QED BY <2>1, <2>2 DEF IInv, Tokens, request_vars
<1> QED BY <1>3, <1>4, <1>5, <1>6, <1>7

LEMMA ApplyKeepsIInv == ASSUME IInv, Apply PROVE IInv'
<1>0. TypeOK' BY ApplyTypeOK DEF IInv
<1>1. UNCHANGED request_vars /\ UNCHANGED <<queue, batch, ready, dispatch_error>>
  BY DEF Apply, ApplyBegins, BuildFails, OldLoopStops, SwapToRounds, SwapToPipeline, SwapRaises, round_vars
<1>2. Active' = Active BY <1>1 DEF Active, request_vars
<1>3. Active = {} /\ live \in Nat
  <2>1. ApplyBegins \/ applying # "no"
    BY DEF Apply, BuildFails, OldLoopStops, SwapToRounds, SwapToPipeline, SwapRaises
  <2> QED BY <2>1 DEF ApplyBegins, IInv, Swaps, TypeOK, Generations
<1>4. CASE ApplyBegins \/ BuildFails
  <2>1. /\ UNCHANGED <<live, rb, loop, undecided, scoring>>
        /\ applying' = "no" \/ (applying' = "building" /\ live < MaxConfigs)
    BY <1>4 DEF ApplyBegins, BuildFails, round_vars
  <2>2. Swaps' BY <1>2, <1>3, <2>1 DEF IInv, Swaps
  <2>3. Fresh' /\ ResultsLast' /\ LoadsCountEveryPick'
    BY <1>1, <2>1 DEF IInv, Fresh, ResultsLast, LoadsCountEveryPick
  <2>4. \A g \in Generations : Held(g)' = Held(g) BY <1>1, <2>1 DEF Held
  <2>5. Phases' /\ OnePlace' /\ NotYetDecided' /\ Answers' /\ Tokens'
    BY <1>1, <1>3, <2>1, <2>4, ApplyKeepsRequests
  <2>6. Queued' = Queued BY <1>1 DEF Queued, Elements
  <2>7. Batches' BY <1>1, <2>1, <2>4, <2>6 DEF IInv, Batches, request_vars
  <2> QED BY <1>0, <2>2, <2>3, <2>5, <2>7 DEF IInv
\* After the old loop has stopped, no loop is alive until the swap.
<1>5. CASE OldLoopStops
  <2>1. /\ applying = "building" /\ applying' = "swapping" /\ UNCHANGED <<live, rb>>
        /\ IF rb # 0 /\ loop[rb] \in Alive
           THEN /\ loop' = [loop EXCEPT ![rb] = "cancelled"]
                /\ \/ UNCHANGED <<undecided, scoring>>
                   \/ /\ undecided' = [undecided EXCEPT ![rb] = {}]
                      /\ scoring' = [scoring EXCEPT ![rb] = FALSE]
           ELSE UNCHANGED <<loop, undecided, scoring>>
    BY <1>5 DEF OldLoopStops, Alive
  <2>2. \A g \in Generations : loop'[g] \notin Alive
    <3> SUFFICES ASSUME NEW g \in Generations, loop'[g] \in Alive PROVE FALSE OBVIOUS
    <3>1. loop[g] \in Alive BY <2>1 DEF IInv, TypeOK, Alive
    <3>2. g = rb /\ rb # 0 BY <3>1 DEF IInv, Swaps, Generations
    <3>3. loop'[g] = "cancelled" BY <2>1, <3>1, <3>2 DEF IInv, TypeOK
    <3> QED BY <3>3 DEF Alive
  <2>3. \A g \in Generations :
          /\ undecided'[g] \in {undecided[g], {}} /\ (scoring'[g] => scoring[g])
          /\ ~scoring'[g] => undecided'[g] = {} \/ ~scoring[g]
    BY <2>1 DEF IInv, TypeOK
  <2>4. \A g \in Generations : Held(g)' \subseteq Held(g)
    BY <2>2, <2>3 DEF Held, Alive
  <2>5. \A k \in 1 .. Len(ready) : ready[k].gen \in Generations BY ElementOfSeq, EventParts DEF IInv, TypeOK
  <2>6. Swaps'
    <3>1. live < MaxConfigs /\ rb <= live BY <2>1 DEF IInv, Swaps
    <3> QED BY <1>2, <1>3, <2>1, <2>2, <3>1 DEF Swaps
  <2>7. Fresh' BY <1>1, <2>1, <2>3 DEF IInv, Fresh
  <2>8. ResultsLast' BY <1>1, <2>3, <2>5 DEF IInv, ResultsLast
  <2>9. LoadsCountEveryPick' BY <2>2 DEF LoadsCountEveryPick, Alive
  <2>10. Phases' /\ OnePlace' /\ NotYetDecided' /\ Answers' /\ Tokens'
    BY <1>1, <1>3, <2>3, <2>4, ApplyKeepsRequests
  <2>11. Batches' BY <2>2 DEF Batches, Alive
  <2> QED BY <1>0, <2>6, <2>7, <2>8, <2>9, <2>10, <2>11 DEF IInv
<1>6. CASE SwapToRounds \/ SwapToPipeline \/ SwapRaises
  <2>1. /\ applying = "swapping" /\ applying' = "no" /\ live' = live + 1 /\ rb' \in {live', 0, rb}
        /\ UNCHANGED <<undecided, scoring>>
        /\ loop' = loop \/ (rb' = live' /\ loop' = [loop EXCEPT ![live'] = "collecting"])
    BY <1>6 DEF SwapToRounds, SwapToPipeline, SwapRaises, round_vars
  <2>2. \A g \in Generations : loop[g] \notin Alive BY <2>1 DEF IInv, Swaps
  <2>3. live' \in Generations BY <1>0 DEF TypeOK
  <2>4. \A g \in Generations : loop'[g] = loop[g] \/ (g = live' /\ rb' = live' /\ loop'[g] = "collecting")
    BY <2>1, <2>3 DEF IInv, TypeOK
  <2>5. Swaps'
    <3>1. rb <= live /\ rb \in Int BY DEF IInv, Swaps, TypeOK
    <3>2. rb' <= live' BY <1>3, <2>1, <3>1
    <3> QED BY <2>1, <2>2, <2>4, <3>2 DEF Swaps
  <2>6. \A g \in Generations : g > live' \/ g = live' => g > live BY <1>3, <2>1 DEF Generations
  <2>7. Fresh' BY <1>1, <2>1, <2>6 DEF IInv, Fresh
  <2>8. ResultsLast' BY <1>1, <2>1 DEF IInv, ResultsLast
  <2>9. LoadsCountEveryPick'
    <3>1. ~scoring[live'] /\ \A k \in 1 .. Len(ready) : ready[k].gen # live'
      BY <2>3, <2>6 DEF IInv, Fresh
    <3> QED BY <1>1, <2>1, <2>2, <2>4, <3>1 DEF LoadsCountEveryPick, Alive
  <2>10. \A g \in Generations : Held(g)' \subseteq Held(g) BY <2>1, <2>2, <2>4 DEF Held, Alive
  <2>11. Phases' /\ OnePlace' /\ NotYetDecided' /\ Answers' /\ Tokens'
    BY <1>1, <1>3, <2>1, <2>10, ApplyKeepsRequests
  <2>12. Batches' BY <2>2, <2>4 DEF Batches, Alive
  <2> QED BY <1>0, <2>5, <2>7, <2>8, <2>9, <2>11, <2>12 DEF IInv
<1> QED BY <1>4, <1>5, <1>6 DEF Apply

-----------------------------------------------------------------------------

LEMMA InitIInv == Init => IInv
<1> SUFFICES ASSUME Init PROVE IInv OBVIOUS
<1>1. TypeOK BY InitTypeOK
<1>2. /\ pc = [r \in Requests |-> "new"] /\ fut = [r \in Requests |-> "none"]
      /\ token = [r \in Requests |-> "none"] /\ misclosed = FALSE
      /\ live = 1 /\ rb \in {0, 1} /\ applying = "no" /\ ready = <<>>
      /\ queue = [g \in Generations |-> <<>>]
      /\ loop = [g \in Generations |-> IF g = rb THEN "collecting" ELSE "none"]
      /\ undecided = [g \in Generations |-> {}] /\ scoring = [g \in Generations |-> FALSE]
  BY DEF Init
<1>3. /\ \A g \in Generations : queue[g] = <<>> /\ ~scoring[g] /\ undecided[g] = {}
      /\ \A g \in Generations : loop[g] \in {"collecting", "none"} /\ (loop[g] = "collecting" => g = 1 /\ g = rb)
      /\ \A r \in Requests : pc[r] = "new" /\ fut[r] = "none" /\ token[r] = "none"
  <2>1. \A g \in Generations : queue[g] = <<>> /\ ~scoring[g] /\ undecided[g] = {} BY <1>2
  <2>2. \A g \in Generations : g # 0 BY DEF Generations
  <2>3. \A g \in Generations : loop[g] = IF g = rb THEN "collecting" ELSE "none" BY <1>2
  <2>4. \A r \in Requests : pc[r] = "new" /\ fut[r] = "none" /\ token[r] = "none" BY <1>2
  <2>5. \A g \in Generations : g = rb => g = 1 BY <1>2, <2>2
  <2> QED BY <2>1, <2>3, <2>4, <2>5
<1>4. Len(ready) = 0 /\ \A g \in Generations : Len(queue[g]) = 0 BY <1>2, <1>3
<1>5. /\ \A k \in 1 .. Len(ready) : FALSE
      /\ \A g \in Generations : \A i \in 1 .. Len(queue[g]) : FALSE
  BY <1>4
<1>6. Called = {} /\ Queued = {} /\ \A g \in Generations : Held(g) = {}
  <2>1. Called = {} BY <1>5, InCalled
  <2>2. Queued = {} BY <1>5, InQueue
  <2>3. \A g \in Generations : Held(g) = {} BY <1>3 DEF Held
  <2> QED BY <2>1, <2>2, <2>3
<1>7. Phases /\ Tokens BY <1>2, <1>3 DEF Phases, Tokens, Outstanding
<1>8. Swaps BY <1>2, <1>3 DEF Swaps, Alive
<1>9. Fresh /\ ResultsLast /\ LoadsCountEveryPick BY <1>3, <1>5 DEF Fresh, ResultsLast, LoadsCountEveryPick
<1>10. OnePlace BY <1>5, <1>6 DEF OnePlace
<1>11. Batches /\ NotYetDecided /\ Answers BY <1>3, <1>5, <1>6 DEF Batches, NotYetDecided, Answers
<1> QED BY <1>1, <1>7, <1>8, <1>9, <1>10, <1>11 DEF IInv

LEMMA StutterKeepsIInv == ASSUME IInv, UNCHANGED vars PROVE IInv'
<1>1. UNCHANGED request_vars /\ UNCHANGED service_vars /\ UNCHANGED round_vars BY DEF vars
<1>2. TypeOK' BY <1>1 DEF IInv, TypeOK, request_vars, service_vars, round_vars
<1>3. Phases' /\ Swaps' /\ Tokens' /\ Fresh' /\ ResultsLast' /\ LoadsCountEveryPick'
  BY <1>1 DEF IInv, Phases, Swaps, Active, Tokens, Outstanding, Fresh, ResultsLast, LoadsCountEveryPick,
              request_vars, service_vars, round_vars
<1>4. OnePlace' /\ Batches' /\ NotYetDecided' /\ Answers'
  BY <1>1, SameRounds DEF IInv, OnePlace, Batches, NotYetDecided, Answers, Waits, request_vars, round_vars
<1> QED BY <1>2, <1>3, <1>4 DEF IInv

LEMMA NextKeepsIInv == ASSUME IInv, [Next]_vars PROVE IInv'
<1>1. CASE \E r \in Requests : Accept(r) \/ AcceptUnbudgeted(r) \/ ClientGoes(r) \/ Handler(r)
  BY <1>1, AcceptKeepsIInv, RequestKeepsIInv
<1>2. CASE \E g \in Generations : RoundLoop(g) \/ Thread(g)
  BY <1>2, RoundClosesKeepsIInv, EstimatedKeepsIInv, FetchedKeepsIInv, FetchFailsKeepsIInv, LoopFailedKeepsIInv,
     DecidesKeepsIInv, ScoringEndsKeepsIInv
  DEF RoundLoop, Thread
<1>3. CASE Callbacks BY <1>3, RunDispatchKeepsIInv, RunResultKeepsIInv DEF Callbacks
<1>4. CASE Apply BY <1>4, ApplyKeepsIInv
<1>5. CASE UNCHANGED vars BY <1>5, StutterKeepsIInv
<1> QED BY <1>1, <1>2, <1>3, <1>4, <1>5 DEF Next

LEMMA AlwaysIInv == Spec => []IInv
<1>1. Init => IInv BY InitIInv
<1>2. IInv /\ [Next]_vars => IInv' BY NextKeepsIInv
<1> QED BY <1>1, <1>2, PTL DEF Spec

-----------------------------------------------------------------------------
(* What it means *)

\* The tokens open in a view are those of the requests placed and not ended, whatever the interleaving of rounds,
\* cancelled handlers and applied configurations (_dispatch, _serve and _await_round of server.py).
THEOREM InFlightIsExact == Spec => []InFlightExact
<1>1. IInv => InFlightExact BY DEF IInv, Tokens, InFlightExact
<1> QED BY <1>1, AlwaysIInv, PTL

\* A round reads its loads after every earlier pick of its loop has been recorded ("they have all run by now", run()).
THEOREM LoadsAreCounted == Spec => []LoadsCountEveryPick
<1>1. IInv => LoadsCountEveryPick BY DEF IInv
<1> QED BY <1>1, AlwaysIInv, PTL

LEMMA AtMostOneElement ==
  ASSUME NEW S, \A x, y \in S : x = y
  PROVE  IsFiniteSet(S) /\ Cardinality(S) = IF S = {} THEN 0 ELSE 1
<1>1. CASE S = {} BY <1>1, FS_EmptySet
<1>2. CASE S # {}
  <2>1. PICK x : x \in S BY <1>2
  <2>2. S = {x} BY <2>1
  <2> QED BY <1>2, <2>2, FS_Singleton
<1> QED BY <1>1, <1>2

\* No request is decided twice, and no dispatch is closed twice, by the wrong owner or in the wrong view.
THEOREM DecidedAtMostOnce == Spec => []DecidedOnce
<1>1. IInv => DecidedOnce
  <2> SUFFICES ASSUME IInv PROVE DecidedOnce OBVIOUS
  <2>1. ~misclosed BY DEF IInv, Tokens
  <2>2. ASSUME NEW r \in Requests
        PROVE  LET toCome == {g \in Generations : r \in Elements(queue[g]) \cup undecided[g]}
               IN  /\ Cardinality(toCome) + Cardinality(QueuedFor(r)) <= 1
                   /\ toCome # {} \/ QueuedFor(r) # {} => token[r] = "none"
    <3> DEFINE T == {g \in Generations : r \in Elements(queue[g]) \cup undecided[g]}
    <3>1. \A g \in T : r \in Queued \/ r \in Held(g) BY DEF Queued, Held
    <3>2. \A k \in QueuedFor(r) : r \in Called BY DEF QueuedFor, Called
    <3>3. \A g, h \in T : g = h
      <4> SUFFICES ASSUME NEW g \in T, NEW h \in T, g # h PROVE FALSE OBVIOUS
      <4>1. CASE r \in undecided[g] /\ r \in undecided[h] BY <4>1 DEF IInv, OnePlace, Held
      <4>2. CASE r \notin undecided[g] /\ r \in undecided[h] BY <4>2 DEF IInv, OnePlace, Held, Queued
      <4>3. CASE r \in undecided[g] /\ r \notin undecided[h] BY <4>3 DEF IInv, OnePlace, Held, Queued
      <4>4. CASE r \notin undecided[g] /\ r \notin undecided[h]
        <5>1. r \in Elements(queue[g]) /\ r \in Elements(queue[h]) BY <4>4
        <5> QED BY <5>1 DEF IInv, OnePlace, Elements
      <4> QED BY <4>1, <4>2, <4>3, <4>4
    <3>4. \A j, k \in QueuedFor(r) : j = k BY DEF QueuedFor, IInv, OnePlace
    <3>5. T = {} \/ QueuedFor(r) = {} BY <3>1, <3>2 DEF IInv, OnePlace
    <3>6. T # {} \/ QueuedFor(r) # {} => token[r] = "none" BY <3>1, <3>2 DEF IInv, NotYetDecided
    <3> HIDE DEF T
    <3>7. Cardinality(T) + Cardinality(QueuedFor(r)) <= 1
      <4>1. Cardinality(T) = IF T = {} THEN 0 ELSE 1 BY <3>3, AtMostOneElement
      <4>2. Cardinality(QueuedFor(r)) = IF QueuedFor(r) = {} THEN 0 ELSE 1 BY <3>4, AtMostOneElement
      <4> QED BY <3>5, <4>1, <4>2
    <3> QED BY <3>6, <3>7 DEF T
  <2> QED BY <2>1, <2>2 DEF DecidedOnce
<1> QED BY <1>1, AlwaysIInv, PTL

\* The configuration changes only while no request is active: each is served and ends under the one that
\* accepted it (Service.apply).
THEOREM SwapsWhileIdle == Spec => ServedUnderOneConfig
<1>1. IInv /\ [Next]_vars => [Swap => Active = {} /\ Active' = {}]_vars
  <2> SUFFICES ASSUME IInv, Next, Swap PROVE Active = {} /\ Active' = {} OBVIOUS
  <2>1. ASSUME NEW r \in Requests, Accept(r) \/ AcceptUnbudgeted(r) \/ ClientGoes(r) \/ Handler(r)
        PROVE  UNCHANGED service_vars
    BY <2>1 DEF Accept, AcceptUnbudgeted, ClientGoes, Handler, Placed, RoundFailedIt, GoneInRound, Selected,
                SelectFails, Served
  <2>2. ASSUME NEW g \in Generations, RoundLoop(g) \/ Thread(g) PROVE UNCHANGED <<live, rb>>
    BY <2>2 DEF RoundLoop, Thread, RoundCloses, Estimated, Fetched, EstimateOrFetchFails, LoopFailed, Decides,
                ScoringEnds, service_vars
  <2>3. ASSUME Callbacks PROVE UNCHANGED service_vars BY <2>3 DEF Callbacks, RunDispatch, RunResult
  <2>4. ApplyBegins \/ BuildFails \/ OldLoopStops => UNCHANGED <<live, rb>>
    BY DEF ApplyBegins, BuildFails, OldLoopStops
  <2>5. SwapToRounds \/ SwapToPipeline \/ SwapRaises
    BY <2>1, <2>2, <2>3, <2>4 DEF Next, Apply, Swap, service_vars
  <2>6. applying = "swapping" /\ UNCHANGED request_vars
    BY <2>5 DEF SwapToRounds, SwapToPipeline, SwapRaises
  <2>7. Active = {} BY <2>6 DEF IInv, Swaps
  <2> QED BY <2>6, <2>7 DEF Active, request_vars
<1> QED BY <1>1, AlwaysIInv, PTL DEF Spec, ServedUnderOneConfig

-----------------------------------------------------------------------------
(* The request ledger *)

StageOf(r) ==
  CASE pc[r] \in {"new", "ok", "error"} -> pc[r]
    [] pc[r] = "serving" \/ (pc[r] = "round" /\ fut[r] = "assigned") -> "placed"
    [] OTHER -> "accepted"

Stage == [r \in Requests |-> StageOf(r)]

LEMMA Stages ==
  ASSUME TypeOK, NEW r \in Requests
  PROVE  /\ Stage[r] = StageOf(r)
         /\ pc[r] \in {"new", "ok", "error"} => StageOf(r) = pc[r]
         /\ Outstanding(r) => StageOf(r) = "placed"
         /\ pc[r] \in {"round", "select"} /\ ~Outstanding(r) => StageOf(r) = "accepted"
BY DEF Stage, StageOf, Outstanding, TypeOK

LEMMA StageMoves ==
  ASSUME TypeOK, NEW r \in Requests, NEW from, NEW to, StageOf(r) \in from, StageOf(r)' = to,
         \A q \in Requests : q # r => pc'[q] = pc[q] /\ (Outstanding(q)' <=> Outstanding(q))
  PROVE  Ledger!Move(r, from, to)
<1>1. \A q \in Requests : q # r => StageOf(q)' = StageOf(q) BY DEF StageOf, Outstanding
<1>2. Stage' = [q \in Requests |-> IF q = r THEN to ELSE StageOf(q)] BY <1>1 DEF Stage
<1>3. Stage' = [Stage EXCEPT ![r] = to] BY <1>2 DEF Stage
<1>4. Stage[r] \in from BY DEF Stage
<1> QED BY <1>3, <1>4 DEF Ledger!Move, Stage, StageOf

LEMMA StageStays ==
  ASSUME TypeOK, lines' = lines,
         \A q \in Requests : Outstanding(q)' <=> Outstanding(q),
         \A q \in Requests : pc'[q] = pc[q] \/ (Outstanding(q) /\ pc[q] \in {"round", "serving"}
                                                 /\ pc'[q] \in {"round", "serving"})
  PROVE  UNCHANGED Ledger!vars
<1>1. \A q \in Requests : StageOf(q)' = StageOf(q) BY DEF StageOf, Outstanding
<1>2. Stage' = Stage BY <1>1 DEF Stage
<1> QED BY <1>2 DEF Ledger!vars, Stage, StageOf

LEMMA LedgerInit == Init => Ledger!Init
<1> SUFFICES ASSUME Init PROVE Ledger!Init OBVIOUS
<1>1. pc = [r \in Requests |-> "new"] /\ lines = [r \in Requests |-> 0] BY DEF Init
<1>2. Stage = [r \in Requests |-> "new"] BY <1>1 DEF Stage, StageOf
<1> QED BY <1>1, <1>2 DEF Ledger!Init, Stage, StageOf

\* A request answers once, with an error from any stage and with a completion only after its placement.
LEMMA AnswersKeepLedger ==
  ASSUME TypeOK, TypeOK', NEW r \in Requests, NEW how \in {"ok", "error"}, Answer(r, how), fut' = fut,
         pc[r] \in {"new", "round", "select", "serving"}, how = "ok" => pc[r] = "serving"
  PROVE  Ledger!Next
<1>1. pc'[r] = how /\ \A q \in Requests : q # r => pc'[q] = pc[q] BY DEF Answer, TypeOK
<1>2. lines' = [lines EXCEPT ![r] = @ + 1] BY DEF Answer
<1>3. \A q \in Requests : q # r => pc'[q] = pc[q] /\ (Outstanding(q)' <=> Outstanding(q))
  BY <1>1 DEF Outstanding
<1>4. StageOf(r)' = how BY <1>1 DEF StageOf
<1>5. CASE how = "ok"
  <2>1. StageOf(r) \in {"placed"} BY <1>5, Stages DEF Outstanding
  <2>2. Ledger!Move(r, {"placed"}, "ok") BY <1>3, <1>4, <1>5, <2>1, StageMoves
  <2> QED BY <1>2, <2>2 DEF Ledger!Next, Ledger!Complete, Ledger!Log
<1>6. CASE how = "error"
  <2>1. StageOf(r) \in {"new", "accepted", "placed"} BY DEF StageOf
  <2>2. Ledger!Move(r, {"new", "accepted", "placed"}, "error") BY <1>3, <1>4, <1>6, <2>1, StageMoves
  <2> QED BY <1>2, <2>2 DEF Ledger!Next, Ledger!Fail, Ledger!Log
<1> QED BY <1>5, <1>6

LEMMA RequestKeepsLedger ==
  ASSUME IInv, TypeOK', NEW r \in Requests, Accept(r) \/ AcceptUnbudgeted(r) \/ ClientGoes(r) \/ Handler(r)
  PROVE  Ledger!Next \/ UNCHANGED Ledger!vars
<1>0. TypeOK BY DEF IInv
<1>1. CASE Accept(r)
  <2>1. /\ pc[r] = "new" /\ pc'[r] \in {"round", "select"} /\ lines' = lines
        /\ pc'[r] = "round" => fut'[r] = "pending"
        /\ \A q \in Requests : q # r => pc'[q] = pc[q] /\ fut'[q] = fut[q]
    BY <1>1 DEF Accept, IInv, TypeOK
  <2>2. \A q \in Requests : q # r => pc'[q] = pc[q] /\ (Outstanding(q)' <=> Outstanding(q))
    BY <2>1 DEF Outstanding
  <2>3. StageOf(r) \in {"new"} /\ StageOf(r)' = "accepted" BY <2>1 DEF StageOf
  <2>4. Ledger!Move(r, {"new"}, "accepted") BY <1>0, <2>2, <2>3, StageMoves
  <2> QED BY <2>1, <2>4 DEF Ledger!Next, Ledger!Accept
<1>2. CASE AcceptUnbudgeted(r) BY <1>0, <1>2, AnswersKeepLedger DEF AcceptUnbudgeted
<1>3. CASE ClientGoes(r)
  <2>1. /\ fut' = [fut EXCEPT ![r] = IF fut[r] = "pending" THEN "cancelled" ELSE fut[r]]
        /\ pc' = pc /\ lines' = lines
    BY <1>3 DEF ClientGoes
  <2>2. \A q \in Requests : fut'[q] = "assigned" <=> fut[q] = "assigned" BY <1>0, <2>1 DEF TypeOK
  <2>3. \A q \in Requests : Outstanding(q)' <=> Outstanding(q) BY <2>1, <2>2 DEF Outstanding
  <2> QED BY <1>0, <2>1, <2>3, StageStays
<1>4. CASE Placed(r)
  <2>1. /\ pc[r] = "round" /\ fut[r] = "assigned" /\ pc'[r] = "serving" /\ fut' = fut /\ lines' = lines
        /\ \A q \in Requests : q # r => pc'[q] = pc[q]
    BY <1>4 DEF Placed, IInv, TypeOK
  <2>2. Outstanding(r) /\ \A q \in Requests : Outstanding(q)' <=> Outstanding(q) BY <2>1 DEF Outstanding
  <2> QED BY <1>0, <2>1, <2>2, StageStays
<1>5. CASE RoundFailedIt(r) BY <1>0, <1>5, AnswersKeepLedger DEF RoundFailedIt
<1>6. CASE GoneInRound(r) BY <1>0, <1>6, AnswersKeepLedger DEF GoneInRound
<1>7. CASE Selected(r)
  <2>1. /\ pc[r] = "select" /\ pc'[r] = "serving" /\ lines' = lines /\ fut' = fut
        /\ \A q \in Requests : q # r => pc'[q] = pc[q]
    BY <1>7 DEF Selected, IInv, TypeOK
  <2>2. \A q \in Requests : q # r => pc'[q] = pc[q] /\ (Outstanding(q)' <=> Outstanding(q))
    BY <2>1 DEF Outstanding
  <2>3. StageOf(r) \in {"accepted"} /\ StageOf(r)' = "placed" BY <2>1 DEF StageOf
  <2>4. Ledger!Move(r, {"accepted"}, "placed") BY <1>0, <2>2, <2>3, StageMoves
  <2> QED BY <2>1, <2>4 DEF Ledger!Next, Ledger!Place
<1>8. CASE SelectFails(r) BY <1>0, <1>8, AnswersKeepLedger DEF SelectFails
<1>9. CASE Served(r)
  <2>1. pc[r] = "serving" /\ fut' = fut /\ (Answer(r, "ok") \/ Answer(r, "error")) BY <1>9 DEF Served
  <2> QED BY <1>0, <2>1, AnswersKeepLedger
<1> QED BY <1>1, <1>2, <1>3, <1>4, <1>5, <1>6, <1>7, <1>8, <1>9 DEF Handler

\* A round places a request when it answers its future, and fails it without moving it.
LEMMA RunDispatchKeepsLedger ==
  ASSUME IInv, RunDispatch
  PROVE  Ledger!Next \/ UNCHANGED Ledger!vars
<1>0. TypeOK BY DEF IInv
<1>1. PICK g \in Generations, r \in Requests : Dispatch(g, r) \/ DispatchFails(g, r)
  <2>1. ready # <<>> /\ ready' = Tail(ready) /\ Head(ready).kind = "dispatch"
        /\ (Dispatch(Head(ready).gen, Head(ready).req) \/ DispatchFails(Head(ready).gen, Head(ready).req))
    BY DEF RunDispatch
  <2> QED BY <2>1, OldestLeaves, EventParts
<1>2. pc' = pc /\ lines' = lines BY DEF RunDispatch
<1>3. \A q \in Requests : q # r => fut'[q] = fut[q] BY <1>0, <1>1 DEF Dispatch, DispatchFails, TypeOK
<1>4. CASE fut[r] = "pending" /\ fut'[r] = "assigned"
  <2>1. pc[r] = "round" BY <1>4 DEF IInv, Phases
  <2>2. StageOf(r) \in {"accepted"} /\ StageOf(r)' = "placed" BY <1>2, <1>4, <2>1 DEF StageOf
  <2>3. \A q \in Requests : q # r => pc'[q] = pc[q] /\ (Outstanding(q)' <=> Outstanding(q))
    BY <1>2, <1>3 DEF Outstanding
  <2>4. Ledger!Move(r, {"accepted"}, "placed") BY <1>0, <2>2, <2>3, StageMoves
  <2> QED BY <1>2, <2>4 DEF Ledger!Next, Ledger!Place
<1>5. CASE fut'[r] = "assigned" <=> fut[r] = "assigned"
  <2>1. \A q \in Requests : Outstanding(q)' <=> Outstanding(q) BY <1>2, <1>3, <1>5 DEF Outstanding
  <2> QED BY <1>0, <1>2, <2>1, StageStays
<1>6. (fut[r] = "pending" /\ fut'[r] = "assigned") \/ (fut'[r] = "assigned" <=> fut[r] = "assigned")
  BY <1>0, <1>1 DEF Dispatch, DispatchFails, TypeOK
<1> QED BY <1>4, <1>5, <1>6

LEMMA OthersKeepLedger ==
  ASSUME TypeOK, pc' = pc, lines' = lines, fut' = fut \/ \E rs : FailRest(rs)
  PROVE  UNCHANGED Ledger!vars
<1>1. \A q \in Requests : fut'[q] = "assigned" <=> fut[q] = "assigned" BY DEF FailRest
<1>2. \A q \in Requests : Outstanding(q)' <=> Outstanding(q) BY <1>1 DEF Outstanding
<1> QED BY <1>2, StageStays

\* "One decision line per request, whatever happened", one answer and at most one placement, for any number of
\* requests and configurations: the service implements RequestLedger.
THEOREM ServiceKeepsLedger == Spec => KeepsLedger
<1>1. Init => Ledger!Init BY LedgerInit
<1>2. IInv /\ IInv' /\ [Next]_vars => [Ledger!Next]_(Ledger!vars)
  <2> SUFFICES ASSUME IInv, IInv', [Next]_vars PROVE Ledger!Next \/ UNCHANGED Ledger!vars OBVIOUS
  <2>0. TypeOK /\ TypeOK' BY DEF IInv
  <2>1. CASE \E r \in Requests : Accept(r) \/ AcceptUnbudgeted(r) \/ ClientGoes(r) \/ Handler(r)
    BY <2>0, <2>1, RequestKeepsLedger
  <2>2. CASE \E g \in Generations : RoundLoop(g) \/ Thread(g)
    <3>1. pc' = pc /\ lines' = lines /\ (fut' = fut \/ \E rs : FailRest(rs))
      BY <2>2 DEF RoundLoop, Thread, RoundCloses, Estimated, Fetched, EstimateOrFetchFails, LoopFailed, Decides,
                  ScoringEnds, request_vars
    <3> QED BY <2>0, <3>1, OthersKeepLedger
  <2>3. CASE RunDispatch BY <2>3, RunDispatchKeepsLedger
  <2>4. CASE RunResult
    <3>1. pc' = pc /\ lines' = lines /\ (fut' = fut \/ \E rs : FailRest(rs)) BY <2>4 DEF RunResult
    <3> QED BY <2>0, <3>1, OthersKeepLedger
  <2>5. CASE Apply \/ UNCHANGED vars
    <3>1. UNCHANGED request_vars
      BY <2>5 DEF Apply, ApplyBegins, BuildFails, OldLoopStops, SwapToRounds, SwapToPipeline, SwapRaises, vars
    <3> QED BY <2>0, <3>1, OthersKeepLedger DEF request_vars
  <2> QED BY <2>1, <2>2, <2>3, <2>4, <2>5 DEF Next, Callbacks
<1> QED BY <1>1, <1>2, AlwaysIInv, PTL DEF Spec, KeepsLedger, Ledger!Spec
=============================================================================
