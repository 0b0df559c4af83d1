----------------------------- MODULE RouteBalance -----------------------------
(***************************************************************************)
(* routebalance/server.py: the requests of Service.complete, the round loop *)
(* RouteBalance.run with its scoring thread, and Service.apply, which swaps *)
(* the configuration.                                                       *)
(*                                                                          *)
(* Everything here shares one event loop except the scoring thread, which   *)
(* reaches the loop only through its FIFO of callbacks (ready): a dispatch  *)
(* per decision, then the round's result.  Each applied configuration has   *)
(* its own telemetry view, and in RouteBalance mode its own collector and   *)
(* round loop; they are numbered by generation.  An old generation's        *)
(* scoring thread may outlive it.                                           *)
(*                                                                          *)
(* Abstracted: prompts, estimates, loads and scores (the order and the      *)
(* outcome of scoring are arbitrary), the instance chosen, and collection   *)
(* itself (RoundCollector), of which only the promise of RoundQueue is      *)
(* used.  stop() is not modelled.                                           *)
(***************************************************************************)
EXTENDS Integers, Sequences, FiniteSets

CONSTANTS
  Requests,
  MayGo,           \* bound: the requests whose client may go away
  MaxRound,        \* the largest round
  MaxConfigs,      \* bound: configurations applied, the one at start included
  LogDirFails      \* whether the latency log of a new configuration may fail to open

ASSUME ServiceAssumption ==
  /\ IsFiniteSet(Requests) /\ MayGo \subseteq Requests
  /\ MaxRound \in Nat \ {0}
  /\ MaxConfigs \in Nat \ {0}
  /\ LogDirFails \in BOOLEAN

Generations == 1 .. MaxConfigs

VARIABLES
  pc,              \* pc[r]: complete(): "new", "round" (awaits its round), "select" (the pipeline's choice),
                   \*   "serving" (backend.generate), then "ok" or "error"
  gone,            \* gone[r]: its handler has been cancelled
  fut,             \* fut[r]: the round's future: "none", "pending", "assigned", "failed" or "cancelled"
  lines,           \* lines[r]: decision lines
  token,           \* token[r]: its dispatch token: "none", "open" or "closed"
  view,            \* view[r]: the generation whose TelemetryView holds that token (0: none)
  misclosed,       \* history: some close raised (a token closed twice, never issued, or of another view)
  live,            \* the generation of Service.cfg and Service.view
  rb,              \* the generation of Service._rb (0: None)
  applying,        \* apply(): "no", "building" or "swapping"
  failure,         \* Service.failure is set
  queue,           \* queue[g]: the requests in the collector
  loop,            \* loop[g]: run(): "none", "collecting", "estimating", "fetching", "scoring", "raised"
                   \*   (done, its callback has not run), "failed" or "cancelled"
  batch,           \* batch[g]: the requests of its round
  undecided,       \* undecided[g]: those that its scoring thread has not decided
  scoring,         \* scoring[g]: the thread is at work
  ready,           \* the loop's FIFO of callbacks from scoring threads
  dispatch_error   \* dispatch_error[g]: _dispatch_error is set

request_vars == <<pc, gone, fut, lines, token, view, misclosed>>
service_vars == <<live, rb, applying, failure>>
round_vars == <<queue, loop, batch, undecided, scoring, ready, dispatch_error>>

vars == <<request_vars, service_vars, round_vars>>

Active == {r \in Requests : pc[r] \in {"round", "select", "serving"}}

Elements(s) == {s[k] : k \in 1 .. Len(s)}

-----------------------------------------------------------------------------

Init ==
  /\ pc = [r \in Requests |-> "new"]
  /\ gone = [r \in Requests |-> FALSE]
  /\ fut = [r \in Requests |-> "none"]
  /\ lines = [r \in Requests |-> 0]
  /\ token = [r \in Requests |-> "none"]
  /\ view = [r \in Requests |-> 0]
  /\ misclosed = FALSE
  /\ live = 1
  /\ rb \in {0, 1}
  /\ applying = "no"
  /\ failure = FALSE
  /\ queue = [g \in Generations |-> <<>>]
  /\ loop = [g \in Generations |-> IF g = rb THEN "collecting" ELSE "none"]
  /\ batch = [g \in Generations |-> {}]
  /\ undecided = [g \in Generations |-> {}]
  /\ scoring = [g \in Generations |-> FALSE]
  /\ ready = <<>>
  /\ dispatch_error = [g \in Generations |-> FALSE]

\* TelemetryView.record_dispatch in the view of generation g, and _close in it, which raises on a token that is
\* not open there.
Record(r, g) ==
  /\ token' = [token EXCEPT ![r] = "open"]
  /\ view' = [view EXCEPT ![r] = g]
  /\ UNCHANGED misclosed

Close(r, g) ==
  /\ IF token[r] = "open" /\ view[r] = g
     THEN token' = [token EXCEPT ![r] = "closed"] /\ UNCHANGED misclosed
     ELSE misclosed' = TRUE /\ UNCHANGED token
  /\ UNCHANGED view

KeepTokens == UNCHANGED <<token, view, misclosed>>

\* complete() returns or raises, after its one decision line.
Answer(r, how) ==
  /\ pc' = [pc EXCEPT ![r] = how]
  /\ lines' = [lines EXCEPT ![r] = @ + 1]

-----------------------------------------------------------------------------
(* Service.complete *)

\* Mutant: a request is accepted while a configuration is being applied.
AcceptWhileSwapping(r) ==
  /\ pc[r] = "new"
  /\ ~failure
  /\ IF rb # 0
     THEN /\ pc' = [pc EXCEPT ![r] = "round"]
          /\ fut' = [fut EXCEPT ![r] = "pending"]
          /\ queue' = [queue EXCEPT ![rb] = Append(@, r)]
     ELSE /\ pc' = [pc EXCEPT ![r] = "select"]
          /\ UNCHANGED <<fut, queue>>
  /\ UNCHANGED <<gone, lines, loop, batch, undecided, scoring, ready, dispatch_error, service_vars>>
  /\ KeepTokens

\* Accepted: the request joins the round loop's collector, or the pipeline's choice begins.  The budget filter
\* refuses a request without a budget.
Accept(r) ==
  /\ pc[r] = "new"
  /\ ~failure
  /\ applying = "no"
  /\ IF rb # 0
     THEN /\ pc' = [pc EXCEPT ![r] = "round"]
          /\ fut' = [fut EXCEPT ![r] = "pending"]
          /\ queue' = [queue EXCEPT ![rb] = Append(@, r)]
     ELSE /\ pc' = [pc EXCEPT ![r] = "select"]
          /\ UNCHANGED <<fut, queue>>
  /\ UNCHANGED <<gone, lines, loop, batch, undecided, scoring, ready, dispatch_error, service_vars>>
  /\ KeepTokens

AcceptUnbudgeted(r) ==
  /\ pc[r] = "new"
  /\ ~failure
  /\ applying = "no"
  /\ Answer(r, "error")
  /\ KeepTokens
  /\ UNCHANGED <<gone, fut, service_vars, round_vars>>

\* The handler is cancelled at the await it is in.  A future that is still pending is cancelled with it; one that
\* has its result keeps it.
ClientGoes(r) ==
  /\ r \in Active \cap MayGo
  /\ ~gone[r]
  /\ gone' = [gone EXCEPT ![r] = TRUE]
  /\ fut' = [fut EXCEPT ![r] = IF @ = "pending" THEN "cancelled" ELSE @]
  /\ KeepTokens
  /\ UNCHANGED <<pc, lines, service_vars, round_vars>>

\* _await_round resumes: the round placed it.
Placed(r) ==
  /\ pc[r] = "round"
  /\ fut[r] = "assigned"
  /\ ~gone[r]
  /\ pc' = [pc EXCEPT ![r] = "serving"]
  /\ KeepTokens
  /\ UNCHANGED <<gone, fut, lines, service_vars, round_vars>>

RoundFailedIt(r) ==
  /\ pc[r] = "round"
  /\ fut[r] = "failed"
  /\ Answer(r, "error")
  /\ KeepTokens
  /\ UNCHANGED <<gone, fut, service_vars, round_vars>>

\* Mutants: a cancelled handler closes a dispatch that no round has recorded; it leaves a recorded one open.
GoneClosesAlways(r) ==
  /\ pc[r] = "round"
  /\ gone[r]
  /\ fut[r] \in {"assigned", "cancelled"}
  /\ Close(r, live)
  /\ Answer(r, "error")
  /\ UNCHANGED <<gone, fut, service_vars, round_vars>>

GoneClosesNever(r) ==
  /\ pc[r] = "round"
  /\ gone[r]
  /\ fut[r] \in {"assigned", "cancelled"}
  /\ KeepTokens
  /\ Answer(r, "error")
  /\ UNCHANGED <<gone, fut, service_vars, round_vars>>

\* _await_round resumes cancelled; a dispatch that the round has recorded is closed here.
GoneInRound(r) ==
  /\ pc[r] = "round"
  /\ gone[r]
  /\ fut[r] \in {"assigned", "cancelled"}
  /\ IF fut[r] = "assigned" THEN Close(r, live) ELSE KeepTokens
  /\ Answer(r, "error")
  /\ UNCHANGED <<gone, fut, service_vars, round_vars>>

\* _select: router, telemetry and dispatcher; nothing is awaited after the dispatch is recorded.
Selected(r) ==
  /\ pc[r] = "select"
  /\ ~gone[r]
  /\ Record(r, live)
  /\ pc' = [pc EXCEPT ![r] = "serving"]
  /\ UNCHANGED <<gone, fut, lines, service_vars, round_vars>>

SelectFails(r) ==
  /\ pc[r] = "select"
  /\ Answer(r, "error")
  /\ KeepTokens
  /\ UNCHANGED <<gone, fut, service_vars, round_vars>>

\* Mutant: only a completion is logged.
ServedLogsCompletions(r) ==
  /\ pc[r] = "serving"
  /\ Close(r, live)
  /\ \/ ~gone[r] /\ Answer(r, "ok")
     \/ pc' = [pc EXCEPT ![r] = "error"] /\ UNCHANGED lines
  /\ UNCHANGED <<gone, fut, service_vars, round_vars>>

\* _serve: the engine's reply, a failed reply, an unreachable engine or a cancellation.
Served(r) ==
  /\ pc[r] = "serving"
  /\ Close(r, live)
  /\ \/ ~gone[r] /\ Answer(r, "ok")
     \/ Answer(r, "error")
  /\ UNCHANGED <<gone, fut, service_vars, round_vars>>

-----------------------------------------------------------------------------
(* RouteBalance.run, generation g *)

\* Mutant: the last request of a round stays in the queue.
RoundClosesShort(g) ==
  /\ loop[g] = "collecting"
  /\ \E n \in 1 .. MaxRound :
       /\ n <= Len(queue[g])
       /\ batch' = [batch EXCEPT ![g] = {queue[g][k] : k \in 1 .. n}]
       /\ queue' = [queue EXCEPT ![g] = SubSeq(@, n, Len(@))]
  /\ loop' = [loop EXCEPT ![g] = "estimating"]
  /\ UNCHANGED <<undecided, scoring, ready, dispatch_error, request_vars, service_vars>>

\* next_round() returns the next n requests.
RoundCloses(g) ==
  /\ loop[g] = "collecting"
  /\ \E n \in 1 .. MaxRound :
       /\ n <= Len(queue[g])
       /\ batch' = [batch EXCEPT ![g] = {queue[g][k] : k \in 1 .. n}]
       /\ queue' = [queue EXCEPT ![g] = SubSeq(@, n + 1, Len(@))]
  /\ loop' = [loop EXCEPT ![g] = "estimating"]
  /\ UNCHANGED <<undecided, scoring, ready, dispatch_error, request_vars, service_vars>>

Estimated(g) ==
  /\ loop[g] = "estimating"
  /\ loop' = [loop EXCEPT ![g] = "fetching"]
  /\ UNCHANGED <<queue, batch, undecided, scoring, ready, dispatch_error, request_vars, service_vars>>

\* The loads are read, and the pool takes the round.
Fetched(g) ==
  /\ loop[g] = "fetching"
  /\ loop' = [loop EXCEPT ![g] = "scoring"]
  /\ undecided' = [undecided EXCEPT ![g] = batch[g]]
  /\ scoring' = [scoring EXCEPT ![g] = TRUE]
  /\ UNCHANGED <<queue, batch, ready, dispatch_error, request_vars, service_vars>>

\* The end of run()'s loop body: on to the next round, unless a dispatch of this one failed.
RoundEnds(g) == loop' = [loop EXCEPT ![g] = IF dispatch_error[g] THEN "raised" ELSE "collecting"]

\* Every request of the round that has no answer yet gets the error.
FailRest(rs) == fut' = [r \in Requests |-> IF r \in rs /\ fut[r] = "pending" THEN "failed" ELSE fut[r]]

EstimateOrFetchFails(g) ==
  /\ loop[g] \in {"estimating", "fetching"}
  /\ FailRest(batch[g])
  /\ RoundEnds(g)
  /\ KeepTokens
  /\ UNCHANGED <<pc, gone, lines, queue, batch, undecided, scoring, ready, dispatch_error, service_vars>>

\* The pool thread: schedule_round decides the next request, and decided() queues its dispatch on the loop.
Decides(g) ==
  /\ scoring[g]
  /\ \E r \in undecided[g] :
       /\ undecided' = [undecided EXCEPT ![g] = @ \ {r}]
       /\ ready' = Append(ready, [kind |-> "dispatch", gen |-> g, req |-> r])
  /\ UNCHANGED <<queue, loop, batch, scoring, dispatch_error, request_vars, service_vars>>

\* Mutant: the result of a round overtakes its dispatch callbacks.
ScoringEndsFirst(g) ==
  /\ scoring[g]
  /\ scoring' = [scoring EXCEPT ![g] = FALSE]
  /\ undecided' = [undecided EXCEPT ![g] = {}]
  /\ ready' = <<[kind |-> "result", gen |-> g, ok |-> undecided[g] = {}]>> \o ready
  /\ UNCHANGED <<queue, loop, batch, dispatch_error, request_vars, service_vars>>

\* schedule_round returns, or raises at some request.
ScoringEnds(g) ==
  /\ scoring[g]
  /\ scoring' = [scoring EXCEPT ![g] = FALSE]
  /\ undecided' = [undecided EXCEPT ![g] = {}]
  /\ ready' = Append(ready, [kind |-> "result", gen |-> g, ok |-> undecided[g] = {}])
  /\ UNCHANGED <<queue, loop, batch, dispatch_error, request_vars, service_vars>>

\* _dispatch: the request gets its assignment; if its client went away, the dispatch is closed again.
Dispatch(g, r) ==
  /\ IF fut[r] = "pending"
     THEN /\ Record(r, g)
          /\ fut' = [fut EXCEPT ![r] = "assigned"]
     ELSE /\ token' = [token EXCEPT ![r] = "closed"]
          /\ view' = [view EXCEPT ![r] = g]
          /\ UNCHANGED <<fut, misclosed>>
  /\ UNCHANGED dispatch_error

\* _dispatch raises, before or after it recorded the dispatch: the request gets the error, and so will run().
DispatchFails(g, r) ==
  /\ Record(r, g) \/ KeepTokens
  /\ fut' = [fut EXCEPT ![r] = IF @ = "pending" THEN "failed" ELSE @]
  /\ dispatch_error' = [dispatch_error EXCEPT ![g] = TRUE]

\* The loop runs the oldest dispatch callback.
RunDispatch ==
  /\ ready # <<>>
  /\ Head(ready).kind = "dispatch"
  /\ ready' = Tail(ready)
  /\ LET e == Head(ready) IN Dispatch(e.gen, e.req) \/ DispatchFails(e.gen, e.req)
  /\ UNCHANGED <<pc, gone, lines, queue, loop, batch, undecided, scoring, service_vars>>

\* The round's result reaches run(), if it still waits for it.
RunResult ==
  /\ ready # <<>>
  /\ Head(ready).kind = "result"
  /\ ready' = Tail(ready)
  /\ LET e == Head(ready)
     IN  IF loop[e.gen] = "scoring"
         THEN /\ RoundEnds(e.gen)
              /\ IF e.ok THEN UNCHANGED fut ELSE FailRest(batch[e.gen])
         ELSE UNCHANGED <<loop, fut>>
  /\ KeepTokens
  /\ UNCHANGED <<pc, gone, lines, queue, batch, undecided, scoring, dispatch_error, service_vars>>

\* Mutant: the callback only records the failure.
LoopFailedSilently(g) ==
  /\ loop[g] = "raised"
  /\ loop' = [loop EXCEPT ![g] = "failed"]
  /\ failure' = TRUE
  /\ KeepTokens
  /\ UNCHANGED <<pc, gone, fut, lines, live, rb, applying, queue, batch, undecided, scoring, ready, dispatch_error>>

\* _watch: the failed loop's callback refuses requests from now on and fails those that wait for a round.
LoopFailed(g) ==
  /\ loop[g] = "raised"
  /\ loop' = [loop EXCEPT ![g] = "failed"]
  /\ failure' = TRUE
  /\ FailRest(Elements(queue[g]))
  /\ queue' = [queue EXCEPT ![g] = <<>>]
  /\ KeepTokens
  /\ UNCHANGED <<pc, gone, lines, live, rb, applying, batch, undecided, scoring, ready, dispatch_error>>

-----------------------------------------------------------------------------
(* Service.apply *)

ApplyBegins ==
  /\ applying = "no"
  /\ Active = {}
  /\ live < MaxConfigs
  /\ applying' = "building"
  /\ UNCHANGED <<live, rb, failure, request_vars, round_vars>>

BuildFails ==
  /\ applying = "building"
  /\ applying' = "no"
  /\ UNCHANGED <<live, rb, failure, request_vars, round_vars>>

\* The old round loop is cancelled and awaited.  A scoring thread that has begun goes on.
OldLoopStops ==
  /\ applying = "building"
  /\ applying' = "swapping"
  /\ IF rb # 0 /\ loop[rb] \in {"collecting", "estimating", "fetching", "scoring"}
     THEN /\ loop' = [loop EXCEPT ![rb] = "cancelled"]
          /\ \/ UNCHANGED <<undecided, scoring>>
             \/ /\ undecided[rb] = batch[rb]
                /\ undecided' = [undecided EXCEPT ![rb] = {}]
                /\ scoring' = [scoring EXCEPT ![rb] = FALSE]
     ELSE UNCHANGED <<loop, undecided, scoring>>
  /\ UNCHANGED <<live, rb, failure, queue, batch, ready, dispatch_error, request_vars>>

SwapToRounds ==
  /\ applying = "swapping"
  /\ applying' = "no"
  /\ live' = live + 1
  /\ rb' = live'
  /\ loop' = [loop EXCEPT ![rb'] = "collecting"]
  /\ UNCHANGED <<failure, queue, batch, undecided, scoring, ready, dispatch_error, request_vars>>

SwapToPipeline ==
  /\ applying = "swapping"
  /\ applying' = "no"
  /\ live' = live + 1
  /\ rb' = 0
  /\ UNCHANGED <<failure, round_vars, request_vars>>

\* The new configuration's latency log cannot be opened: apply() raises after the swap, before it replaced _rb.
SwapRaises ==
  /\ LogDirFails
  /\ applying = "swapping"
  /\ applying' = "no"
  /\ live' = live + 1
  /\ UNCHANGED <<rb, failure, round_vars, request_vars>>

-----------------------------------------------------------------------------

Handler(r) ==
  \/ Placed(r) \/ RoundFailedIt(r) \/ GoneInRound(r)
  \/ Selected(r) \/ SelectFails(r)
  \/ Served(r)

RoundLoop(g) == RoundCloses(g) \/ Estimated(g) \/ Fetched(g) \/ EstimateOrFetchFails(g) \/ LoopFailed(g)

Thread(g) == Decides(g) \/ ScoringEnds(g)

Callbacks == RunDispatch \/ RunResult

Apply ==
  \/ ApplyBegins \/ BuildFails \/ OldLoopStops
  \/ SwapToRounds \/ SwapToPipeline \/ SwapRaises

Next ==
  \/ \E r \in Requests : Accept(r) \/ AcceptUnbudgeted(r) \/ ClientGoes(r) \/ Handler(r)
  \/ \E g \in Generations : RoundLoop(g) \/ Thread(g)
  \/ Callbacks
  \/ Apply

Spec == Init /\ [][Next]_vars

\* The event loop runs what is ready, pool threads finish, scrapes and engine replies are bounded by their
\* timeouts, and an apply that began ends.  Nothing makes clients come or go, or applies begin.
FairSpec ==
  /\ Spec
  /\ \A r \in Requests : WF_vars(Handler(r))
  /\ \A g \in Generations : WF_vars(RoundLoop(g)) /\ WF_vars(Thread(g))
  /\ WF_vars(Callbacks)
  /\ WF_vars(Apply /\ applying # "no")

-----------------------------------------------------------------------------

Events ==
  [kind : {"dispatch"}, gen : Generations, req : Requests]
    \cup [kind : {"result"}, gen : Generations, ok : BOOLEAN]

TypeOK ==
  /\ pc \in [Requests -> {"new", "round", "select", "serving", "ok", "error"}]
  /\ gone \in [Requests -> BOOLEAN]
  /\ fut \in [Requests -> {"none", "pending", "assigned", "failed", "cancelled"}]
  /\ lines \in [Requests -> Nat]
  /\ token \in [Requests -> {"none", "open", "closed"}]
  /\ view \in [Requests -> 0 .. MaxConfigs]
  /\ misclosed \in BOOLEAN
  /\ live \in Generations
  /\ rb \in 0 .. MaxConfigs
  /\ applying \in {"no", "building", "swapping"}
  /\ failure \in BOOLEAN
  /\ queue \in [Generations -> Seq(Requests)]
  /\ loop \in [Generations -> {"none", "collecting", "estimating", "fetching", "scoring", "raised", "failed",
                               "cancelled"}]
  /\ batch \in [Generations -> SUBSET Requests]
  /\ undecided \in [Generations -> SUBSET Requests]
  /\ scoring \in [Generations -> BOOLEAN]
  /\ ready \in Seq(Events)
  /\ dispatch_error \in [Generations -> BOOLEAN]

\* "in_flight: requests dispatched and not yet completed or failed": the tokens open in a view are exactly those of
\* the requests placed and not ended, in the live view.  Only a dispatch that raised may leave its token open, and
\* then the scheduler has failed.
Outstanding(r) == pc[r] = "serving" \/ (pc[r] = "round" /\ fut[r] = "assigned")

InFlightExact ==
  /\ TypeOK
  /\ \A r \in Requests :
       /\ Outstanding(r) => token[r] = "open" /\ view[r] = live
       /\ token[r] = "open" => Outstanding(r) \/ dispatch_error[view[r]]

\* A request is decided once: it waits in one place only (a queue, a scoring thread or a callback), and until then
\* it has no token.  Its dispatch is closed once, by the right one of its two owners (the handler or the round) and
\* in the view it was recorded in, although the handler closes in whatever view is live by then.
QueuedFor(r) == {k \in 1 .. Len(ready) : ready[k].kind = "dispatch" /\ ready[k].req = r}

DecidedOnce ==
  /\ ~misclosed
  /\ \A r \in Requests :
       LET toCome == {g \in Generations : r \in Elements(queue[g]) \cup undecided[g]}
       IN  /\ Cardinality(toCome) + Cardinality(QueuedFor(r)) <= 1
           /\ toCome # {} \/ QueuedFor(r) # {} => token[r] = "none"

\* A round reads its loads when every earlier pick of its loop has been recorded: "the dispatch callbacks were
\* queued before the round's result, so they have all run by now".
LoadsCountEveryPick ==
  \A g \in Generations :
    loop[g] \in {"collecting", "estimating", "fetching"} =>
      /\ ~scoring[g]
      /\ \A k \in 1 .. Len(ready) : ready[k].gen # g

\* "swap it in whole, only while idle": a request ends under the configuration that accepted it.
Swap == live' # live \/ rb' # rb

ServedUnderOneConfig == [][Swap => Active = {} /\ Active' = {}]_vars

Ledger == INSTANCE RequestLedger
            WITH stage <- [r \in Requests |->
                             CASE pc[r] \in {"new", "ok", "error"} -> pc[r]
                               [] pc[r] = "serving" \/ (pc[r] = "round" /\ fut[r] = "assigned") -> "placed"
                               [] OTHER -> "accepted"]

\* "One decision line per request, whatever happened", one answer, and at most one placement.
KeepsLedger == Ledger!Spec

\* An accepted request is answered: no failure of a round, a dispatch or the loop leaves one waiting.  The exception
\* is what a swap that raised leaves (FailedApplySwapsNothing): the live rounds have no loop.
Loopless == rb # 0 /\ applying = "no" /\ loop[rb] = "cancelled"

EveryRequestIsAnswered == \A r \in Requests : r \in Active ~> pc[r] \in {"ok", "error"} \/ Loopless

\* "nothing was swapped: the old configuration is still live" (post_config, of an apply that raised).
FailedApplySwapsNothing == [][BuildFails \/ SwapRaises => UNCHANGED live]_vars
=============================================================================
