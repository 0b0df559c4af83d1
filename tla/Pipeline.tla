------------------------------- MODULE Pipeline -------------------------------
(***************************************************************************)
(* Requests through the pipeline mode of the scheduler, under one applied   *)
(* configuration: routebalance/baselines/pipeline.py select_instance, with  *)
(* the router's lane of threads and the dispatcher, then Service._serve     *)
(* with its engine call.  The view's tokens are TokenLedger, which this     *)
(* module extends; its loads are the last scraped gauges of each engine.    *)
(*                                                                          *)
(* An action runs from one await to the next, as the event loop does.       *)
(***************************************************************************)
EXTENDS TokenLedger, Routers, Dispatchers, SchedulerConfig, EngineStream

CONSTANTS
  Requests,        \* Tokens: each request is dispatched at most once
  Documents,       \* the scheduler documents that may be applied
  Answers(_),      \* what the model of a router may answer
  Estimates,       \* expected output lengths on each model that the estimator may return, in parts of a token
  Parts,           \* the parts of a token that lengths are counted in
  RequestTokens,   \* the max_tokens of a request
  Samples,         \* seconds per output token that a reply may have taken
  Tiers, Hosts, Specs     \* the fleet file and its hosts

ASSUME FleetAssumption ==
  /\ FleetOK(Tiers, Hosts, Specs)
  /\ ModelOf = [k \in 1 .. Len(Specs) |-> Tiers[Specs[k].tier].model]
  /\ ToSet(Pool) = Models
  /\ Instances = Fleet /\ Tokens = Requests
  /\ \A t \in DOMAIN Tiers : Price[Tiers[t].model] = Tiers[t].cost_in + Tiers[t].cost_out
  /\ DOMAIN Price = Models
  /\ RequestTokens \in Nat \ {0} /\ Parts \in Nat \ {0}
  /\ None \notin Nat

\* An estimator that loads expects a length on every model of the fleet.  The bounds: no prediction and no reply is longer
\* than MaxTokens.
ASSUME LengthAssumption ==
  /\ RequestTokens <= MaxTokens
  /\ MaxReply \in 0 .. MaxTokens
  /\ Samples \subseteq Nat
  /\ \A e \in Estimates :
       /\ IsFiniteSet(DOMAIN e) /\ e \in [DOMAIN e -> Nat] /\ Models \subseteq DOMAIN e
       /\ \A m \in Models : e[m] \div Parts <= MaxTokens

\* What parsing and loading leave to take for granted of a document: the types of its keys and of its artifacts.
ASSUME DocumentAssumption ==
  \A d \in Documents :
    d.mode = "pipeline" /\ d.pipeline # None =>
      LET router == d.pipeline.router
      IN  /\ d.telemetry_read \in {"poll", "per_request", "per_round"}
          /\ d.pipeline.dispatch.type \in Types
          /\ router.type \in {"passthrough", "best_route", "best_route_upstream", "avengers_pro", "rb_decoupled"}
          /\ router.concurrency # None => router.concurrency \in Nat
          /\ router.type = "best_route_upstream" =>
               router.artifact.labels.models \in Seq(STRING) /\ router.artifact.heads \in Seq(STRING)
          /\ router.type = "avengers_pro" => Answers(router) \subseteq router.artifact.clusters
          /\ router.type = "rb_decoupled" =>
               /\ router.artifact.tiers \in Seq([tier : STRING, model : STRING])
               /\ \A a \in Answers(router) : \A t \in DOMAIN a : a[t] \in Int

VARIABLES
  doc,         \* the applied document
  stage,       \* where each handler is: new, estimating, lane, answered, probing,
               \* serving, ok or error
  lane,        \* the router lane's queue
  busy,        \* the requests whose routing call occupies a thread of the lane
  answer,      \* what the router's model answered
  estimate,    \* the expected lengths of a sweep's request
  compared,    \* the candidates whose loads the dispatcher compares, in order
  unread,      \* the engines that a probe has not scraped yet
  instance,    \* where the request was dispatched
  stream,      \* its engine call
  gauges,      \* the running and waiting requests in the last snapshot of each engine; None: none yet
  memory,      \* the dispatcher's
  picks        \* history: how often a rotation took each instance

selection_vars == <<estimate, answer, compared, unread>>
pipeline_vars == <<doc, stage, lane, busy, selection_vars, instance, stream, gauges, memory, picks, vars>>

Router == doc.pipeline.router
Dispatch == doc.pipeline.dispatch
Probes == doc.telemetry_read = "per_request"
Sweeps == doc.pending_decode = "own_length"

Decoupled(d) == d.pipeline # None /\ d.pipeline.router.type = "rb_decoupled"

\* needs
NeedsEstimator(d) == d.mode = "routebalance" \/ Decoupled(d) \/ d.pending_decode = "own_length"
NeedsLatency(d) == d.mode = "routebalance" \/ Decoupled(d)

\* _tiers: in the order of their first instances.
FleetTiers ==
  LET first == InFleetOrder({k \in Fleet : \A j \in 1 .. k - 1 : Specs[j].tier # Specs[k].tier})
  IN  [k \in DOMAIN first |-> [tier |-> Specs[first[k]].tier, model |-> ModelOf[first[k]]]]

\* load_components raises: the old configuration stays.  RB-decoupled reads the fleet's own tiers, and its idle latency
\* knows no prompt.
Loads(d) ==
  /\ Decoupled(d) => d.latency.source # "xgboost" /\ d.pipeline.router.artifact.tiers = FleetTiers
  /\ Builds(d.pipeline.router)

\* None: no answer, no instance; a value is tested before it is used.
PipelineInit ==
  /\ doc \in {d \in Documents : Accepted(d) /\ d.mode = "pipeline" /\ Loads(d)}
  /\ stage = [r \in Requests |-> "new"]
  /\ lane = <<>>
  /\ busy = {}
  /\ answer = [r \in Requests |-> None]
  /\ estimate = [r \in Requests |-> None]
  /\ compared = [r \in Requests |-> <<>>]
  /\ unread = [r \in Requests |-> {}]
  /\ instance = [r \in Requests |-> None]
  /\ stream = [r \in Requests |-> NoStream]
  /\ gauges = [i \in Fleet |-> IF doc.telemetry_read = "poll" THEN 0 ELSE None]
  /\ memory = Built
  /\ picks = [i \in Fleet |-> 0]
  /\ Init

Candidates(m) == IF m = All THEN Fleet ELSE {i \in Fleet : ModelOf[i] = m}

\* _queue: the count the dispatcher was configured with.
Queue == [i \in Fleet |-> IF Dispatch.count = "in_flight" THEN InFlight(i) ELSE gauges[i]]

\* External: the requests that an engine runs or queues.
AtEngine(i) == Cardinality({r \in Requests : instance[r] = i /\ Streaming(stream[r]) /\ ~stream[r].ended})

Forget(r) ==
  /\ answer' = [answer EXCEPT ![r] = None]
  /\ estimate' = [estimate EXCEPT ![r] = None]
  /\ compared' = [compared EXCEPT ![r] = <<>>]
  /\ unread' = [unread EXCEPT ![r] = {}]

-----------------------------------------------------------------------------
(* Service._select and the router's lane *)

\* choose_model: a routing model is called on the lane, unless the router refuses before; passthrough decides at once.
AsksRouter(r) ==
  \E next \in {IF Refuses(Router) THEN "error" ELSE IF CallsAModel(Router) THEN "lane" ELSE "answered"} :
    /\ stage' = [stage EXCEPT ![r] = next]
    /\ lane' = IF next = "lane" THEN Append(lane, r) ELSE lane

\* _select: a sweep asks the estimator first, on the shared pool.
Accept(r) ==
  /\ stage[r] = "new"
  /\ IF Sweeps THEN stage' = [stage EXCEPT ![r] = "estimating"] /\ UNCHANGED lane ELSE AsksRouter(r)
  /\ UNCHANGED <<doc, busy, selection_vars, instance, stream, gauges, memory, picks, vars>>

Estimated(r, e) ==
  /\ stage[r] = "estimating"
  /\ estimate' = [estimate EXCEPT ![r] = e]
  /\ AsksRouter(r)
  /\ UNCHANGED <<doc, busy, answer, compared, unread, instance, stream, gauges, memory, picks, vars>>

EstimateFails(r) ==
  /\ stage[r] = "estimating"
  /\ stage' = [stage EXCEPT ![r] = "error"]
  /\ UNCHANGED <<doc, lane, busy, selection_vars, instance, stream, gauges, memory, picks, vars>>

\* A thread of the lane takes the next call.
CallStarts ==
  /\ lane # <<>>
  /\ Cardinality(busy) < Router.concurrency
  /\ busy' = busy \cup {Head(lane)}
  /\ lane' = Tail(lane)
  /\ UNCHANGED <<doc, stage, selection_vars, instance, stream, gauges, memory, picks, vars>>

\* The call ends; its handler may have gone.
CallEnds(r, a) ==
  /\ r \in busy
  /\ busy' = busy \ {r}
  /\ IF stage[r] = "lane"
     THEN stage' = [stage EXCEPT ![r] = "answered"] /\ answer' = [answer EXCEPT ![r] = a]
     ELSE UNCHANGED <<stage, answer>>
  /\ UNCHANGED <<doc, lane, estimate, compared, unread, instance, stream, gauges, memory, picks, vars>>

-----------------------------------------------------------------------------
(* select_instance *)

\* A length in whole tokens, at least 1.
Whole(length) == IF length < Parts THEN 1 ELSE length \div Parts

\* decode: max_tokens, or what a sweep estimated on the model.
Decode(r, m) == IF Sweeps THEN Whole(estimate[r][m]) ELSE RequestTokens

\* choose, then record_dispatch: nothing is awaited between the loads, the choice and its token.
Placed(r, seq) ==
  \E p \in Picks(Dispatch.type, memory, seq, Queue) :
    /\ instance' = [instance EXCEPT ![r] = p[1]]
    /\ memory' = p[2]
    /\ picks' = IF Dispatch.type = "round_robin" THEN [picks EXCEPT ![p[1]] = @ + 1] ELSE picks
    /\ stage' = [stage EXCEPT ![r] = "serving"]
    /\ Dispatched(r, p[1], Decode(r, ModelOf[p[1]]))

\* The router's decision; then the candidates' loads from the view, or a probe of those compared.
Routed(r) ==
  /\ stage[r] = "answered"
  /\ LET m == Decision(Router, answer[r])
     IN  /\ m # Fails
         /\ \E seq \in Comparisons(Dispatch.type, Candidates(m)) :
              IF Probes
              THEN /\ stage' = [stage EXCEPT ![r] = "probing"]
                   /\ compared' = [compared EXCEPT ![r] = seq]
                   /\ unread' = [unread EXCEPT ![r] = ToSet(seq)]
                   /\ UNCHANGED <<estimate, answer, instance, memory, picks, vars>>
              ELSE Placed(r, seq) /\ Forget(r)
  /\ UNCHANGED <<doc, lane, busy, stream, gauges>>

\* The router's model answered nothing usable.
RoutingFails(r) ==
  /\ stage[r] = "answered"
  /\ Decision(Router, answer[r]) = Fails
  /\ stage' = [stage EXCEPT ![r] = "error"]
  /\ Forget(r)
  /\ UNCHANGED <<doc, lane, busy, instance, stream, gauges, memory, picks, vars>>

\* A scrape of a probe reports: the gauges now, or a failure.
Scraped(r, i) ==
  /\ stage[r] = "probing"
  /\ i \in unread[r]
  /\ unread' = [unread EXCEPT ![r] = @ \ {i}]
  /\ \/ gauges' = [gauges EXCEPT ![i] = AtEngine(i)]
     \/ UNCHANGED gauges
  /\ UNCHANGED <<doc, stage, lane, busy, estimate, answer, compared, instance, stream, memory, picks, vars>>

\* The probe returns: the choice among the probed, on the view's loads.
Probed(r) ==
  /\ stage[r] = "probing"
  /\ unread[r] = {}
  /\ \A i \in ToSet(compared[r]) : gauges[i] # None
  /\ Placed(r, compared[r])
  /\ Forget(r)
  /\ UNCHANGED <<doc, lane, busy, stream, gauges>>

\* InstanceStateUnavailable: an engine that was never read.
ProbeFails(r) ==
  /\ stage[r] = "probing"
  /\ unread[r] = {}
  /\ \E i \in ToSet(compared[r]) : gauges[i] = None
  /\ stage' = [stage EXCEPT ![r] = "error"]
  /\ Forget(r)
  /\ UNCHANGED <<doc, lane, busy, instance, stream, gauges, memory, picks, vars>>

\* A poller's scrape.
Polled(i) ==
  /\ ~Probes
  /\ Dispatch.count = "engine"
  /\ gauges[i] # AtEngine(i)
  /\ gauges' = [gauges EXCEPT ![i] = AtEngine(i)]
  /\ UNCHANGED <<doc, stage, lane, busy, selection_vars, instance, stream, memory, picks, vars>>

-----------------------------------------------------------------------------
(* Service._serve *)

Sets(r, s) ==
  /\ stream' = [stream EXCEPT ![r] = s]
  /\ UNCHANGED <<doc, stage, lane, busy, selection_vars, instance, gauges, memory, picks>>

Post(r) ==
  /\ stage[r] = "serving"
  /\ stream[r] = NoStream
  /\ \E s \in {Accepted200} \cup Breaks : Sets(r, s)
  /\ UNCHANGED vars

Receives(r, e) ==
  /\ Streaming(stream[r])
  /\ e \in NextEvents(stream[r])
  /\ Sets(r, AfterEvent(stream[r], e))
  /\ IF Reports(stream[r], e) THEN Progressed(r, e.tokens) ELSE UNCHANGED vars

\* The body ends, after its last event or anywhere before; or the call is interrupted, also between the last event
\* and the end of the body.
BodyEnds(r) ==
  /\ Streaming(stream[r])
  /\ \E s \in {AfterBody(stream[r]), Failed("failed"), Failed("timed_out")}
                \cup {AfterUnterminated(stream[r], e) : e \in NextEvents(stream[r])} :
       Sets(r, s)
  /\ UNCHANGED vars

\* observe_completion of a success, observe_timeout of a timeout; other failures teach nothing.
Learned(result, i, sample) ==
  CASE result = "ok" -> ObserveCompletion(Dispatch.type, memory, i, sample)
    [] result = "timed_out" -> ObserveTimeout(Dispatch.type, memory, i)
    [] OTHER -> memory

\* generate() has its result, or raised: the token is closed and the dispatcher told.
Settles(r, sample) ==
  /\ stage[r] = "serving"
  /\ stream[r].result # "none"
  /\ Closed(r, instance[r])
  /\ memory' = Learned(stream[r].result, instance[r], sample)
  /\ stage' = [stage EXCEPT ![r] = IF stream[r].result = "ok" THEN "ok" ELSE "error"]
  /\ stream' = [stream EXCEPT ![r] = NoStream]
  /\ instance' = [instance EXCEPT ![r] = None]
  /\ UNCHANGED <<doc, lane, busy, selection_vars, gauges, picks>>

\* Mutant: a cancellation is no failure, and its token stays open.
ClientGoesOpen(r) ==
  /\ \/ stage[r] \in {"estimating", "lane", "probing"}
     \/ stage[r] = "serving" /\ stream[r].result = "none"
  /\ stage' = [stage EXCEPT ![r] = "error"]
  /\ lane' = RemoveFirst(lane, r)
  /\ stream' = [stream EXCEPT ![r] = NoStream]
  /\ instance' = [instance EXCEPT ![r] = None]
  /\ Forget(r)
  /\ UNCHANGED <<doc, busy, gauges, memory, picks, vars>>

\* The client goes: the handler is cancelled at the await it is in.  A routing call that has begun goes on.
ClientGoes(r) ==
  /\ \/ stage[r] \in {"estimating", "lane", "probing"}
     \/ stage[r] = "serving" /\ stream[r].result = "none"
  /\ stage' = [stage EXCEPT ![r] = "error"]
  /\ lane' = RemoveFirst(lane, r)
  /\ IF stage[r] = "serving" THEN Closed(r, instance[r]) ELSE UNCHANGED vars
  /\ stream' = [stream EXCEPT ![r] = NoStream]
  /\ instance' = [instance EXCEPT ![r] = None]
  /\ Forget(r)
  /\ UNCHANGED <<doc, busy, gauges, memory, picks>>

-----------------------------------------------------------------------------

PipelineNext ==
  \/ \E r \in Requests :
       \/ Accept(r) \/ EstimateFails(r) \/ Routed(r) \/ RoutingFails(r) \/ Probed(r) \/ ProbeFails(r)
       \/ Post(r) \/ BodyEnds(r) \/ ClientGoes(r)
       \/ \E a \in Answers(Router) : CallEnds(r, a)
       \/ \E e \in Estimates : Estimated(r, e)
       \/ \E i \in Fleet : Scraped(r, i)
       \/ \E e \in NextEvents(stream[r]) : Receives(r, e)
       \/ \E sample \in Samples : Settles(r, sample)
  \/ CallStarts
  \/ \E i \in Fleet : Polled(i)

PipelineSpec == PipelineInit /\ [][PipelineNext]_pipeline_vars

-----------------------------------------------------------------------------

\* "progress on a closed or unknown token", "produced token count cannot decrease": whatever the router, the probe,
\* the engine and the client do, a request's token is dispatched once and makes no progress that the view refuses.
\* So every serving pipeline is a behaviour of TokenLedger, and what is proved of that holds here.
KeepsTokenLedger == Spec

\* in_flight: an instance's open tokens are exactly the requests being served there, so a selection that is
\* cancelled or fails leaves none; and a request waits in one place: the lane's queue, a thread of it (there are
\* no more calls than threads, those of cancelled selections included), the probe or its engine.  However far a stream
\* runs past its prediction, an open token has work left, so no instance that streams looks idle.
InFlightExact ==
  /\ TypeOK
  /\ RemainingPositive
  /\ \A i \in Instances : open_tokens[i] = {r \in Requests : instance[r] = i}
  /\ \A r \in Requests :
       /\ stage[r] = "serving" <=> instance[r] \in Fleet
       /\ r \in ToSet(lane) => stage[r] = "lane" /\ r \notin busy
       /\ stage[r] = "lane" => r \in ToSet(lane) \cup busy
  /\ CallsAModel(Router) => Cardinality(busy) <= Router.concurrency

\* A dispatcher's choice is by the loads at the moment of the choice, although others were dispatched while this
\* request waited for its router and its probe: the least outstanding candidate is taken; power of two never
\* takes a candidate that every other one beats; and the latency dispatcher never leaves a faster one.
Dispatches(r) == instance[r] = None /\ instance'[r] # None

PicksTheLeast ==
  [][\A r \in Requests :
       Dispatches(r) =>
         LET i == instance'[r]
             C == IF Probes THEN ToSet(compared[r]) ELSE Candidates(Decision(Router, answer[r]))
         IN  /\ Dispatch.type = "least_outstanding" => \A j \in C : Queue[i] <= Queue[j]
             /\ Dispatch.type = "po2" => Cardinality(C) = 1 \/ \E j \in C \ {i} : Queue[i] <= Queue[j]
             /\ Dispatch.type = "lowest_latency" => \A j \in C : NoSlower(memory.samples, i, j)]_pipeline_vars

\* One rotation per model, and one for the whole fleet under passthrough: over any interleaving of selections the
\* instances that share a rotation have been taken equally often, to within one.
RotationIsEven ==
  \A i, j \in Fleet : Router.type = "passthrough" \/ ModelOf[i] = ModelOf[j] => picks[i] <= picks[j] + 1

\* A reply that the client is given is the whole reply: the engine finished it, every piece of its text arrived
\* and its tokens are counted, whatever raced the end of the stream.
ServedWhole ==
  \A r \in Requests :
    stream[r].result = "ok" =>
      stream[r].ended /\ stream[r].output_tokens = stream[r].made /\ stream[r].text = stream[r].made

\* The router's rule decides: a decision is the one its rule states, and an artifact that was accepted never makes
\* a router fall to a model it does not name.
RoutesAsStated ==
  \A r \in Requests :
    stage[r] = "answered" =>
      LET m == Decision(Router, answer[r]) IN m # Fails => AsStated(Router, answer[r], m) /\ Candidates(m) # {}
=============================================================================
