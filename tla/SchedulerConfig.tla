--------------------------- MODULE SchedulerConfig ---------------------------
(***************************************************************************)
(* Which scheduler documents routebalance/config.py accepts: the rules of   *)
(* SchedulerConfig and of its sections that relate one key to another, and  *)
(* those of a fleet file and its hosts.  A key that a document leaves out   *)
(* or sets to null is None.                                                 *)
(***************************************************************************)
EXTENDS Integers, SequencesExt, FiniteSetsExt, Functions

CONSTANT None

\* LATENCY_PAIRS: the sources of the time per output token and the envelopes they have.
LatencyPairs ==
  {<<"constant", "own_length">>, <<"constant", "queue_aware">>, <<"xgboost", "queue_aware">>,
   <<"profiled_curve", "batch_aware">>, <<"constant", "batch_aware">>}

LoadReaders == {"least_outstanding", "po2"}

WeightsOK(w) == w # None => (\A k \in DOMAIN w : w[k] >= 0) /\ FoldFunction(+, 0, w) = 100

RoundsOK(r) == (r.max_batch = None) = r.adaptive /\ (r.timeout_ms = None) = r.adaptive

LatencyOK(l) == <<l.source, l.envelope>> \in LatencyPairs

RouterOK(r) ==
  /\ (r.type = "passthrough") = (r.concurrency = None)
  /\ r.concurrency # None => r.concurrency >= 1

DispatchOK(d) ==
  /\ (d.type = "lowest_latency") = (d.latency_window # None)
  /\ (d.type \in LoadReaders) = (d.count # None)

ModeOK(c) ==
  LET rb == c.mode = "routebalance"
      scores == rb \/ (c.pipeline # None /\ c.pipeline.router.type = "rb_decoupled")
      sweep == ~rb /\ c.pending_decode = "own_length"
  IN  /\ rb = (c.pipeline = None)
      /\ scores = (c.weights # None)
      /\ rb => c.pending_decode # None
      /\ rb = (c.normalize_over # None)
      /\ ~rb => c.pending_decode \in {None, "own_length"}
      /\ rb => c.telemetry_read # "per_request"
      /\ ~rb => c.telemetry_read # "per_round"
      /\ ~rb => c.dead_reckoning = sweep
      /\ ~rb => ~c.admission_filter

ReadsOK(c) ==
  c.pipeline # None =>
    LET d == c.pipeline.dispatch
    IN  /\ c.telemetry_read = "per_request" => d.type \in LoadReaders /\ d.count = "engine"
        /\ c.dead_reckoning => d.count # "engine"

\* parse_scheduler
Accepted(c) ==
  /\ WeightsOK(c.weights)
  /\ RoundsOK(c.rounds)
  /\ LatencyOK(c.latency)
  /\ c.pipeline # None => RouterOK(c.pipeline.router) /\ DispatchOK(c.pipeline.dispatch)
  /\ ModeOK(c)
  /\ ReadsOK(c)

-----------------------------------------------------------------------------
(* load_fleet: tiers by id, hosts by node, and the instances in the file's order *)

ServedAt(h) == IF h.service_address = None THEN h.address ELSE h.service_address

Endpoints(i, hosts) == {<<hosts[i.node].address, i.port>>, <<ServedAt(hosts[i.node]), i.port>>}

FleetOK(tiers, hosts, instances) ==
  LET places == 1 .. Len(instances)
  IN  /\ \A t, u \in DOMAIN tiers : t # u => <<tiers[t].model, tiers[t].gpu>> # <<tiers[u].model, tiers[u].gpu>>
      /\ \A n, m \in DOMAIN hosts : hosts[n].address = hosts[m].address => hosts[n].gpu = hosts[m].gpu
      /\ \A k \in places :
           /\ instances[k].tier \in DOMAIN tiers
           /\ instances[k].node \in DOMAIN hosts
           /\ hosts[instances[k].node].gpu = tiers[instances[k].tier].gpu
      /\ \A j, k \in places :
           j < k => /\ instances[j].id # instances[k].id
                    /\ Endpoints(instances[j], hosts) \cap Endpoints(instances[k], hosts) = {}
      /\ DOMAIN tiers = {instances[k].tier : k \in places}
=============================================================================
