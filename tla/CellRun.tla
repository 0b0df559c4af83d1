-------------------------------- MODULE CellRun --------------------------------
(***************************************************************************)
(* scripts/run_cell.sh with tools/cell_driver.py, tools/direct.py,          *)
(* bench/runner.py and gates/*: one experiment cell, from the drain to its  *)
(* verdict, in a world that does not stand still.  Between any two steps    *)
(* somebody may send a request to an engine or through the scheduler,       *)
(* restart or redeploy an engine, restart the scheduler, or give it another *)
(* configuration, or a log writer of the scheduler fails; the evidence that *)
(* the script gathers (what the warm-up found cached, counters before and   *)
(* after, a window of the decision log, manifests) has to show it.          *)
(*                                                                          *)
(* Abstracted: prompts and replies (a request counts one token when it is   *)
(* prefilled and one when it ends), the values inside decision lines (the   *)
(* rest of gates.arm), code and launch digests, booster calls, the latency  *)
(* sweep.  A step that fails for a reason outside this module is Stalls.    *)
(* Publication, mirror and parity come after the verdict.                   *)
(***************************************************************************)
EXTENDS Integers, Sequences, FiniteSets

CONSTANTS
  Engines,
  Requests,        \* the cell's requests
  Warmups,         \* requests_per_instance of the warm-up plan
  MaxFaults,       \* bound: disturbances in a behaviour
  None             \* no engine, no request of the cell

ASSUME CellAssumption ==
  /\ IsFiniteSet(Engines) /\ IsFiniteSet(Requests)
  /\ Engines # {} /\ Requests # {}
  /\ None \notin Engines \cup Requests
  /\ Warmups \in Nat /\ Warmups >= 2
  /\ MaxFaults \in Nat

Configs == {"mine", "other"}

VARIABLES
  engine,    \* engine[e], as it is: [start: its process, deployed: the one in the deploy record, finished and tokens:
             \*   its serving counters, cache: whose prompts its prefix cache holds, foreign: somebody's request on it]
  sched,     \* the scheduler, as it is: [proc, conf: its configuration, logged: lines on disk, buffer: lines
             \*   not on disk, active: requests in service, failed: the log writers that failed]
  file,      \* decisions.jsonl in --scheduler-log-dir, the log directory of process 1
  pos,       \* pos[r]: "unsent", "sent", "replied" or "failed"
  at,        \* at[r]: the engine that its reply names
  warm,      \* warm[e]: warm-up steps done: the prime, the reset, the requests
  step,      \* where run_cell.sh is
  ev,        \* the evidence in the attempt directory
  faults,    \* disturbances so far
  hist       \* history: [touched: engines disturbed between their two readings, dirty: engines whose cache held
             \*   more than the warm-up when the runner began, servers: the processes and configurations that
             \*   served the cell's requests, failed: a log writer failed before the last stats, clean: the log
             \*   directory was right and fresh at the start, and no writer failed]

vars == <<engine, sched, file, pos, at, warm, step, ev, faults, hist>>
world == <<engine, sched, file>>
cell == <<pos, at, warm>>

Unread == [start |-> 0, finished |-> 0, tokens |-> 0]

Line(r, e) == [req |-> r, on |-> e, conf |-> sched.conf]

Init ==
  /\ \E c \in SUBSET {"warm", "foreign"} :
       engine = [e \in Engines |-> [start |-> 1, deployed |-> 1, finished |-> 0, tokens |-> 0, cache |-> c,
                                    foreign |-> "none"]]
  /\ \E p \in 1 .. 2, c \in Configs, n, m \in 0 .. 1, w \in {{}, {"lag"}} :
       /\ sched = [proc |-> p, conf |-> c, logged |-> n, buffer |-> <<>>, active |-> 0, failed |-> w]
       /\ file = [k \in 1 .. (IF p = 1 THEN n ELSE m) |-> [req |-> None, on |-> None, conf |-> c]]
       /\ hist = [touched |-> {}, dirty |-> {}, servers |-> {}, failed |-> w # {}, clean |-> p = 1 /\ n = 0 /\ w = {}]
  /\ pos = [r \in Requests |-> "unsent"]
  /\ at = [r \in Requests |-> None]
  /\ warm = [e \in Engines |-> 0]
  /\ step = "drain scheduler"
  /\ ev = [before |-> [e \in Engines |-> Unread], after |-> [e \in Engines |-> Unread],
           found |-> [e \in Engines |-> <<>>],
           logged |-> 0, start |-> 0, failures |-> {}, identity_end |-> "unread", logged_after |-> 0, slice |-> <<>>,
           manifest_after |-> "unread", valid |-> FALSE]
  /\ faults = 0

Idle(e) == engine[e].foreign = "none"
AllIdle == \A e \in Engines : Idle(e)

-----------------------------------------------------------------------------
(* Before the runner.  A check that fails ends the script with exit code 2. *)

Check(here, ok, next) == step = here /\ step' = IF ok THEN next ELSE "refused"

\* cell_driver drain: first the scheduler, then the engines.
DrainScheduler ==
  /\ step = "drain scheduler" /\ sched.active = 0
  /\ step' = "drain engines"
  /\ UNCHANGED <<world, cell, ev, faults, hist>>

DrainEngines ==
  /\ step = "drain engines" /\ AllIdle
  /\ step' = "fresh"
  /\ UNCHANGED <<world, cell, ev, faults, hist>>

\* cell_driver fresh (D132): the process has logged no decision.
Fresh ==
  /\ Check("fresh", sched.logged + Len(sched.buffer) = 0, "post")
  /\ UNCHANGED <<world, cell, ev, faults, hist>>

\* cell_driver post-config; the scheduler refuses while a request is in service.
PostConfig ==
  /\ Check("post", sched.active = 0, "preflight")
  /\ sched' = IF sched.active = 0 THEN [sched EXCEPT !.conf = "mine"] ELSE sched
  /\ UNCHANGED <<engine, file, cell, ev, faults, hist>>

Preflight ==
  /\ Check("preflight", AllIdle /\ sched.conf = "mine" /\ sched.active = 0 /\ sched.buffer = <<>>, "engines before")
  /\ UNCHANGED <<world, cell, ev, faults, hist>>

Reading(e) == [start |-> engine[e].start, finished |-> engine[e].finished, tokens |-> engine[e].tokens]

\* tools/engines.py: the engine that answers must be the process in the deploy record.
EngineBefore(e) ==
  /\ step = "engines before"
  /\ ev.before[e] = Unread
  /\ IF engine[e].start = engine[e].deployed
     THEN /\ ev' = [ev EXCEPT !.before[e] = Reading(e)]
          /\ step' = IF \A f \in Engines \ {e} : ev.before[f] # Unread THEN "warm-up" ELSE step
     ELSE step' = "refused" /\ UNCHANGED ev
  /\ UNCHANGED <<world, cell, faults, hist>>

\* One request of the warm-up prompt; the counters show whether it was in the cache.
WarmRequest(e) ==
  engine' = [engine EXCEPT ![e].finished = @ + 1, ![e].tokens = @ + 2, ![e].cache = @ \cup {"warm"}]

\* direct.warm_up on one engine: the prime, the reset (which may fail to empty the cache: a fault), then the
\* requests, of which the first must find nothing cached and the second something (D128).
WarmUp(e) ==
  LET hit == "warm" \in engine[e].cache
      telling == warm[e] \in 2 .. 3
  IN  /\ step = "warm-up"
      /\ warm[e] < Warmups + 2
      /\ warm' = [warm EXCEPT ![e] = @ + 1]
      /\ \/ warm[e] = 1 /\ engine' = [engine EXCEPT ![e].cache = {}] /\ UNCHANGED faults
         \/ warm[e] = 1 /\ faults < MaxFaults /\ faults' = faults + 1 /\ UNCHANGED engine
         \/ warm[e] # 1 /\ WarmRequest(e) /\ UNCHANGED faults
      /\ ev' = IF telling THEN [ev EXCEPT !.found[e] = Append(@, hit)] ELSE ev
      /\ step' = IF telling /\ hit = (warm[e] = 2) THEN "refused" ELSE step
      /\ UNCHANGED <<sched, file, pos, at, hist>>

WarmUpEnds ==
  /\ step = "warm-up"
  /\ \A e \in Engines : warm[e] = Warmups + 2
  /\ AllIdle
  /\ step' = "stats"
  /\ UNCHANGED <<world, cell, ev, faults, hist>>

\* Nothing buffered, nothing in service.
Settled == sched.buffer = <<>> /\ sched.active = 0

\* cell_driver before: the settled stats, then the manifest, then the log file.
StatsBefore ==
  /\ step = "stats" /\ Settled
  /\ ev' = [ev EXCEPT !.logged = sched.logged, !.failures = sched.failed]
  /\ step' = "manifest"
  /\ UNCHANGED <<world, cell, faults, hist>>

ManifestBefore ==
  /\ Check("manifest", sched.conf = "mine", "window")
  /\ UNCHANGED <<world, cell, ev, faults, hist>>

\* Mutant: the window opens one line early.
WindowOpensEarly ==
  /\ Check("window", Len(file) = ev.logged, "identity")
  /\ ev' = [ev EXCEPT !.start = Len(file) + 1]
  /\ UNCHANGED <<world, cell, faults, hist>>

WindowOpens ==
  /\ Check("window", Len(file) = ev.logged, "identity")
  /\ ev' = [ev EXCEPT !.start = Len(file)]
  /\ UNCHANGED <<world, cell, faults, hist>>

-----------------------------------------------------------------------------
(* The runner (bench/runner.py) *)

RunnerStarts ==
  /\ Check("identity", sched.conf = "mine", "sending")
  /\ hist' = [hist EXCEPT !.dirty = {e \in Engines : ~(engine[e].cache \subseteq {"warm"})}]
  /\ UNCHANGED <<world, cell, ev, faults>>

Send(r) ==
  /\ step = "sending" /\ pos[r] = "unsent"
  /\ pos' = [pos EXCEPT ![r] = "sent"]
  /\ sched' = [sched EXCEPT !.active = @ + 1]
  /\ UNCHANGED <<engine, file, at, warm, step, ev, faults, hist>>

\* The scheduler serves it on engine e, writes its decision line and replies.
Serve(r, e) ==
  /\ pos[r] = "sent"
  /\ pos' = [pos EXCEPT ![r] = "replied"]
  /\ at' = [at EXCEPT ![r] = e]
  /\ engine' = [engine EXCEPT ![e].finished = @ + 1, ![e].tokens = @ + 2, ![e].cache = @ \cup {"own"}]
  /\ sched' = [sched EXCEPT !.active = @ - 1, !.buffer = Append(@, Line(r, e))]
  /\ hist' = [hist EXCEPT !.servers = @ \cup {<<sched.proc, sched.conf>>}]
  /\ UNCHANGED <<file, warm, step, ev, faults>>

\* The record is written (an existing one is never overwritten) with the identity read after the last reply, or the
\* error of that read.
RunnerEnds ==
  /\ step = "sending"
  /\ \A r \in Requests : pos[r] \in {"replied", "failed"}
  /\ step' = "settle"
  /\ \/ ev' = [ev EXCEPT !.identity_end = sched.conf] /\ UNCHANGED faults
     \/ faults < MaxFaults /\ faults' = faults + 1 /\ UNCHANGED ev
  /\ UNCHANGED <<world, cell, hist>>

-----------------------------------------------------------------------------
(* After the runner.  A step that fails leaves its files out, and the script goes on. *)

WindowAgrees == Len(file) - ev.start = sched.logged - ev.logged

\* cell_driver after: the settled stats that agree with the file (or the wait for them ends), the window, the manifest.
StatsAfter ==
  /\ step = "settle" /\ Settled /\ WindowAgrees
  /\ ev' = [ev EXCEPT !.logged_after = sched.logged, !.failures = @ \cup sched.failed]
  /\ step' = "slice"
  /\ UNCHANGED <<world, cell, faults, hist>>

StatsAfterTimesOut ==
  /\ step = "settle" /\ Settled /\ ~WindowAgrees
  /\ step' = "engines after"
  /\ UNCHANGED <<world, cell, ev, faults, hist>>

WindowCloses ==
  /\ step = "slice"
  /\ LET lines == SubSeq(file, ev.start + 1, Len(file))
         ok == /\ Len(lines) = ev.logged_after - ev.logged
               /\ \A k \in DOMAIN lines : lines[k].conf = "mine"
     IN  /\ ev' = IF ok THEN [ev EXCEPT !.slice = lines] ELSE ev
         /\ step' = IF ok THEN "manifest after" ELSE "engines after"
  /\ UNCHANGED <<world, cell, faults, hist>>

ManifestAfter ==
  /\ step = "manifest after"
  /\ ev' = [ev EXCEPT !.manifest_after = sched.conf]
  /\ step' = "engines after"
  /\ UNCHANGED <<world, cell, faults, hist>>

EngineAfter(e) ==
  /\ step = "engines after"
  /\ ev.after[e] = Unread
  /\ IF engine[e].start = engine[e].deployed
     THEN /\ ev' = [ev EXCEPT !.after[e] = Reading(e)]
          /\ step' = IF \A f \in Engines \ {e} : ev.after[f] # Unread THEN "gates" ELSE step
     ELSE step' = "gates" /\ UNCHANGED ev
  /\ UNCHANGED <<world, cell, faults, hist>>

\* analysis.manifest.cell_problems: every request has its reply, the identity is the same at both ends.
RecordOK == (\A r \in Requests : pos[r] = "replied") /\ ev.identity_end = "mine"

\* Mutant: only the finished requests are compared.
TrafficCountsRequests ==
  \A e \in Engines :
    LET own == Cardinality({r \in Requests : at[r] = e}) + Warmups + 1
    IN  ev.after[e].finished - ev.before[e].finished = own

\* gates.cell.traffic_problems: each engine served what the warm-up and the record say, and nothing else (D132).
TrafficOK ==
  \A e \in Engines :
    LET own == Cardinality({r \in Requests : at[r] = e}) + Warmups + 1
    IN  /\ ev.after[e].finished - ev.before[e].finished = own
        /\ ev.after[e].tokens - ev.before[e].tokens = 2 * own

\* gates.cell.engine_changes: one process per engine (D48).
SameProcesses == \A e \in Engines : ev.after[e] # Unread /\ ev.after[e].start = ev.before[e].start

\* gates.cell.reset_problems: the warm-up's record proves the reset on every engine (D128).
ResetProven == \A e \in Engines : ev.found[e] = <<FALSE, TRUE>>

\* Mutant: a failed writer is not asked for.
FreshAtStart == ev.logged = 0 /\ ev.manifest_after # "unread"

\* gates.cell.scheduler_problems: the process had logged no decision, and no log writer of it failed; the stats after
\* are written with the manifest after.
SchedulerOK == ev.logged = 0 /\ ev.manifest_after # "unread" /\ ev.failures = {}

IsolationOK == ResetProven /\ TrafficOK /\ SchedulerOK

\* Mutant: a request without a decision line is let through.
ArmCountsLines == ev.manifest_after # "unread" /\ ev.logged_after - ev.logged = Len(ev.slice)

\* gates.arm._coverage: one decision line per request, none of anybody else.
ArmOK ==
  /\ ev.manifest_after # "unread"
  /\ ev.logged_after - ev.logged = Len(ev.slice)
  /\ \A r \in Requests : Cardinality({k \in DOMAIN ev.slice : ev.slice[k].req = r}) = 1
  /\ \A k \in DOMAIN ev.slice : ev.slice[k].req \in Requests

\* gates.zero_call: the manifest after is the manifest before.
ZeroCallOK == ev.manifest_after = "mine"

Verdict ==
  /\ step = "gates"
  /\ ev' = [ev EXCEPT !.valid = RecordOK /\ SameProcesses /\ IsolationOK /\ ArmOK /\ ZeroCallOK]
  /\ step' = "done"
  /\ UNCHANGED <<world, cell, faults, hist>>

-----------------------------------------------------------------------------
(* The world *)

\* The log reaches the disk; only process 1 writes in the directory that the driver reads.
Flush ==
  /\ sched.buffer # <<>> /\ "decisions" \notin sched.failed
  /\ sched' = [sched EXCEPT !.logged = @ + Len(sched.buffer), !.buffer = <<>>]
  /\ file' = IF sched.proc = 1 THEN file \o sched.buffer ELSE file
  /\ UNCHANGED <<engine, cell, step, ev, faults, hist>>

Over == step \in {"refused", "done"}

Fault == ~Over /\ faults < MaxFaults /\ faults' = faults + 1

Touch(e) ==
  hist' = [hist EXCEPT !.touched = IF ev.before[e] # Unread /\ ev.after[e] = Unread THEN @ \cup {e} ELSE @]

\* Somebody's request is prefilled on an engine, sent to it directly or through the scheduler; later it ends.
ForeignArrives(e) ==
  /\ Fault
  /\ Idle(e)
  /\ \E how \in {"direct", "scheduled"} :
       /\ engine' = [engine EXCEPT ![e].tokens = @ + 1, ![e].cache = @ \cup {"foreign"}, ![e].foreign = how]
       /\ sched' = IF how = "scheduled" THEN [sched EXCEPT !.active = @ + 1] ELSE sched
  /\ Touch(e)
  /\ UNCHANGED <<file, cell, step, ev>>

\* What the scheduler does when a request of somebody else ends on e.
SchedulerSeesEnd(e) ==
  sched' = IF engine[e].foreign = "scheduled"
           THEN [sched EXCEPT !.active = @ - 1, !.buffer = Append(@, Line(None, e))]
           ELSE sched

ForeignEnds(e) ==
  /\ ~Over
  /\ ~Idle(e)
  /\ engine' = [engine EXCEPT ![e].finished = @ + 1, ![e].tokens = @ + 1, ![e].foreign = "none"]
  /\ SchedulerSeesEnd(e)
  /\ Touch(e)
  /\ UNCHANGED <<file, cell, step, ev, faults>>

\* An engine is relaunched, by deploy.sh (which rewrites its record) or otherwise.
EngineRestarts(e) ==
  /\ Fault
  /\ \E deployed \in {engine[e].deployed, engine[e].start + 1} :
       engine' = [engine EXCEPT ![e] = [start |-> engine[e].start + 1, deployed |-> deployed, finished |-> 0,
                                        tokens |-> 0, cache |-> {}, foreign |-> "none"]]
  /\ SchedulerSeesEnd(e)
  /\ Touch(e)
  /\ UNCHANGED <<file, cell, step, ev>>

\* The scheduler is restarted, with a new log directory; its last lines may reach the old one.  Requests in service
\* fail; an engine still finishes what it has.
SchedulerRestarts ==
  /\ Fault
  /\ \E c \in Configs :
       sched' = [proc |-> sched.proc + 2, conf |-> c, logged |-> 0, buffer |-> <<>>, active |-> 0,
                failed |-> {}]
  /\ hist' = [hist EXCEPT !.failed = FALSE]
  /\ file' \in {file, IF sched.proc = 1 THEN file \o sched.buffer ELSE file}
  /\ pos' = [r \in Requests |-> IF pos[r] = "sent" THEN "failed" ELSE pos[r]]
  /\ engine' = [e \in Engines |-> IF Idle(e) THEN engine[e] ELSE [engine[e] EXCEPT !.foreign = "direct"]]
  /\ UNCHANGED <<at, warm, step, ev>>

\* A log writer of the scheduler fails; requests are still served.  Lines of the decision log then stay in its buffer.
WriterFails ==
  /\ Fault
  /\ sched.failed = {}
  /\ \E log \in {"decisions", "lag"} : sched' = [sched EXCEPT !.failed = {log}]
  /\ hist' = [hist EXCEPT !.failed = step \notin {"slice", "manifest after", "engines after", "gates"}]
  /\ UNCHANGED <<engine, file, cell, step, ev>>

\* Somebody else posts a configuration; it is applied only while the scheduler is idle.
Reconfigured ==
  /\ Fault
  /\ sched.active = 0
  /\ \E c \in Configs : sched' = [sched EXCEPT !.conf = c]
  /\ UNCHANGED <<engine, file, cell, step, ev, hist>>

\* A request of the cell fails.
RequestFails(r) ==
  /\ Fault
  /\ pos[r] = "sent"
  /\ pos' = [pos EXCEPT ![r] = "failed"]
  /\ sched' = [sched EXCEPT !.active = @ - 1, !.buffer = Append(@, Line(r, None))]
  /\ UNCHANGED <<engine, file, at, warm, step, ev, hist>>

\* A step of the script fails for another reason, or runs out of time.
Stalls ==
  /\ Fault
  /\ step' = CASE step \in {"settle", "slice", "manifest after"} -> "engines after"
               [] step = "engines after" -> "gates"
               [] OTHER -> "refused"
  /\ step # "gates"
  /\ UNCHANGED <<world, cell, ev, hist>>

-----------------------------------------------------------------------------

Script ==
  \/ DrainScheduler \/ DrainEngines \/ Fresh \/ PostConfig \/ Preflight
  \/ WarmUpEnds \/ StatsBefore \/ ManifestBefore \/ WindowOpens
  \/ RunnerStarts \/ RunnerEnds
  \/ StatsAfter \/ StatsAfterTimesOut \/ WindowCloses \/ ManifestAfter \/ Verdict
  \/ \E e \in Engines : EngineBefore(e) \/ WarmUp(e) \/ EngineAfter(e)

Serving == \E r \in Requests : Send(r) \/ \E e \in Engines : Serve(r, e)

World ==
  \/ Flush \/ WriterFails \/ SchedulerRestarts \/ Reconfigured \/ Stalls
  \/ \E e \in Engines : ForeignArrives(e) \/ ForeignEnds(e) \/ EngineRestarts(e)
  \/ \E r \in Requests : RequestFails(r)

Next == Script \/ Serving \/ World

Spec == Init /\ [][Next]_vars

-----------------------------------------------------------------------------

Lines == [req : Requests \cup {None}, on : Engines \cup {None}, conf : Configs]

TypeOK ==
  /\ \A e \in Engines :
       /\ engine[e].start \in Nat \ {0} /\ engine[e].deployed \in Nat \ {0}
       /\ engine[e].finished \in Nat /\ engine[e].tokens \in Nat
       /\ engine[e].cache \subseteq {"warm", "own", "foreign"}
       /\ engine[e].foreign \in {"none", "direct", "scheduled"}
  /\ sched.proc \in Nat \ {0} /\ sched.conf \in Configs
  /\ sched.logged \in Nat /\ sched.active \in Nat
  /\ sched.failed \subseteq {"decisions", "lag"}
  /\ sched.buffer \in Seq(Lines) /\ file \in Seq(Lines)
  /\ pos \in [Requests -> {"unsent", "sent", "replied", "failed"}]
  /\ at \in [Requests -> Engines \cup {None}]
  /\ warm \in [Engines -> 0 .. Warmups + 2]
  /\ ev.slice \in Seq(Lines)
  /\ faults \in 0 .. MaxFaults

\* "the proven cache reset, no traffic but the cell's own" (D128, D132): if the verdict is valid, no engine was
\* restarted or reached by anybody else between its two readings, and the runner began on caches that held the
\* warm-up and nothing else.
ValidIsIsolated == ev.valid => hist.touched = {} /\ hist.dirty = {}

\* If the verdict is valid, one scheduler process served the whole cell under the cell's configuration, none of its log
\* writers had failed by the end of the cell's window (D134), and decisions.jsonl holds its line for every request, with
\* the engine that served it, and no other line.
ValidIsOneSystem ==
  ev.valid =>
    /\ Cardinality(hist.servers) = 1 /\ \A s \in hist.servers : s[2] = "mine"
    /\ ~hist.failed
    /\ Len(ev.slice) = Cardinality(Requests)
    /\ \A r \in Requests : \E k \in DOMAIN ev.slice : ev.slice[k] = [req |-> r, on |-> at[r], conf |-> "mine"]

\* A cell that nothing disturbs is neither refused nor invalid: the checks raise no false alarm.
UndisturbedIsValid == TypeOK /\ (Over /\ faults = 0 /\ hist.clean => ev.valid)
=============================================================================
