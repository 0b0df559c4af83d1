------------------------------- MODULE Scrapes -------------------------------
(***************************************************************************)
(* The scrape side of routebalance/telemetry.py: what a TelemetryView       *)
(* remembers of each engine, and how concurrent scrapes of one engine are   *)
(* put in order.                                                            *)
(*                                                                          *)
(* fetch() scrapes the instances a decision asks for, and any number of     *)
(* fetches run at once; start() scrapes every instance once, and then a     *)
(* background task per instance scrapes it for ever.  The program starts a  *)
(* view or fetches from it; the class refuses a fetch only while it polls.  *)
(*                                                                          *)
(* A scrape is one _poll_one call.  It takes its issue number before the    *)
(* await and reports after it, so the scrapes of one instance report in any *)
(* order.  What a scrape read is abstracted to its issue number: the number *)
(* stands for the gauges it found and for requested_at, the clock at issue. *)
(***************************************************************************)
EXTENDS Integers, FiniteSets

CONSTANTS
  Instances,    \* the fleet
  Fetchers,     \* the tasks that may be inside fetch() at the same time
  MaxScrapes    \* bound: scrapes issued in a behaviour

Starter == "start"      \* the scrapes of start()'s gather
Poller  == "poll"       \* the scrapes of the background tasks, one per instance

ASSUME ScrapesAssumption ==
  /\ IsFiniteSet(Instances)
  /\ Starter \notin Fetchers
  /\ Poller \notin Fetchers
  /\ MaxScrapes \in Nat

Callers == Fetchers \cup {Starter, Poller}

None == 0               \* no scrape outstanding; no snapshot yet

VARIABLES
  seq,         \* _seq: the last issue number given out
  entry,       \* _entries: the outcome order, snapshot and error of each instance
  outstanding, \* outstanding[c][i]: the scrape of i that caller c awaits, or None
  state,       \* _state
  asked,       \* asked[f][i]: the scrape of i that f's current or last fetch issued
  answered,    \* history: the instances whose scrape in that fetch brought a good reply
  loads        \* loads[f][i]: what f's last fetch returned of i; Unread while it runs or raised

vars == <<seq, entry, outstanding, state, asked, answered, loads>>

NoScrapes == [i \in Instances |-> None]

Unread == [snapshot |-> None, error |-> FALSE]

NoLoads == [i \in Instances |-> Unread]

Entries == [outcome_seq : Int, snapshot : Nat, error : BOOLEAN]

Loads == [snapshot : Nat, error : BOOLEAN]

\* What a Load takes from the entry: the snapshot, and the error of the newest outcome.
LoadOf(e) == [snapshot |-> e.snapshot, error |-> e.error]

-----------------------------------------------------------------------------

Init ==
  /\ seq = 0
  /\ entry = [i \in Instances |-> [outcome_seq |-> -1, snapshot |-> None, error |-> FALSE]]
  /\ outstanding = [c \in Callers |-> NoScrapes]
  /\ state = "idle"
  /\ asked = [f \in Fetchers |-> NoScrapes]
  /\ answered = [f \in Fetchers |-> {}]
  /\ loads = [f \in Fetchers |-> NoLoads]

\* gather(_poll_one ...): every scrape of the call is numbered before any of them reports.  The order
\* inside the call is free: it never orders two scrapes of one instance.
Numbered(want) ==
  {n \in [want -> seq + 1 .. seq + Cardinality(want)] :
     \A i, j \in want : i # j => n[i] # n[j]}

Gather(c, want, n) ==
  /\ seq + Cardinality(want) <= MaxScrapes
  /\ seq' = seq + Cardinality(want)
  /\ outstanding' = [outstanding EXCEPT
       ![c] = [i \in Instances |-> IF i \in want THEN n[i] ELSE @[i]]]

\* Mutants: a late older reply replaces a newer outcome; a late older failure does; a failure leaves no
\* trace; a failure forgets the last good snapshot.
AfterSuccessUnordered(e, s) == [outcome_seq |-> s, snapshot |-> s, error |-> FALSE]

AfterFailureUnordered(e, s) == [e EXCEPT !.outcome_seq = s, !.error = TRUE]

AfterFailureSilent(e, s) == IF s > e.outcome_seq THEN [e EXCEPT !.outcome_seq = s] ELSE e

AfterFailureForgets(e, s) ==
  IF s > e.outcome_seq THEN [outcome_seq |-> s, snapshot |-> None, error |-> TRUE] ELSE e

\* The two outcomes of a scrape, as _poll_one accepts or drops them.
AfterSuccess(e, s) ==
  IF s < e.outcome_seq THEN e
  ELSE [outcome_seq |-> s, snapshot |-> s, error |-> FALSE]

AfterFailure(e, s) ==
  IF s > e.outcome_seq THEN [outcome_seq |-> s, snapshot |-> e.snapshot, error |-> TRUE] ELSE e

Succeed(c, i) ==
  /\ outstanding[c][i] # None
  /\ entry' = [entry EXCEPT ![i] = AfterSuccess(@, outstanding[c][i])]
  /\ outstanding' = [outstanding EXCEPT ![c][i] = None]
  /\ answered' = IF c \in Fetchers THEN [answered EXCEPT ![c] = @ \cup {i}] ELSE answered
  /\ UNCHANGED <<seq, state, asked, loads>>

\* A malformed reply, a network error or the scrape timeout.
Fail(c, i) ==
  /\ outstanding[c][i] # None
  /\ entry' = [entry EXCEPT ![i] = AfterFailure(@, outstanding[c][i])]
  /\ outstanding' = [outstanding EXCEPT ![c][i] = None]
  /\ UNCHANGED <<seq, state, asked, answered, loads>>

-----------------------------------------------------------------------------
(* fetch(), fetch_round() *)

Fetching(f) == loads[f] = NoLoads /\ asked[f] # NoScrapes

FetchBegin(f) ==
  /\ state # "running"
  /\ ~Fetching(f)
  /\ \E want \in (SUBSET Instances) \ {{}} :
       \E n \in Numbered(want) :
          /\ Gather(f, want, n)
          /\ asked' = [asked EXCEPT ![f] = [i \in Instances |-> IF i \in want THEN n[i] ELSE None]]
  /\ answered' = [answered EXCEPT ![f] = {}]
  /\ loads' = [loads EXCEPT ![f] = NoLoads]
  /\ UNCHANGED <<entry, state>>

Wanted(f) == {i \in Instances : asked[f][i] # None}

\* The loads of the instances f asked for, as _loads reads them now.
LoadsNow(f) == [i \in Instances |-> IF i \in Wanted(f) THEN LoadOf(entry[i]) ELSE Unread]

Gathered(f) == Fetching(f) /\ outstanding[f] = NoScrapes

\* _loads: every instance asked for has been read at least once.
FetchReturn(f) ==
  /\ Gathered(f)
  /\ \A i \in Wanted(f) : entry[i].snapshot # None
  /\ loads' = [loads EXCEPT ![f] = LoadsNow(f)]
  /\ UNCHANGED <<seq, entry, outstanding, state, asked, answered>>

\* _loads raises: some instance was never read.
FetchRaise(f) ==
  /\ Gathered(f)
  /\ \E i \in Wanted(f) : entry[i].snapshot = None
  /\ asked' = [asked EXCEPT ![f] = NoScrapes]
  /\ answered' = [answered EXCEPT ![f] = {}]
  /\ UNCHANGED <<seq, entry, outstanding, state, loads>>

-----------------------------------------------------------------------------
(* start(), the pollers, stop() *)

Start ==
  /\ state = "idle"
  /\ state' = "starting"
  /\ \E n \in Numbered(Instances) : Gather(Starter, Instances, n)
  /\ UNCHANGED <<entry, asked, answered, loads>>

\* Mutant: start() does not look whether stop() was called meanwhile.
StartReturnDeaf ==
  /\ state \in {"starting", "stopped"}
  /\ seq > 0
  /\ outstanding[Starter] = NoScrapes
  /\ state' = IF \A i \in Instances : entry[i].snapshot # None THEN "running" ELSE "stopped"
  /\ UNCHANGED <<seq, entry, outstanding, asked, answered, loads>>

\* start() after its gather.  A stop() during the first scrapes leaves no poller behind.
StartReturn ==
  /\ state = "starting"
  /\ outstanding[Starter] = NoScrapes
  /\ state' = IF \A i \in Instances : entry[i].snapshot # None THEN "running" ELSE "stopped"
  /\ UNCHANGED <<seq, entry, outstanding, asked, answered, loads>>

\* One turn of _run_one, after its sleep.
Poll(i) ==
  /\ state = "running"
  /\ outstanding[Poller][i] = None
  /\ \E n \in Numbered({i}) : Gather(Poller, {i}, n)
  /\ UNCHANGED <<entry, state, asked, answered, loads>>

\* The pollers are cancelled inside their await: CancelledError is no scrape outcome.
Stop ==
  /\ state # "stopped"
  /\ state' = "stopped"
  /\ outstanding' = [outstanding EXCEPT ![Poller] = NoScrapes]
  /\ UNCHANGED <<seq, entry, asked, answered, loads>>

-----------------------------------------------------------------------------

Report == \E c \in Callers, i \in Instances : Succeed(c, i) \/ Fail(c, i)

Next ==
  \/ Report
  \/ \E f \in Fetchers : FetchBegin(f) \/ FetchReturn(f) \/ FetchRaise(f)
  \/ Start \/ StartReturn
  \/ \E i \in Instances : Poll(i)
  \/ Stop

Spec == Init /\ [][Next]_vars

-----------------------------------------------------------------------------

TypeOK ==
  /\ seq \in Nat
  /\ entry \in [Instances -> Entries]
  /\ outstanding \in [Callers -> [Instances -> Nat]]
  /\ state \in {"idle", "starting", "running", "stopped"}
  /\ asked \in [Fetchers -> [Instances -> Nat]]
  /\ answered \in [Fetchers -> SUBSET Instances]
  /\ loads \in [Fetchers -> [Instances -> Loads]]

\* Load.error is "the last scrape's failure when it is not this snapshot's": an instance carries an
\* error exactly when the newest outcome accepted for it is not the scrape its snapshot came from.
ErrorMeansNewerFailure ==
  \A i \in Instances : entry[i].error <=> entry[i].snapshot < entry[i].outcome_seq

\* "Scrapes are ordered by issue sequence, never by timestamp": whatever order the replies come in, what
\* is known of an instance only moves to later scrapes, and a known instance is never forgotten.
OutcomesMoveForward ==
  [][\A i \in Instances :
       /\ entry'[i].outcome_seq >= entry[i].outcome_seq
       /\ entry'[i].snapshot >= entry[i].snapshot]_vars

\* A load that fetch() returns without an error was scraped by this fetch or by one issued later, never
\* before it: a concurrent fetch cannot hand a decision an older view of an engine and call it good.
FetchIsFresh ==
  \A f \in Fetchers, i \in Instances :
    loads[f][i] # Unread /\ ~loads[f][i].error => loads[f][i].snapshot >= asked[f][i]

\* stop() is final: a view stopped while start() still waits for its first scrapes never gets pollers, and
\* no poller's scrape outlives stop().
StopIsFinal ==
  [][state' = "stopped" \/ state = "stopped" =>
       state' = "stopped" /\ outstanding'[Poller] = NoScrapes]_vars

\* A polled view never serves a decision blind: from the moment it runs, every instance has a snapshot,
\* whatever the later scrapes bring.
RunningNeverBlind ==
  state = "running" => \A i \in Instances : entry[i].snapshot # None

\* fetch(): "from this fetch's scrapes, or, for an instance whose scrape failed, timed out or was malformed,
\* its last good snapshot": a fetch whose own scrape brought a good reply answers with that one or a later one.
FetchUsesItsOwnScrape ==
  \A f \in Fetchers, i \in Instances :
    loads[f][i] # Unread /\ i \in answered[f] => loads[f][i].snapshot >= asked[f][i]
=============================================================================
