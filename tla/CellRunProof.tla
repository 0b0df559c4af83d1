----------------------------- MODULE CellRunProof -----------------------------
(***************************************************************************)
(* A valid verdict can be trusted, and a cell that nothing disturbs gets    *)
(* one, for any engines, requests and warm-ups and any number of            *)
(* disturbances.                                                            *)
(***************************************************************************)
EXTENDS CellRun, FunctionTheorems, FiniteSetTheorems, SequenceTheorems, TLAPS

EngineStates ==
  [start : Nat \ {0}, deployed : Nat \ {0}, finished : Nat, tokens : Nat,
   cache : SUBSET {"warm", "own", "foreign"}, foreign : {"none", "direct", "scheduled"}]

SchedulerStates ==
  [proc : Nat \ {0}, conf : Configs, logged : Nat, buffer : Seq(Lines), active : Nat,
   failed : SUBSET {"decisions", "lag"}]

Readings == [start : Nat, finished : Nat, tokens : Nat]

Evidence ==
  [before : [Engines -> Readings], after : [Engines -> Readings], found : [Engines -> Seq(BOOLEAN)],
   logged : Nat, start : Nat, failures : SUBSET {"decisions", "lag"}, identity_end : Configs \cup {"unread"},
   logged_after : Nat, slice : Seq(Lines), manifest_after : Configs \cup {"unread"}, valid : BOOLEAN]

History ==
  [touched : SUBSET Engines, dirty : SUBSET Engines, servers : SUBSET ((Nat \ {0}) \X Configs),
   failed : BOOLEAN, clean : BOOLEAN]

\* The steps of the script, in order.
Opening == {"drain scheduler", "drain engines", "fresh", "post", "preflight"}
Ahead == {"stats", "manifest", "window", "identity"}
Closing == {"slice", "manifest after", "engines after", "gates", "done"}
Steps == Opening \cup {"engines before", "warm-up"} \cup Ahead \cup {"sending", "settle"} \cup Closing \cup {"refused"}

Types ==
  /\ engine \in [Engines -> EngineStates]
  /\ sched \in SchedulerStates
  /\ file \in Seq(Lines)
  /\ pos \in [Requests -> {"unsent", "sent", "replied", "failed"}]
  /\ at \in [Requests -> Engines \cup {None}]
  /\ warm \in [Engines -> 0 .. Warmups + 2]
  /\ step \in Steps
  /\ ev \in Evidence
  /\ faults \in 0 .. MaxFaults
  /\ hist \in History

\* The scheduler counts what is in service: the cell's requests and somebody else's.
Sent == {r \in Requests : pos[r] = "sent"}
Scheduled == {e \in Engines : engine[e].foreign = "scheduled"}
InService == sched.active = Cardinality(Sent) + Cardinality(Scheduled)

\* What has happened by each step.
Order ==
  /\ step \in Opening => \A e \in Engines : ev.before[e] = Unread
  /\ step \in Opening \cup {"engines before"} => \A e \in Engines : warm[e] = 0
  /\ step \in {"warm-up"} \cup Ahead \cup {"sending", "settle"} \cup Closing =>
       \A e \in Engines : ev.before[e] # Unread
  /\ step \in Ahead \cup {"sending", "settle"} \cup Closing => \A e \in Engines : warm[e] = Warmups + 2
  /\ step \notin {"engines after", "gates", "done"} => \A e \in Engines : ev.after[e] = Unread
  /\ step \in Opening \cup {"engines before", "warm-up"} \cup Ahead => \A r \in Requests : pos[r] = "unsent"
  /\ step \in {"settle"} \cup Closing => \A r \in Requests : pos[r] \in {"replied", "failed"}
  /\ \A r \in Requests : at[r] \in Engines <=> pos[r] = "replied"
  /\ \A e \in hist.touched : ev.before[e] # Unread

\* The requests that the cell itself has sent to an engine.
Own(e) ==
  Cardinality({r \in Requests : at[r] = e})
    + (IF warm[e] = 0 THEN 0 ELSE IF warm[e] <= 2 THEN 1 ELSE warm[e] - 1)

\* An engine as its second reading found it, or will find it if it is taken now.
Now(e) == IF ev.after[e] = Unread THEN Reading(e) ELSE ev.after[e]

\* The counters move by the cell's own requests alone on an engine that nobody touched.  On one that somebody did,
\* they have moved further, unless they started again with a new process.
Counting(e) ==
  LET b == ev.before[e]
      n == Now(e)
  IN  b # Unread =>
        /\ n.start >= b.start
        /\ e \notin hist.touched =>
             n.start = b.start /\ n.finished = b.finished + Own(e) /\ n.tokens = b.tokens + 2 * Own(e)
        /\ e \in hist.touched /\ n.start = b.start => n.tokens > b.tokens + 2 * Own(e)

\* The warm-up would have been refused if the reset had left anything that the prime cannot vouch for.
Cached(e) ==
  step \in {"warm-up"} \cup Ahead /\ e \notin hist.touched =>
    /\ warm[e] = 1 => "warm" \in engine[e].cache
    /\ warm[e] = 2 => engine[e].cache = {} \/ ("warm" \in engine[e].cache /\ faults > 0)
    /\ warm[e] >= 3 => engine[e].cache = {"warm"}

\* What the warm-up has found: not cached, then cached.
Found(e) ==
  step # "refused" =>
    ev.found[e] = IF warm[e] <= 2 THEN <<>> ELSE IF warm[e] = 3 THEN <<FALSE>> ELSE <<FALSE, TRUE>>

\* The line of a request, wherever it is, names the engine that replied, and there is one only after its end.
TrueLine(x) ==
  x.req \in Requests =>
    /\ pos[x.req] \in {"replied", "failed"}
    /\ pos[x.req] = "replied" => x.on = at[x.req]

\* A process and configuration that served did so for a request whose lines, wherever they are, are of that process.
Served(s) ==
  \E r \in Requests :
    /\ pos[r] = "replied"
    /\ \A k \in 1 .. Len(file) : file[k].req = r => s[1] = 1 /\ file[k].conf = s[2]
    /\ \A k \in 1 .. Len(sched.buffer) : sched.buffer[k].req = r => s[1] = sched.proc /\ sched.buffer[k].conf = s[2]

LinesTrue ==
  /\ \A k \in 1 .. Len(file) : TrueLine(file[k])
  /\ \A k \in 1 .. Len(sched.buffer) : TrueLine(sched.buffer[k])

ServersServed ==
  /\ \A s \in hist.servers : Served(s)
  /\ \A r \in Requests : pos[r] = "replied" => hist.servers # {}

SliceOfFile ==
  \A k \in 1 .. Len(ev.slice) : ev.slice[k].conf = "mine" /\ \E j \in 1 .. Len(file) : file[j] = ev.slice[k]

FailureSeen ==
  /\ hist.failed => sched.failed # {}
  /\ step \in {"slice", "manifest after"} \/ ev.manifest_after # "unread" => (hist.failed => ev.failures # {})
  /\ ev.manifest_after # "unread" => step \in {"engines after", "gates", "done"}

Lined == LinesTrue /\ ServersServed /\ SliceOfFile /\ FailureSeen

Judged ==
  /\ ev.valid => step = "done"
  /\ hist.dirty \subseteq hist.touched
  /\ ValidIsIsolated /\ ValidIsOneSystem

\* As long as nothing disturbs the cell, each check finds what it looks for.
Log == file \o sched.buffer

\* The world is as the drain found it, and the writers write.
CalmWorld ==
  /\ hist.touched = {}
  /\ \A e \in Engines : engine[e].foreign = "none" /\ engine[e].start = engine[e].deployed
  /\ sched.proc = 1 /\ sched.failed = {}

\* The log holds one line of each request that was served, under the cell's configuration.
CalmLog ==
  /\ sched.logged = Len(file)
  /\ \A r \in Requests : pos[r] # "failed"
  /\ \A k \in 1 .. Len(Log) : Log[k].req \in Requests /\ pos[Log[k].req] = "replied" /\ Log[k].conf = "mine"
  /\ \A j, k \in 1 .. Len(Log) : Log[j].req = Log[k].req => j = k
  /\ \A r \in Requests : pos[r] = "replied" => \E k \in 1 .. Len(Log) : Log[k].req = r

CalmScript ==
  /\ step # "refused" /\ ev.failures = {}
  /\ step \notin {"drain scheduler", "drain engines", "fresh", "post"} => sched.conf = "mine"
  /\ ev.logged = 0 /\ ev.start = 0
  /\ step \in {"settle"} \cup Closing => ev.identity_end = "mine"
  /\ step \in Closing => sched.buffer = <<>> /\ ev.logged_after = Len(file)
  /\ step \in Closing \ {"slice"} => ev.slice = file
  /\ step \in {"engines after", "gates", "done"} => ev.manifest_after = "mine"
  /\ step \in {"gates", "done"} => \A e \in Engines : ev.after[e] # Unread
  /\ step = "done" => ev.valid

Calm == CalmWorld /\ CalmLog /\ CalmScript

IInv ==
  /\ Types /\ InService /\ Order /\ Lined /\ Judged
  /\ \A e \in Engines : Counting(e) /\ Cached(e) /\ Found(e)
  /\ faults = 0 /\ hist.clean => Calm

-----------------------------------------------------------------------------
(* Types *)

LEMMA LineTypes ==
  /\ \A r \in Requests \cup {None}, e \in Engines \cup {None} : sched.conf \in Configs => Line(r, e) \in Lines
  /\ <<>> \in Seq(Lines)
  /\ \A s \in Seq(Lines), t \in Seq(Lines) : s \o t \in Seq(Lines)
  /\ \A s \in Seq(Lines), x \in Lines : Append(s, x) \in Seq(Lines)
<1>1. \A r \in Requests \cup {None}, e \in Engines \cup {None} : sched.conf \in Configs => Line(r, e) \in Lines
  BY DEF Line, Lines
<1>2. <<>> \in Seq(Lines) BY EmptySeq
<1>3. \A s \in Seq(Lines), t \in Seq(Lines) : s \o t \in Seq(Lines) BY ConcatProperties
<1>4. \A s \in Seq(Lines), x \in Lines : Append(s, x) \in Seq(Lines) BY AppendProperties
<1> QED BY <1>1, <1>2, <1>3, <1>4

LEMMA ReadingTypes ==
  ASSUME Types, NEW e \in Engines
  PROVE  /\ Reading(e) \in Readings /\ Reading(e) # Unread
         /\ Reading(e).start = engine[e].start /\ Reading(e).finished = engine[e].finished
         /\ Reading(e).tokens = engine[e].tokens
BY DEF Types, EngineStates, Reading, Readings, Unread

LEMMA InitTypes == Init => Types
<1> SUFFICES ASSUME Init PROVE Types OBVIOUS
<1>1. engine \in [Engines -> EngineStates]
  <2>1. PICK c \in SUBSET {"warm", "foreign"} :
          engine = [e \in Engines |-> [start |-> 1, deployed |-> 1, finished |-> 0, tokens |-> 0, cache |-> c,
                                       foreign |-> "none"]]
    BY DEF Init
  <2>2. [start |-> 1, deployed |-> 1, finished |-> 0, tokens |-> 0, cache |-> c, foreign |-> "none"] \in EngineStates
    BY <2>1 DEF EngineStates
  <2> QED BY <2>1, <2>2
<1>2. sched \in SchedulerStates /\ file \in Seq(Lines) /\ hist \in History
  <2>1. PICK p \in 1 .. 2, c \in Configs, n \in 0 .. 1, m \in 0 .. 1, w \in {{}, {"lag"}} :
       /\ sched = [proc |-> p, conf |-> c, logged |-> n, buffer |-> <<>>, active |-> 0, failed |-> w]
       /\ file = [k \in 1 .. (IF p = 1 THEN n ELSE m) |-> [req |-> None, on |-> None, conf |-> c]]
       /\ hist = [touched |-> {}, dirty |-> {}, servers |-> {}, failed |-> w # {}, clean |-> p = 1 /\ n = 0 /\ w = {}]
    BY DEF Init
  <2>2. sched \in SchedulerStates BY <2>1, LineTypes DEF SchedulerStates
  <2>3. [req |-> None, on |-> None, conf |-> c] \in Lines /\ (IF p = 1 THEN n ELSE m) \in Nat BY <2>1 DEF Lines
  <2>4. file \in Seq(Lines)
    <3> DEFINE x == [req |-> None, on |-> None, conf |-> c]
               k == IF p = 1 THEN n ELSE m
    <3>1. file = [j \in 1 .. k |-> x] BY <2>1
    <3>2. x \in Lines /\ k \in Nat BY <2>3
    <3> HIDE DEF x, k
    <3>3. file \in [1 .. k -> Lines] BY <3>1, <3>2
    <3> QED BY <3>2, <3>3, SeqDef
  <2>5. hist \in History
    <3>1. (w # {}) \in BOOLEAN /\ (p = 1 /\ n = 0 /\ w = {}) \in BOOLEAN OBVIOUS
    <3> QED BY <2>1, <3>1 DEF History
  <2> QED BY <2>2, <2>4, <2>5
<1>3. ev \in Evidence
  <2>1. <<>> \in Seq(BOOLEAN) /\ <<>> \in Seq(Lines) BY EmptySeq
  <2>2. Unread \in Readings BY DEF Unread, Readings
  <2> QED BY <2>1, <2>2 DEF Init, Evidence
<1>4. step \in Steps BY DEF Init, Steps, Opening
<1>5. pos \in [Requests -> {"unsent", "sent", "replied", "failed"}] /\ at \in [Requests -> Engines \cup {None}]
  BY DEF Init
<1>6. warm \in [Engines -> 0 .. Warmups + 2] /\ faults \in 0 .. MaxFaults
  <2>1. 0 \in 0 .. Warmups + 2 /\ 0 \in 0 .. MaxFaults BY CellAssumption
  <2> QED BY <2>1 DEF Init
<1> QED BY <1>1, <1>2, <1>3, <1>4, <1>5, <1>6 DEF Types

LEMMA OneEngine ==
  ASSUME Types, NEW e \in Engines, NEW x \in EngineStates, engine' = [engine EXCEPT ![e] = x]
  PROVE  /\ engine' \in [Engines -> EngineStates]
         /\ engine'[e] = x
         /\ \A f \in Engines : f # e => engine'[f] = engine[f]
BY DEF Types

LEMMA WarmRequestMoves ==
  ASSUME Types, NEW e \in Engines, WarmRequest(e)
  PROVE  /\ engine' \in [Engines -> EngineStates]
         /\ \A f \in Engines : f # e => engine'[f] = engine[f]
         /\ engine'[e] = [engine[e] EXCEPT !.finished = @ + 1, !.tokens = @ + 2, !.cache = @ \cup {"warm"}]
<1> DEFINE x == [engine[e] EXCEPT !.finished = @ + 1, !.tokens = @ + 2, !.cache = @ \cup {"warm"}]
<1>1. x \in EngineStates
  <2>1. engine[e] \in EngineStates BY DEF Types
  <2>2. engine[e].finished + 1 \in Nat /\ engine[e].tokens + 2 \in Nat BY <2>1 DEF EngineStates
  <2>3. engine[e].cache \cup {"warm"} \in SUBSET {"warm", "own", "foreign"} BY <2>1 DEF EngineStates
  <2> QED BY <2>1, <2>2, <2>3 DEF EngineStates
<1>2. engine' = [engine EXCEPT ![e] = x] BY DEF WarmRequest, Types
<1> HIDE DEF x
<1>3. /\ engine' \in [Engines -> EngineStates] /\ engine'[e] = x
      /\ \A f \in Engines : f # e => engine'[f] = engine[f]
  BY <1>1, <1>2, OneEngine
<1> QED BY <1>3 DEF x

LEMMA WarmUpMoves ==
  ASSUME Types, NEW e \in Engines, WarmUp(e)
  PROVE  /\ engine' \in [Engines -> EngineStates]
         /\ \A f \in Engines : f # e => engine'[f] = engine[f]
         /\ \/ warm[e] = 1 /\ engine'[e] = [engine[e] EXCEPT !.cache = {}] /\ faults' = faults
            \/ warm[e] = 1 /\ engine' = engine /\ faults < MaxFaults /\ faults' = faults + 1
            \/ /\ warm[e] # 1 /\ faults' = faults
               /\ engine'[e] = [engine[e] EXCEPT !.finished = @ + 1, !.tokens = @ + 2, !.cache = @ \cup {"warm"}]
<1>1. CASE warm[e] = 1 /\ engine' = [engine EXCEPT ![e].cache = {}] /\ faults' = faults
  <2> DEFINE x == [engine[e] EXCEPT !.cache = {}]
  <2>1. x \in EngineStates
    <3>1. engine[e] \in EngineStates BY DEF Types
    <3>2. {} \in SUBSET {"warm", "own", "foreign"} OBVIOUS
    <3> QED BY <3>1, <3>2 DEF EngineStates
  <2>2. engine' = [engine EXCEPT ![e] = x] BY <1>1 DEF Types
  <2> HIDE DEF x
  <2>3. /\ engine' \in [Engines -> EngineStates] /\ engine'[e] = x
        /\ \A f \in Engines : f # e => engine'[f] = engine[f]
    BY <2>1, <2>2, OneEngine
  <2> QED BY <1>1, <2>3 DEF x
<1>2. CASE warm[e] = 1 /\ faults < MaxFaults /\ faults' = faults + 1 /\ engine' = engine BY <1>2 DEF Types
<1>3. CASE warm[e] # 1 /\ WarmRequest(e) /\ faults' = faults BY <1>3, WarmRequestMoves
<1> QED BY <1>1, <1>2, <1>3 DEF WarmUp

LEMMA ServeMoves ==
  ASSUME Types, NEW r \in Requests, NEW e \in Engines, Serve(r, e)
  PROVE  /\ engine' \in [Engines -> EngineStates]
         /\ \A f \in Engines : f # e => engine'[f] = engine[f]
         /\ engine'[e] = [engine[e] EXCEPT !.finished = @ + 1, !.tokens = @ + 2, !.cache = @ \cup {"own"}]
<1> DEFINE x == [engine[e] EXCEPT !.finished = @ + 1, !.tokens = @ + 2, !.cache = @ \cup {"own"}]
<1>1. x \in EngineStates
  <2>1. engine[e] \in EngineStates BY DEF Types
  <2>2. engine[e].finished + 1 \in Nat /\ engine[e].tokens + 2 \in Nat BY <2>1 DEF EngineStates
  <2>3. engine[e].cache \cup {"own"} \in SUBSET {"warm", "own", "foreign"} BY <2>1 DEF EngineStates
  <2> QED BY <2>1, <2>2, <2>3 DEF EngineStates
<1>2. engine' = [engine EXCEPT ![e] = x] BY DEF Serve, Types
<1> HIDE DEF x
<1>3. /\ engine' \in [Engines -> EngineStates] /\ engine'[e] = x
      /\ \A f \in Engines : f # e => engine'[f] = engine[f]
  BY <1>1, <1>2, OneEngine
<1> QED BY <1>3 DEF x

LEMMA ArrivalMoves ==
  ASSUME Types, NEW e \in Engines, ForeignArrives(e)
  PROVE  /\ engine' \in [Engines -> EngineStates]
         /\ \A f \in Engines : f # e => engine'[f] = engine[f]
         /\ engine[e].foreign = "none"
         /\ \E how \in {"direct", "scheduled"} :
              /\ engine'[e] = [engine[e] EXCEPT !.tokens = @ + 1, !.cache = @ \cup {"foreign"}, !.foreign = how]
              /\ sched' = IF how = "scheduled" THEN [sched EXCEPT !.active = @ + 1] ELSE sched
<1>1. PICK how \in {"direct", "scheduled"} :
        /\ engine' = [engine EXCEPT ![e].tokens = @ + 1, ![e].cache = @ \cup {"foreign"}, ![e].foreign = how]
        /\ sched' = IF how = "scheduled" THEN [sched EXCEPT !.active = @ + 1] ELSE sched
  BY DEF ForeignArrives
<1> DEFINE x == [engine[e] EXCEPT !.tokens = @ + 1, !.cache = @ \cup {"foreign"}, !.foreign = how]
<1>2. x \in EngineStates
  <2>1. engine[e] \in EngineStates BY DEF Types
  <2>2. engine[e].tokens + 1 \in Nat BY <2>1 DEF EngineStates
  <2>3. engine[e].cache \cup {"foreign"} \in SUBSET {"warm", "own", "foreign"} BY <2>1 DEF EngineStates
  <2> QED BY <2>1, <2>2, <2>3 DEF EngineStates
<1>3. engine' = [engine EXCEPT ![e] = x] BY <1>1 DEF Types
<1> HIDE DEF x
<1>4. /\ engine' \in [Engines -> EngineStates] /\ engine'[e] = x
      /\ \A f \in Engines : f # e => engine'[f] = engine[f]
  BY <1>2, <1>3, OneEngine
<1>5. engine[e].foreign = "none" BY DEF ForeignArrives, Idle
<1> QED BY <1>1, <1>4, <1>5 DEF x

LEMMA EndMoves ==
  ASSUME Types, NEW e \in Engines, ForeignEnds(e)
  PROVE  /\ engine' \in [Engines -> EngineStates]
         /\ \A f \in Engines : f # e => engine'[f] = engine[f]
         /\ engine[e].foreign # "none"
         /\ engine'[e] = [engine[e] EXCEPT !.finished = @ + 1, !.tokens = @ + 1, !.foreign = "none"]
<1> DEFINE x == [engine[e] EXCEPT !.finished = @ + 1, !.tokens = @ + 1, !.foreign = "none"]
<1>1. x \in EngineStates
  <2>1. engine[e] \in EngineStates BY DEF Types
  <2>2. engine[e].finished + 1 \in Nat /\ engine[e].tokens + 1 \in Nat BY <2>1 DEF EngineStates
  <2> QED BY <2>1, <2>2 DEF EngineStates
<1>2. engine' = [engine EXCEPT ![e] = x] BY DEF ForeignEnds, Types
<1> HIDE DEF x
<1>3. /\ engine' \in [Engines -> EngineStates] /\ engine'[e] = x
      /\ \A f \in Engines : f # e => engine'[f] = engine[f]
  BY <1>1, <1>2, OneEngine
<1> QED BY <1>3 DEF x, ForeignEnds, Idle

LEMMA RestartMoves ==
  ASSUME Types, NEW e \in Engines, EngineRestarts(e)
  PROVE  /\ engine' \in [Engines -> EngineStates]
         /\ \A f \in Engines : f # e => engine'[f] = engine[f]
         /\ engine'[e].start = engine[e].start + 1 /\ engine'[e].foreign = "none"
<1>1. PICK deployed \in {engine[e].deployed, engine[e].start + 1} :
        engine' = [engine EXCEPT ![e] = [start |-> engine[e].start + 1, deployed |-> deployed, finished |-> 0,
                                         tokens |-> 0, cache |-> {}, foreign |-> "none"]]
  BY DEF EngineRestarts
<1> DEFINE x == [start |-> engine[e].start + 1, deployed |-> deployed, finished |-> 0,
                 tokens |-> 0, cache |-> {}, foreign |-> "none"]
<1>2. x \in EngineStates
  <2>1. engine[e].start + 1 \in Nat \ {0} /\ deployed \in Nat \ {0} BY DEF Types, EngineStates
  <2> QED BY <2>1 DEF EngineStates
<1>3. engine' = [engine EXCEPT ![e] = x] BY <1>1
<1> HIDE DEF x
<1>4. /\ engine' \in [Engines -> EngineStates] /\ engine'[e] = x
      /\ \A f \in Engines : f # e => engine'[f] = engine[f]
  BY <1>2, <1>3, OneEngine
<1> QED BY <1>4 DEF x

LEMMA NewServerMoves ==
  ASSUME Types, SchedulerRestarts
  PROVE  /\ engine' \in [Engines -> EngineStates]
         /\ \A e \in Engines :
              /\ engine'[e].start = engine[e].start /\ engine'[e].deployed = engine[e].deployed
              /\ engine'[e].finished = engine[e].finished /\ engine'[e].tokens = engine[e].tokens
              /\ engine'[e].cache = engine[e].cache
              /\ engine'[e].foreign \in {"none", "direct"}
<1>1. engine' = [e \in Engines |-> IF Idle(e) THEN engine[e] ELSE [engine[e] EXCEPT !.foreign = "direct"]]
  BY DEF SchedulerRestarts
<1>2. \A e \in Engines : engine[e] \in EngineStates BY DEF Types
<1>3. \A e \in Engines : engine'[e] \in EngineStates BY <1>1, <1>2 DEF EngineStates
<1>4. engine' \in [Engines -> EngineStates] BY <1>1, <1>3
<1>5. \A e \in Engines :
        engine'[e] = IF engine[e].foreign = "none" THEN engine[e] ELSE [engine[e] EXCEPT !.foreign = "direct"]
  BY <1>1 DEF Idle
<1> QED BY <1>2, <1>4, <1>5 DEF EngineStates

-----------------------------------------------------------------------------
(* The scheduler's count *)

LEMMA ServiceCounts ==
  ASSUME Types, InService
  PROVE  /\ IsFiniteSet(Sent) /\ Cardinality(Sent) \in Nat
         /\ IsFiniteSet(Scheduled) /\ Cardinality(Scheduled) \in Nat
         /\ \A r \in Sent : Cardinality(Sent) >= 1 /\ sched.active - 1 \in Nat
         /\ \A e \in Scheduled : Cardinality(Scheduled) >= 1 /\ sched.active - 1 \in Nat
         /\ sched.active = 0 => Sent = {} /\ Scheduled = {}
<1>1. IsFiniteSet(Sent) BY CellAssumption, FS_Subset DEF Sent
<1>2. IsFiniteSet(Scheduled) BY CellAssumption, FS_Subset DEF Scheduled
<1>3. Cardinality(Sent) \in Nat /\ Cardinality(Scheduled) \in Nat BY <1>1, <1>2, FS_CardinalityType
<1>4. \A r \in Sent : Cardinality(Sent) # 0 BY <1>1, FS_EmptySet
<1>5. \A e \in Scheduled : Cardinality(Scheduled) # 0 BY <1>2, FS_EmptySet
<1>6. sched.active = Cardinality(Sent) + Cardinality(Scheduled) BY DEF InService
<1> QED BY <1>1, <1>2, <1>3, <1>4, <1>5, <1>6

\* Who is counted, by who joins and who leaves.
LEMMA SameService ==
  ASSUME InService, Sent' = Sent, Scheduled' = Scheduled, sched'.active = sched.active
  PROVE  InService'
BY DEF InService

LEMMA JoinsService ==
  ASSUME Types, InService, sched'.active = sched.active + 1,
         NEW r, \/ r \notin Sent /\ Sent' = Sent \cup {r} /\ Scheduled' = Scheduled
                \/ r \notin Scheduled /\ Scheduled' = Scheduled \cup {r} /\ Sent' = Sent
  PROVE  InService'
<1>1. Cardinality(Sent') + Cardinality(Scheduled') = Cardinality(Sent) + Cardinality(Scheduled) + 1
  <2>1. CASE r \notin Sent /\ Sent' = Sent \cup {r} /\ Scheduled' = Scheduled
    <3>1. Cardinality(Sent \cup {r}) = Cardinality(Sent) + 1 BY <2>1, ServiceCounts, FS_AddElement
    <3> QED BY <2>1, <3>1, ServiceCounts
  <2>2. CASE r \notin Scheduled /\ Scheduled' = Scheduled \cup {r} /\ Sent' = Sent
    <3>1. Cardinality(Scheduled \cup {r}) = Cardinality(Scheduled) + 1 BY <2>2, ServiceCounts, FS_AddElement
    <3> QED BY <2>2, <3>1, ServiceCounts
  <2> QED BY <2>1, <2>2
<1> QED BY <1>1 DEF InService

LEMMA LeavesService ==
  ASSUME Types, InService, sched'.active = sched.active - 1,
         NEW r, \/ r \in Sent /\ Sent' = Sent \ {r} /\ Scheduled' = Scheduled
                \/ r \in Scheduled /\ Scheduled' = Scheduled \ {r} /\ Sent' = Sent
  PROVE  InService'
<1>1. Cardinality(Sent') + Cardinality(Scheduled') = Cardinality(Sent) + Cardinality(Scheduled) - 1
  <2>1. CASE r \in Sent /\ Sent' = Sent \ {r} /\ Scheduled' = Scheduled
    <3>1. Cardinality(Sent \ {r}) = Cardinality(Sent) - 1 BY <2>1, ServiceCounts, FS_RemoveElement
    <3> QED BY <2>1, <3>1, ServiceCounts
  <2>2. CASE r \in Scheduled /\ Scheduled' = Scheduled \ {r} /\ Sent' = Sent
    <3>1. Cardinality(Scheduled \ {r}) = Cardinality(Scheduled) - 1 BY <2>2, ServiceCounts, FS_RemoveElement
    <3> QED BY <2>2, <3>1, ServiceCounts
  <2> QED BY <2>1, <2>2
<1>2. sched.active = Cardinality(Sent) + Cardinality(Scheduled) BY DEF InService
<1>3. sched'.active = Cardinality(Sent') + Cardinality(Scheduled') BY <1>1, <1>2, ServiceCounts
<1> QED BY <1>3 DEF InService

\* The scheduler's end of somebody's request on an engine.
LEMMA SeesEnd ==
  ASSUME Types, InService, NEW e \in Engines, SchedulerSeesEnd(e),
         engine' \in [Engines -> EngineStates], engine'[e].foreign = "none",
         \A f \in Engines : f # e => engine'[f] = engine[f], pos' = pos
  PROVE  InService' /\ sched' \in SchedulerStates
<1>1. Sent' = Sent BY DEF Sent
<1>2. CASE engine[e].foreign = "scheduled"
  <2>1. sched' = [sched EXCEPT !.active = @ - 1, !.buffer = Append(@, Line(None, e))]
    BY <1>2 DEF SchedulerSeesEnd
  <2>2. e \in Scheduled /\ Scheduled' = Scheduled \ {e} BY <1>2 DEF Scheduled
  <2>3. sched \in SchedulerStates BY DEF Types
  <2>4. sched.active - 1 \in Nat BY <2>2, ServiceCounts
  <2>5. Append(sched.buffer, Line(None, e)) \in Seq(Lines) BY <2>3, LineTypes DEF SchedulerStates
  <2>6. sched' \in SchedulerStates BY <2>1, <2>3, <2>4, <2>5 DEF SchedulerStates
  <2>7. sched'.active = sched.active - 1 BY <2>1, <2>3 DEF SchedulerStates
  <2> QED BY <1>1, <2>2, <2>6, <2>7, LeavesService
<1>3. CASE engine[e].foreign # "scheduled"
  <2>1. sched' = sched BY <1>3 DEF SchedulerSeesEnd
  <2>2. Scheduled' = Scheduled BY <1>3 DEF Scheduled
  <2> QED BY <1>1, <2>1, <2>2, SameService DEF Types
<1> QED BY <1>2, <1>3

\* A request of the cell ends, with a reply or without.
LEMMA RequestEnds ==
  ASSUME Types, InService, NEW r \in Requests, pos[r] = "sent", NEW x \in Lines,
         sched' = [sched EXCEPT !.active = @ - 1, !.buffer = Append(@, x)],
         NEW how \in {"replied", "failed"}, pos' = [pos EXCEPT ![r] = how],
         Scheduled' = Scheduled
  PROVE  /\ InService' /\ sched' \in SchedulerStates
         /\ pos' \in [Requests -> {"unsent", "sent", "replied", "failed"}]
<1>1. r \in Sent BY DEF Sent
<1>2. Sent' = Sent \ {r} BY DEF Sent, Types
<1>3. sched \in SchedulerStates BY DEF Types
<1>4. sched.active - 1 \in Nat BY <1>1, ServiceCounts
<1>5. Append(sched.buffer, x) \in Seq(Lines) BY <1>3, LineTypes DEF SchedulerStates
<1>6. sched' \in SchedulerStates BY <1>3, <1>4, <1>5 DEF SchedulerStates
<1>7. sched'.active = sched.active - 1 BY <1>3 DEF SchedulerStates
<1>8. pos' \in [Requests -> {"unsent", "sent", "replied", "failed"}] BY DEF Types
<1> QED BY <1>1, <1>2, <1>6, <1>7, <1>8, LeavesService

LEMMA ScriptSteps == ASSUME Types, Script \/ Stalls PROVE step' \in Steps
<1> USE DEF Types, Steps, Opening, Ahead, Closing, Check
<1>1. CASE Stalls BY <1>1 DEF Stalls
<1>2. CASE \E e \in Engines : EngineBefore(e) \/ WarmUp(e) \/ EngineAfter(e)
  BY <1>2 DEF EngineBefore, WarmUp, EngineAfter
<1>3. CASE DrainScheduler \/ DrainEngines \/ Fresh \/ PostConfig \/ Preflight \/ WarmUpEnds \/ StatsBefore
  BY <1>3 DEF DrainScheduler, DrainEngines, Fresh, PostConfig, Preflight, WarmUpEnds, StatsBefore
<1>4. CASE ManifestBefore \/ WindowOpens \/ RunnerStarts \/ RunnerEnds \/ StatsAfter \/ StatsAfterTimesOut
  BY <1>4 DEF ManifestBefore, WindowOpens, RunnerStarts, RunnerEnds, StatsAfter, StatsAfterTimesOut
<1>5. CASE WindowCloses \/ ManifestAfter \/ Verdict BY <1>5 DEF WindowCloses, ManifestAfter, Verdict
<1> QED BY <1>1, <1>2, <1>3, <1>4, <1>5 DEF Script

\* The evidence, piece by piece.
LEMMA EvidenceTypes ==
  ASSUME Types, Script
  PROVE  ev' \in Evidence
<1>0. ev \in Evidence BY DEF Types
<1>1. CASE DrainScheduler \/ DrainEngines \/ Fresh \/ PostConfig \/ Preflight \/ WarmUpEnds \/ ManifestBefore
           \/ RunnerStarts \/ StatsAfterTimesOut
  <2>1. ev' = ev
    BY <1>1 DEF DrainScheduler, DrainEngines, Fresh, PostConfig, Preflight, WarmUpEnds, ManifestBefore,
             RunnerStarts, StatsAfterTimesOut
  <2> QED BY <1>0, <2>1
<1>2. CASE StatsBefore \/ StatsAfter
  <2>1. sched.logged \in Nat /\ sched.failed \in SUBSET {"decisions", "lag"} BY DEF Types, SchedulerStates
  <2>2. ev.failures \cup sched.failed \in SUBSET {"decisions", "lag"} BY <1>0, <2>1 DEF Evidence
  <2>3. CASE StatsBefore BY <1>0, <2>1, <2>3 DEF StatsBefore, Evidence
  <2>4. CASE StatsAfter
    <3> DEFINE f == ev.failures \cup sched.failed
    <3>1. ev' = [ev EXCEPT !.logged_after = sched.logged, !.failures = f] BY <2>4 DEF StatsAfter
    <3>2. f \in SUBSET {"decisions", "lag"} BY <2>2
    <3> HIDE DEF f
    <3> QED BY <1>0, <2>1, <3>1, <3>2 DEF Evidence
  <2> QED BY <1>2, <2>3, <2>4
<1>3. CASE WindowOpens
  <2>1. Len(file) \in Nat BY LenProperties DEF Types
  <2> QED BY <1>0, <1>3, <2>1 DEF WindowOpens, Evidence
<1>4. CASE RunnerEnds \/ ManifestAfter
  <2>1. sched.conf \in Configs BY DEF Types, SchedulerStates
  <2>2. CASE RunnerEnds BY <1>0, <2>1, <2>2 DEF RunnerEnds, Evidence
  <2>3. CASE ManifestAfter BY <1>0, <2>1, <2>3 DEF ManifestAfter, Evidence
  <2> QED BY <1>4, <2>2, <2>3
<1>5. CASE WindowCloses
  <2>1. ev.start + 1 \in Nat \ {0} BY <1>0 DEF Evidence
  <2>2. SubSeq(file, ev.start + 1, Len(file)) \in Seq(Lines)
    <3>1. file \in Seq(Lines) /\ Len(file) \in Nat BY LenProperties DEF Types
    <3>2. \A k \in ev.start + 1 .. Len(file) : k \in 1 .. Len(file) BY <2>1, <3>1
    <3>3. \A k \in ev.start + 1 .. Len(file) : file[k] \in Lines BY <3>1, <3>2, ElementOfSeq
    <3> QED BY <2>1, <3>1, <3>3, SubSeqProperties
  <2>3. ev' = ev \/ ev' = [ev EXCEPT !.slice = SubSeq(file, ev.start + 1, Len(file))] BY <1>5 DEF WindowCloses
  <2> QED BY <1>0, <2>2, <2>3 DEF Evidence
<1>6. CASE Verdict
  <2> DEFINE x == RecordOK /\ SameProcesses /\ IsolationOK /\ ArmOK /\ ZeroCallOK
  <2>1. x \in BOOLEAN OBVIOUS
  <2>2. ev' = [ev EXCEPT !.valid = x] BY <1>6 DEF Verdict
  <2> HIDE DEF x
  <2> QED BY <1>0, <2>1, <2>2 DEF Evidence
<1>7. ASSUME NEW e \in Engines, EngineBefore(e) \/ EngineAfter(e) PROVE ev' \in Evidence
  <2>1. Reading(e) \in Readings BY ReadingTypes
  <2>2. \/ ev' = ev
        \/ ev' = [ev EXCEPT !.before = [ev.before EXCEPT ![e] = Reading(e)]]
        \/ ev' = [ev EXCEPT !.after = [ev.after EXCEPT ![e] = Reading(e)]]
    BY <1>0, <1>7 DEF EngineBefore, EngineAfter, Evidence
  <2>3. /\ [ev.before EXCEPT ![e] = Reading(e)] \in [Engines -> Readings]
        /\ [ev.after EXCEPT ![e] = Reading(e)] \in [Engines -> Readings]
    BY <1>0, <2>1 DEF Evidence
  <2> QED BY <1>0, <2>2, <2>3 DEF Evidence
<1>8. ASSUME NEW e \in Engines, WarmUp(e) PROVE ev' \in Evidence
  <2> DEFINE hit == "warm" \in engine[e].cache
  <2>1. hit \in BOOLEAN OBVIOUS
  <2>2. ev' = ev \/ ev' = [ev EXCEPT !.found = [ev.found EXCEPT ![e] = Append(ev.found[e], hit)]]
    BY <1>0, <1>8 DEF WarmUp, Evidence
  <2> HIDE DEF hit
  <2>3. Append(ev.found[e], hit) \in Seq(BOOLEAN) BY <1>0, <2>1, AppendProperties DEF Evidence
  <2>4. [ev.found EXCEPT ![e] = Append(ev.found[e], hit)] \in [Engines -> Seq(BOOLEAN)] BY <1>0, <2>3 DEF Evidence
  <2> QED BY <1>0, <2>2, <2>4 DEF Evidence
<1> QED BY <1>1, <1>2, <1>3, <1>4, <1>5, <1>6, <1>7, <1>8 DEF Script

\* What the history makes of a disturbance.
LEMMA TouchIs ==
  ASSUME Types, NEW e \in Engines, Touch(e)
  PROVE  /\ hist' \in History
         /\ hist' = [hist EXCEPT !.touched = hist'.touched]
         /\ hist'.touched = IF ev.before[e] # Unread /\ ev.after[e] = Unread THEN hist.touched \cup {e}
                            ELSE hist.touched
<1> DEFINE t == IF ev.before[e] # Unread /\ ev.after[e] = Unread THEN hist.touched \cup {e} ELSE hist.touched
<1>1. hist \in History BY DEF Types
<1>2. t \in SUBSET Engines BY <1>1 DEF History
<1>3. hist' = [hist EXCEPT !.touched = t] BY DEF Touch
<1> HIDE DEF t
<1>4. hist' \in History /\ hist'.touched = t /\ hist' = [hist EXCEPT !.touched = hist'.touched]
  BY <1>1, <1>2, <1>3 DEF History
<1> QED BY <1>4 DEF t

LEMMA FaultTypes == ASSUME Types, Fault PROVE faults' \in 0 .. MaxFaults /\ faults' > 0 /\ ~Over
BY CellAssumption DEF Types, Fault

\* A script's step that reads, and changes at most the evidence.
Reads ==
  \/ DrainScheduler \/ DrainEngines \/ Fresh \/ Preflight
  \/ WarmUpEnds \/ StatsBefore \/ ManifestBefore \/ WindowOpens
  \/ StatsAfter \/ StatsAfterTimesOut \/ WindowCloses \/ ManifestAfter \/ Verdict
  \/ \E e \in Engines : EngineBefore(e) \/ EngineAfter(e)

LEMMA ReadsIs ==
  /\ Reads => UNCHANGED <<engine, sched, file, pos, at, warm, faults, hist>>
  /\ Script <=> Reads \/ PostConfig \/ RunnerStarts \/ RunnerEnds \/ \E e \in Engines : WarmUp(e)
<1>1. Script <=> Reads \/ PostConfig \/ RunnerStarts \/ RunnerEnds \/ \E e \in Engines : WarmUp(e)
  BY Zenon DEF Script, Reads
<1>2. Reads => UNCHANGED <<engine, sched, file, pos, at, warm, faults, hist>>
  <2>1. CASE DrainScheduler \/ DrainEngines \/ Fresh \/ Preflight
    BY <2>1 DEF DrainScheduler, DrainEngines, Fresh, Preflight, world, cell
  <2>2. CASE WarmUpEnds \/ StatsBefore \/ ManifestBefore \/ WindowOpens
    BY <2>2 DEF WarmUpEnds, StatsBefore, ManifestBefore, WindowOpens, world, cell
  <2>3. CASE StatsAfter \/ StatsAfterTimesOut \/ WindowCloses \/ ManifestAfter \/ Verdict
    BY <2>3 DEF StatsAfter, StatsAfterTimesOut, WindowCloses, ManifestAfter, Verdict, world, cell
  <2>4. CASE \E e \in Engines : EngineBefore(e) \/ EngineAfter(e)
    BY <2>4 DEF EngineBefore, EngineAfter, world, cell
  <2> QED BY <2>1, <2>2, <2>3, <2>4 DEF Reads
<1> QED BY <1>1, <1>2

LEMMA ScriptTypes ==
  ASSUME Types, InService, Script
  PROVE  Types' /\ InService'
<1>1. step' \in Steps /\ ev' \in Evidence BY ScriptSteps, EvidenceTypes
<1>2. CASE Reads
  <2>1. UNCHANGED <<engine, sched, file, pos, at, warm, faults, hist>> BY <1>2, ReadsIs
  <2> QED BY <1>1, <2>1 DEF Types, InService, Sent, Scheduled
<1>3. CASE PostConfig
  <2>1. UNCHANGED <<engine, file, pos, at, warm, faults, hist>>
        /\ (sched' = sched \/ sched' = [sched EXCEPT !.conf = "mine"])
    BY <1>3 DEF PostConfig, cell
  <2>2. sched' \in SchedulerStates /\ sched'.active = sched.active
    <3>1. sched \in SchedulerStates /\ "mine" \in Configs BY DEF Types, Configs
    <3> QED BY <2>1, <3>1 DEF SchedulerStates
  <2> QED BY <1>1, <2>1, <2>2 DEF Types, InService, Sent, Scheduled
<1>4. CASE RunnerStarts
  <2>1. UNCHANGED <<engine, sched, file, pos, at, warm, faults>> /\ hist' \in History
    BY <1>4 DEF RunnerStarts, world, cell, Types, History
  <2> QED BY <1>1, <2>1 DEF Types, InService, Sent, Scheduled
<1>5. CASE RunnerEnds
  <2>1. UNCHANGED <<engine, sched, file, pos, at, warm, hist>> /\ faults' \in 0 .. MaxFaults
    BY <1>5, CellAssumption DEF RunnerEnds, world, cell, Types
  <2> QED BY <1>1, <2>1 DEF Types, InService, Sent, Scheduled
<1>6. ASSUME NEW e \in Engines, WarmUp(e) PROVE Types' /\ InService'
  <2>1. UNCHANGED <<sched, file, pos, at, hist>> BY <1>6 DEF WarmUp
  <2>2. engine' \in [Engines -> EngineStates] /\ \A f \in Engines : engine'[f].foreign = engine[f].foreign
    <3>1. engine[e] \in EngineStates BY DEF Types
    <3>2. /\ engine' \in [Engines -> EngineStates] /\ \A f \in Engines : f # e => engine'[f] = engine[f]
          /\ \/ engine'[e] = [engine[e] EXCEPT !.cache = {}]
             \/ engine' = engine
             \/ engine'[e] = [engine[e] EXCEPT !.finished = @ + 1, !.tokens = @ + 2, !.cache = @ \cup {"warm"}]
      BY <1>6, WarmUpMoves
    <3>3. engine'[e].foreign = engine[e].foreign BY <3>1, <3>2 DEF EngineStates
    <3> QED BY <3>2, <3>3
  <2>3. faults' \in 0 .. MaxFaults
    <3>1. faults' = faults \/ (faults < MaxFaults /\ faults' = faults + 1) BY <1>6, WarmUpMoves
    <3> QED BY <3>1, CellAssumption DEF Types
  <2>4. warm' \in [Engines -> 0 .. Warmups + 2]
    <3>1. warm' = [warm EXCEPT ![e] = warm[e] + 1] /\ warm[e] < Warmups + 2 BY <1>6 DEF WarmUp, Types
    <3>2. warm[e] \in 0 .. Warmups + 2 BY DEF Types
    <3>3. warm[e] + 1 \in 0 .. Warmups + 2 BY <3>1, <3>2, CellAssumption
    <3> QED BY <3>1, <3>3 DEF Types
  <2>5. Scheduled' = Scheduled /\ Sent' = Sent BY <2>1, <2>2 DEF Scheduled, Sent
  <2> QED BY <1>1, <2>1, <2>2, <2>3, <2>4, <2>5, SameService DEF Types
<1> QED BY <1>2, <1>3, <1>4, <1>5, <1>6, ReadsIs

LEMMA ServingTypes ==
  ASSUME Types, InService, Serving
  PROVE  Types' /\ InService'
<1>1. ASSUME NEW r \in Requests, Send(r) PROVE Types' /\ InService'
  <2>1. UNCHANGED <<engine, file, at, warm, step, ev, faults, hist>> BY <1>1 DEF Send
  <2>2. pos[r] = "unsent" /\ pos' = [pos EXCEPT ![r] = "sent"] BY <1>1 DEF Send
  <2>3. pos' \in [Requests -> {"unsent", "sent", "replied", "failed"}] BY <2>2 DEF Types
  <2>4. sched \in SchedulerStates /\ sched' = [sched EXCEPT !.active = @ + 1] BY <1>1 DEF Send, Types
  <2>5. sched' \in SchedulerStates /\ sched'.active = sched.active + 1 BY <2>4 DEF SchedulerStates
  <2>6. r \notin Sent /\ Sent' = Sent \cup {r} BY <2>2 DEF Sent, Types
  <2>7. Scheduled' = Scheduled BY <2>1 DEF Scheduled
  <2>8. InService' BY <2>5, <2>6, <2>7, JoinsService
  <2> QED BY <2>1, <2>3, <2>5, <2>8 DEF Types
<1>2. ASSUME NEW r \in Requests, NEW e \in Engines, Serve(r, e) PROVE Types' /\ InService'
  <2>1. UNCHANGED <<file, warm, step, ev, faults>> BY <1>2 DEF Serve
  <2>2. pos[r] = "sent" /\ pos' = [pos EXCEPT ![r] = "replied"] BY <1>2 DEF Serve
  <2>3. engine' \in [Engines -> EngineStates] BY <1>2, ServeMoves
  <2>4. Scheduled' = Scheduled
    <3>1. engine[e] \in EngineStates BY DEF Types
    <3>2. /\ \A f \in Engines : f # e => engine'[f] = engine[f]
          /\ engine'[e] = [engine[e] EXCEPT !.finished = @ + 1, !.tokens = @ + 2, !.cache = @ \cup {"own"}]
      BY <1>2, ServeMoves
    <3>3. engine'[e].foreign = engine[e].foreign BY <3>1, <3>2 DEF EngineStates
    <3> QED BY <3>2, <3>3 DEF Scheduled
  <2>5. Line(r, e) \in Lines BY LineTypes DEF Types, SchedulerStates
  <2>6. sched' = [sched EXCEPT !.active = @ - 1, !.buffer = Append(@, Line(r, e))] BY <1>2 DEF Serve
  <2>7. /\ InService' /\ sched' \in SchedulerStates
        /\ pos' \in [Requests -> {"unsent", "sent", "replied", "failed"}]
    <3> DEFINE x == Line(r, e)
    <3>1. x \in Lines /\ sched' = [sched EXCEPT !.active = @ - 1, !.buffer = Append(@, x)] BY <2>5, <2>6
    <3> HIDE DEF x
    <3> QED BY <2>2, <2>4, <3>1, RequestEnds
  <2>8. at' \in [Requests -> Engines \cup {None}] BY <1>2 DEF Serve, Types
  <2>9. hist' \in History
    <3>1. hist \in History /\ sched.proc \in Nat \ {0} /\ sched.conf \in Configs BY DEF Types, SchedulerStates
    <3>2. hist.servers \cup {<<sched.proc, sched.conf>>} \in SUBSET ((Nat \ {0}) \X Configs) BY <3>1 DEF History
    <3>3. hist' = [hist EXCEPT !.servers = hist.servers \cup {<<sched.proc, sched.conf>>}]
      BY <1>2 DEF Serve
    <3> QED BY <3>1, <3>2, <3>3 DEF History
  <2> QED BY <2>1, <2>3, <2>7, <2>8, <2>9 DEF Types
<1> QED BY <1>1, <1>2 DEF Serving

LEMMA WorldTypes ==
  ASSUME Types, InService, World
  PROVE  Types' /\ InService'
<1>0. /\ sched \in SchedulerStates /\ file \in Seq(Lines) /\ sched.buffer \in Seq(Lines)
      /\ file \o sched.buffer \in Seq(Lines) /\ hist \in History /\ ev \in Evidence
  BY LineTypes DEF Types, SchedulerStates
<1>1. CASE Flush
  <2>1. UNCHANGED <<engine, pos, at, warm, step, ev, faults, hist>> BY <1>1 DEF Flush, cell
  <2>2. file' \in Seq(Lines) BY <1>0, <1>1 DEF Flush
  <2>3. sched' \in SchedulerStates /\ sched'.active = sched.active
    <3>1. sched.logged + Len(sched.buffer) \in Nat BY <1>0, LenProperties DEF SchedulerStates
    <3>2. sched' = [sched EXCEPT !.logged = sched.logged + Len(sched.buffer), !.buffer = <<>>] BY <1>1 DEF Flush
    <3>3. <<>> \in Seq(Lines) BY LineTypes
    <3> QED BY <1>0, <3>1, <3>2, <3>3 DEF SchedulerStates
  <2> QED BY <2>1, <2>2, <2>3 DEF Types, InService, Sent, Scheduled
<1>2. CASE WriterFails
  <2>1. UNCHANGED <<engine, file, pos, at, warm, step, ev>> BY <1>2 DEF WriterFails, cell
  <2>2. sched' \in SchedulerStates /\ sched'.active = sched.active
    <3>1. PICK w \in SUBSET {"decisions", "lag"} : sched' = [sched EXCEPT !.failed = w] BY <1>2 DEF WriterFails
    <3> QED BY <1>0, <3>1 DEF SchedulerStates
  <2>3. hist' \in History BY <1>0, <1>2 DEF WriterFails, History
  <2>4. faults' \in 0 .. MaxFaults BY <1>2, FaultTypes DEF WriterFails
  <2> QED BY <2>1, <2>2, <2>3, <2>4 DEF Types, InService, Sent, Scheduled
<1>3. CASE SchedulerRestarts
  <2>1. UNCHANGED <<at, warm, step, ev>> BY <1>3 DEF SchedulerRestarts
  <2>2. faults' \in 0 .. MaxFaults BY <1>3, FaultTypes DEF SchedulerRestarts
  <2>3. sched' \in SchedulerStates /\ sched'.active = 0
    <3>1. sched.proc + 2 \in Nat \ {0} /\ <<>> \in Seq(Lines) BY <1>0, LineTypes DEF SchedulerStates
    <3>2. PICK c \in Configs : sched' = [proc |-> sched.proc + 2, conf |-> c, logged |-> 0, buffer |-> <<>>,
                                         active |-> 0, failed |-> {}]
      BY <1>3 DEF SchedulerRestarts
    <3> QED BY <3>1, <3>2 DEF SchedulerStates
  <2>4. hist' \in History BY <1>0, <1>3 DEF SchedulerRestarts, History
  <2>5. file' \in Seq(Lines) BY <1>0, <1>3 DEF SchedulerRestarts
  <2>6. pos' = [r \in Requests |-> IF pos[r] = "sent" THEN "failed" ELSE pos[r]] BY <1>3 DEF SchedulerRestarts
  <2>7. pos' \in [Requests -> {"unsent", "sent", "replied", "failed"}] BY <2>6 DEF Types
  <2>8. engine' \in [Engines -> EngineStates] /\ \A e \in Engines : engine'[e].foreign \in {"none", "direct"}
    BY <1>3, NewServerMoves
  <2>9. Sent' = {} /\ Scheduled' = {} BY <2>6, <2>8 DEF Sent, Scheduled
  <2>10. InService' BY <2>3, <2>9, FS_EmptySet DEF InService
  <2> QED BY <2>1, <2>2, <2>3, <2>4, <2>5, <2>7, <2>8, <2>10 DEF Types
<1>4. CASE Reconfigured
  <2>1. UNCHANGED <<engine, file, pos, at, warm, step, ev, hist>> BY <1>4 DEF Reconfigured, cell
  <2>2. sched' \in SchedulerStates /\ sched'.active = sched.active BY <1>0, <1>4 DEF Reconfigured, SchedulerStates
  <2>3. faults' \in 0 .. MaxFaults BY <1>4, FaultTypes DEF Reconfigured
  <2> QED BY <2>1, <2>2, <2>3 DEF Types, InService, Sent, Scheduled
<1>5. CASE Stalls
  <2>1. UNCHANGED <<engine, sched, file, pos, at, warm, ev, hist>> BY <1>5 DEF Stalls, world, cell
  <2>2. step' \in Steps BY <1>5, ScriptSteps
  <2>3. faults' \in 0 .. MaxFaults BY <1>5, FaultTypes DEF Stalls
  <2> QED BY <2>1, <2>2, <2>3 DEF Types, InService, Sent, Scheduled
<1>6. ASSUME NEW e \in Engines, ForeignArrives(e) PROVE Types' /\ InService'
  <2>1. UNCHANGED <<file, pos, at, warm, step, ev>> BY <1>6 DEF ForeignArrives, cell
  <2>2. faults' \in 0 .. MaxFaults BY <1>6, FaultTypes DEF ForeignArrives
  <2>3. hist' \in History BY <1>6, TouchIs DEF ForeignArrives
  <2>4. PICK how \in {"direct", "scheduled"} :
          /\ engine'[e] = [engine[e] EXCEPT !.tokens = @ + 1, !.cache = @ \cup {"foreign"}, !.foreign = how]
          /\ sched' = IF how = "scheduled" THEN [sched EXCEPT !.active = @ + 1] ELSE sched
    BY <1>6, ArrivalMoves
  <2>5. /\ engine' \in [Engines -> EngineStates] /\ \A f \in Engines : f # e => engine'[f] = engine[f]
        /\ engine[e].foreign = "none" /\ engine[e] \in EngineStates
    BY <1>6, ArrivalMoves DEF Types
  <2>6. engine'[e].foreign = how BY <2>4, <2>5 DEF EngineStates
  <2>7. sched' \in SchedulerStates /\ InService'
    <3>1. Sent' = Sent BY <2>1 DEF Sent
    <3>2. CASE how = "scheduled"
      <4>1. sched' \in SchedulerStates /\ sched'.active = sched.active + 1
        <5>1. sched' = [sched EXCEPT !.active = sched.active + 1] BY <2>4, <3>2
        <5>2. sched.active + 1 \in Nat BY <1>0 DEF SchedulerStates
        <5> QED BY <1>0, <5>1, <5>2 DEF SchedulerStates
      <4>2. e \notin Scheduled /\ Scheduled' = Scheduled \cup {e} BY <2>5, <2>6, <3>2 DEF Scheduled
      <4> QED BY <3>1, <4>1, <4>2, JoinsService
    <3>3. CASE how = "direct"
      <4>1. Scheduled' = Scheduled BY <2>5, <2>6, <3>3 DEF Scheduled
      <4>2. sched' = sched BY <2>4, <3>3
      <4> QED BY <1>0, <3>1, <4>1, <4>2, SameService
    <3> QED BY <3>2, <3>3
  <2> QED BY <2>1, <2>2, <2>3, <2>5, <2>7 DEF Types
<1>7. ASSUME NEW e \in Engines, ForeignEnds(e) PROVE Types' /\ InService'
  <2>1. UNCHANGED <<file, pos, at, warm, step, ev, faults>> BY <1>7 DEF ForeignEnds, cell
  <2>2. hist' \in History BY <1>7, TouchIs DEF ForeignEnds
  <2>3. /\ engine' \in [Engines -> EngineStates] /\ \A f \in Engines : f # e => engine'[f] = engine[f]
        /\ engine'[e] = [engine[e] EXCEPT !.finished = @ + 1, !.tokens = @ + 1, !.foreign = "none"]
        /\ engine[e] \in EngineStates
    BY <1>7, EndMoves DEF Types
  <2>4. engine'[e].foreign = "none" BY <2>3 DEF EngineStates
  <2>5. InService' /\ sched' \in SchedulerStates BY <1>7, <2>1, <2>3, <2>4, SeesEnd DEF ForeignEnds
  <2> QED BY <2>1, <2>2, <2>3, <2>5 DEF Types
<1>8. ASSUME NEW e \in Engines, EngineRestarts(e) PROVE Types' /\ InService'
  <2>1. UNCHANGED <<file, pos, at, warm, step, ev>> BY <1>8 DEF EngineRestarts, cell
  <2>2. hist' \in History BY <1>8, TouchIs DEF EngineRestarts
  <2>3. /\ engine' \in [Engines -> EngineStates] /\ \A f \in Engines : f # e => engine'[f] = engine[f]
        /\ engine'[e].foreign = "none"
    BY <1>8, RestartMoves
  <2>4. InService' /\ sched' \in SchedulerStates BY <1>8, <2>1, <2>3, SeesEnd DEF EngineRestarts
  <2>5. faults' \in 0 .. MaxFaults BY <1>8, FaultTypes DEF EngineRestarts
  <2> QED BY <2>1, <2>2, <2>3, <2>4, <2>5 DEF Types
<1>9. ASSUME NEW r \in Requests, RequestFails(r) PROVE Types' /\ InService'
  <2>1. UNCHANGED <<engine, file, at, warm, step, ev, hist>> BY <1>9 DEF RequestFails
  <2>2. pos[r] = "sent" /\ pos' = [pos EXCEPT ![r] = "failed"] BY <1>9 DEF RequestFails
  <2>3. Line(r, None) \in Lines BY <1>0, LineTypes DEF SchedulerStates
  <2>4. sched' = [sched EXCEPT !.active = @ - 1, !.buffer = Append(@, Line(r, None))] BY <1>9 DEF RequestFails
  <2>5. Scheduled' = Scheduled BY <2>1 DEF Scheduled
  <2>6. /\ InService' /\ sched' \in SchedulerStates
        /\ pos' \in [Requests -> {"unsent", "sent", "replied", "failed"}]
    <3> DEFINE x == Line(r, None)
    <3>1. x \in Lines /\ sched' = [sched EXCEPT !.active = @ - 1, !.buffer = Append(@, x)] BY <2>3, <2>4
    <3> HIDE DEF x
    <3> QED BY <2>2, <2>5, <3>1, RequestEnds
  <2>7. faults' \in 0 .. MaxFaults BY <1>9, FaultTypes DEF RequestFails
  <2> QED BY <2>1, <2>6, <2>7 DEF Types
<1> QED BY <1>1, <1>2, <1>3, <1>4, <1>5, <1>6, <1>7, <1>8, <1>9 DEF World

LEMMA NextTypes == ASSUME Types, InService, Next PROVE Types' /\ InService'
BY ScriptTypes, ServingTypes, WorldTypes DEF Next

-----------------------------------------------------------------------------
(* The order of the script *)

\* What each step of the script leaves of the evidence.
LEMMA EvidenceKeeps ==
  ASSUME Types, Script
  PROVE  /\ (\A e \in Engines : ~EngineBefore(e)) => ev'.before = ev.before
         /\ (\A e \in Engines : ~EngineAfter(e)) => ev'.after = ev.after
         /\ (\A e \in Engines : ~WarmUp(e)) => ev'.found = ev.found
         /\ ~StatsBefore => ev'.logged = ev.logged
         /\ ~StatsBefore /\ ~StatsAfter => ev'.failures = ev.failures
         /\ ~WindowOpens => ev'.start = ev.start
         /\ ~RunnerEnds => ev'.identity_end = ev.identity_end
         /\ ~StatsAfter => ev'.logged_after = ev.logged_after
         /\ ~WindowCloses => ev'.slice = ev.slice
         /\ ~ManifestAfter => ev'.manifest_after = ev.manifest_after
         /\ ~Verdict => ev'.valid = ev.valid
<1>0. ev \in Evidence BY DEF Types
<1>1. CASE DrainScheduler \/ DrainEngines \/ Fresh \/ PostConfig \/ Preflight \/ WarmUpEnds \/ ManifestBefore
           \/ RunnerStarts \/ StatsAfterTimesOut
  <2>1. ev' = ev
    BY <1>1 DEF DrainScheduler, DrainEngines, Fresh, PostConfig, Preflight, WarmUpEnds, ManifestBefore,
             RunnerStarts, StatsAfterTimesOut
  <2> QED BY <2>1
<1>2. CASE StatsBefore BY <1>0, <1>2 DEF StatsBefore, Evidence
<1>3. CASE StatsAfter BY <1>0, <1>3 DEF StatsAfter, Evidence
<1>4. CASE WindowOpens BY <1>0, <1>4 DEF WindowOpens, Evidence
<1>5. CASE RunnerEnds BY <1>0, <1>5 DEF RunnerEnds, Evidence
<1>6. CASE ManifestAfter BY <1>0, <1>6 DEF ManifestAfter, Evidence
<1>7. CASE WindowCloses
  <2>1. ev' = ev \/ ev' = [ev EXCEPT !.slice = SubSeq(file, ev.start + 1, Len(file))] BY <1>7 DEF WindowCloses
  <2> QED BY <1>0, <1>7, <2>1 DEF Evidence
<1>8. CASE Verdict
  <2> DEFINE x == RecordOK /\ SameProcesses /\ IsolationOK /\ ArmOK /\ ZeroCallOK
  <2>1. ev' = [ev EXCEPT !.valid = x] BY <1>8 DEF Verdict
  <2> HIDE DEF x
  <2> QED BY <1>0, <1>8, <2>1 DEF Evidence
<1>9. ASSUME NEW e \in Engines, EngineBefore(e)
      PROVE  ev' = ev \/ ev' = [ev EXCEPT !.before = ev'.before]
  <2>1. ev' = ev \/ ev' = [ev EXCEPT !.before = [ev.before EXCEPT ![e] = Reading(e)]]
    BY <1>0, <1>9 DEF EngineBefore, Evidence
  <2> QED BY <1>0, <2>1 DEF Evidence
<1>10. ASSUME NEW e \in Engines, EngineAfter(e)
       PROVE  ev' = ev \/ ev' = [ev EXCEPT !.after = ev'.after]
  <2>1. ev' = ev \/ ev' = [ev EXCEPT !.after = [ev.after EXCEPT ![e] = Reading(e)]]
    BY <1>0, <1>10 DEF EngineAfter, Evidence
  <2> QED BY <1>0, <2>1 DEF Evidence
<1>11. ASSUME NEW e \in Engines, WarmUp(e)
       PROVE  ev' = ev \/ ev' = [ev EXCEPT !.found = ev'.found]
  <2> DEFINE hit == "warm" \in engine[e].cache
  <2>1. ev' = ev \/ ev' = [ev EXCEPT !.found = [ev.found EXCEPT ![e] = Append(ev.found[e], hit)]]
    BY <1>0, <1>11 DEF WarmUp, Evidence
  <2> HIDE DEF hit
  <2> QED BY <1>0, <2>1 DEF Evidence
<1>12. CASE \E e \in Engines : EngineBefore(e) BY <1>0, <1>9, <1>12 DEF Evidence
<1>13. CASE \E e \in Engines : EngineAfter(e) BY <1>0, <1>10, <1>13 DEF Evidence
<1>14. CASE \E e \in Engines : WarmUp(e) BY <1>0, <1>11, <1>14 DEF Evidence
<1> QED BY <1>1, <1>2, <1>3, <1>4, <1>5, <1>6, <1>7, <1>8, <1>12, <1>13, <1>14 DEF Script

\* Where each step of the script stands and where it goes.
LEMMA Goes ==
  /\ DrainScheduler => step = "drain scheduler" /\ step' = "drain engines"
  /\ DrainEngines => step = "drain engines" /\ step' = "fresh"
  /\ Fresh => step = "fresh" /\ step' \in {"post", "refused"}
  /\ PostConfig => step = "post" /\ step' \in {"preflight", "refused"}
  /\ Preflight => step = "preflight" /\ step' \in {"engines before", "refused"}
  /\ \A e \in Engines : EngineBefore(e) =>
       step = "engines before" /\ step' \in {"engines before", "warm-up", "refused"}
  /\ \A e \in Engines : WarmUp(e) => step = "warm-up" /\ step' \in {"warm-up", "refused"}
  /\ WarmUpEnds => step = "warm-up" /\ step' = "stats"
  /\ StatsBefore => step = "stats" /\ step' = "manifest"
  /\ ManifestBefore => step = "manifest" /\ step' \in {"window", "refused"}
  /\ WindowOpens => step = "window" /\ step' \in {"identity", "refused"}
  /\ RunnerStarts => step = "identity" /\ step' \in {"sending", "refused"}
  /\ RunnerEnds => step = "sending" /\ step' = "settle"
  /\ StatsAfter => step = "settle" /\ step' = "slice"
  /\ StatsAfterTimesOut => step = "settle" /\ step' = "engines after"
  /\ WindowCloses => step = "slice" /\ step' \in {"manifest after", "engines after"}
  /\ ManifestAfter => step = "manifest after" /\ step' = "engines after"
  /\ \A e \in Engines : EngineAfter(e) => step = "engines after" /\ step' \in {"engines after", "gates"}
  /\ Verdict => step = "gates" /\ step' = "done"
<1>1. /\ DrainScheduler => step = "drain scheduler" /\ step' = "drain engines"
      /\ DrainEngines => step = "drain engines" /\ step' = "fresh"
      /\ Fresh => step = "fresh" /\ step' \in {"post", "refused"}
      /\ PostConfig => step = "post" /\ step' \in {"preflight", "refused"}
      /\ Preflight => step = "preflight" /\ step' \in {"engines before", "refused"}
  BY DEF DrainScheduler, DrainEngines, Fresh, PostConfig, Preflight, Check
<1>2. /\ \A e \in Engines : EngineBefore(e) =>
           step = "engines before" /\ step' \in {"engines before", "warm-up", "refused"}
      /\ \A e \in Engines : WarmUp(e) => step = "warm-up" /\ step' \in {"warm-up", "refused"}
      /\ WarmUpEnds => step = "warm-up" /\ step' = "stats"
      /\ StatsBefore => step = "stats" /\ step' = "manifest"
  BY DEF EngineBefore, WarmUp, WarmUpEnds, StatsBefore
<1>3. /\ ManifestBefore => step = "manifest" /\ step' \in {"window", "refused"}
      /\ WindowOpens => step = "window" /\ step' \in {"identity", "refused"}
      /\ RunnerStarts => step = "identity" /\ step' \in {"sending", "refused"}
      /\ RunnerEnds => step = "sending" /\ step' = "settle"
  BY DEF ManifestBefore, WindowOpens, RunnerStarts, RunnerEnds, Check
<1>4. /\ StatsAfter => step = "settle" /\ step' = "slice"
      /\ StatsAfterTimesOut => step = "settle" /\ step' = "engines after"
      /\ WindowCloses => step = "slice" /\ step' \in {"manifest after", "engines after"}
      /\ ManifestAfter => step = "manifest after" /\ step' = "engines after"
      /\ \A e \in Engines : EngineAfter(e) => step = "engines after" /\ step' \in {"engines after", "gates"}
      /\ Verdict => step = "gates" /\ step' = "done"
  BY DEF StatsAfter, StatsAfterTimesOut, WindowCloses, ManifestAfter, EngineAfter, Verdict
<1> QED BY <1>1, <1>2, <1>3, <1>4

\* What a step of the script leaves alone, and the two readings that it takes.
LEMMA ScriptKeeps ==
  ASSUME Types, Script
  PROVE  /\ UNCHANGED <<file, pos, at>> /\ hist'.touched = hist.touched
         /\ (\A e \in Engines : ~WarmUp(e)) => UNCHANGED <<engine, warm>>
         /\ ~PostConfig => sched' = sched
         /\ ~RunnerStarts => hist' = hist
         /\ (\A e \in Engines : ~WarmUp(e)) /\ ~RunnerEnds => faults' = faults
         /\ \A e \in Engines : EngineBefore(e) =>
              /\ ev.before[e] = Unread
              /\ \/ step' = "refused" /\ ev' = ev /\ engine[e].start # engine[e].deployed
                 \/ /\ step' = IF \A f \in Engines \ {e} : ev.before[f] # Unread THEN "warm-up" ELSE step
                    /\ ev'.before = [ev.before EXCEPT ![e] = Reading(e)]
         /\ \A e \in Engines : EngineAfter(e) =>
              /\ ev.after[e] = Unread
              /\ \/ step' = "gates" /\ ev' = ev /\ engine[e].start # engine[e].deployed
                 \/ /\ step' = IF \A f \in Engines \ {e} : ev.after[f] # Unread THEN "gates" ELSE step
                    /\ ev'.after = [ev.after EXCEPT ![e] = Reading(e)]
<1>0. ev \in Evidence /\ hist \in History BY DEF Types
<1>1. CASE Reads
  <2>1. UNCHANGED <<engine, sched, file, pos, at, warm, faults, hist>> BY <1>1, ReadsIs
  <2>2. ASSUME NEW e \in Engines, EngineBefore(e)
        PROVE  /\ ev.before[e] = Unread
               /\ \/ step' = "refused" /\ ev' = ev /\ engine[e].start # engine[e].deployed
                  \/ /\ step' = IF \A f \in Engines \ {e} : ev.before[f] # Unread THEN "warm-up" ELSE step
                     /\ ev'.before = [ev.before EXCEPT ![e] = Reading(e)]
    BY <1>0, <2>2 DEF EngineBefore, Evidence
  <2>3. ASSUME NEW e \in Engines, EngineAfter(e)
        PROVE  /\ ev.after[e] = Unread
               /\ \/ step' = "gates" /\ ev' = ev /\ engine[e].start # engine[e].deployed
                  \/ /\ step' = IF \A f \in Engines \ {e} : ev.after[f] # Unread THEN "gates" ELSE step
                     /\ ev'.after = [ev.after EXCEPT ![e] = Reading(e)]
    BY <1>0, <2>3 DEF EngineAfter, Evidence
  <2> QED BY <2>1, <2>2, <2>3
<1>2. CASE PostConfig
  <2>1. UNCHANGED <<engine, file, pos, at, warm, faults, hist>> BY <1>2 DEF PostConfig, cell
  <2>2. step = "post" BY <1>2, Goes
  <2>3. \A e \in Engines : ~EngineBefore(e) /\ ~EngineAfter(e) BY <2>2, Goes
  <2> QED BY <1>2, <2>1, <2>3
<1>3. CASE RunnerStarts
  <2>1. UNCHANGED <<engine, sched, file, pos, at, warm, faults>> BY <1>3 DEF RunnerStarts, world, cell
  <2>2. step = "identity" BY <1>3, Goes
  <2>3. \A e \in Engines : ~EngineBefore(e) /\ ~EngineAfter(e) BY <2>2, Goes
  <2>4. hist'.touched = hist.touched BY <1>0, <1>3 DEF RunnerStarts, History
  <2> QED BY <1>3, <2>1, <2>3, <2>4
<1>4. CASE RunnerEnds
  <2>1. UNCHANGED <<engine, sched, file, pos, at, warm, hist>> BY <1>4 DEF RunnerEnds, world, cell
  <2>2. step = "sending" BY <1>4, Goes
  <2>3. \A e \in Engines : ~EngineBefore(e) /\ ~EngineAfter(e) BY <2>2, Goes
  <2> QED BY <1>4, <2>1, <2>3
<1>5. CASE \E e \in Engines : WarmUp(e)
  <2>1. UNCHANGED <<sched, file, pos, at, hist>> BY <1>5 DEF WarmUp
  <2>2. step = "warm-up" BY <1>5, Goes
  <2>3. \A e \in Engines : ~EngineBefore(e) /\ ~EngineAfter(e) BY <2>2, Goes
  <2> QED BY <1>5, <2>1, <2>3
<1> QED BY <1>1, <1>2, <1>3, <1>4, <1>5, ReadsIs

LEMMA ScriptOrder == ASSUME Types, Order, Script PROVE Order'
<1>0. UNCHANGED <<file, pos, at>> /\ hist'.touched = hist.touched BY ScriptKeeps
<1> USE DEF Opening, Ahead, Closing
<1>1. CASE DrainScheduler \/ DrainEngines \/ Fresh \/ PostConfig \/ Preflight \/ WarmUpEnds \/ StatsBefore
           \/ ManifestBefore \/ WindowOpens \/ RunnerStarts \/ RunnerEnds \/ StatsAfter \/ StatsAfterTimesOut
           \/ WindowCloses \/ ManifestAfter \/ Verdict
  <2>1. \A e \in Engines : ~EngineBefore(e) /\ ~EngineAfter(e) /\ ~WarmUp(e)
    <3>1. step \notin {"engines before", "engines after"} BY <1>1, Goes
    <3>2. ~(step = "warm-up" /\ step' \in {"warm-up", "refused"}) BY <1>1, Goes
    <3> QED BY <3>1, <3>2, Goes
  <2>2. ev'.before = ev.before /\ ev'.after = ev.after /\ warm' = warm BY <2>1, EvidenceKeeps, ScriptKeeps
  <2>3. CASE DrainScheduler \/ DrainEngines \/ Fresh \/ PostConfig \/ Preflight
    BY <1>0, <2>2, <2>3, Goes DEF Order
  <2>4. CASE WarmUpEnds
    <3>1. \A e \in Engines : warm[e] = Warmups + 2 BY <2>4 DEF WarmUpEnds
    <3> QED BY <1>0, <2>2, <2>4, <3>1, Goes DEF Order
  <2>5. CASE StatsBefore \/ ManifestBefore \/ WindowOpens \/ RunnerStarts
    BY <1>0, <2>2, <2>5, Goes DEF Order
  <2>6. CASE RunnerEnds
    <3>1. \A r \in Requests : pos[r] \in {"replied", "failed"} BY <2>6 DEF RunnerEnds
    <3> QED BY <1>0, <2>2, <2>6, <3>1, Goes DEF Order
  <2>7. CASE StatsAfter \/ StatsAfterTimesOut \/ WindowCloses \/ ManifestAfter \/ Verdict
    BY <1>0, <2>2, <2>7, Goes DEF Order
  <2> QED BY <1>1, <2>3, <2>4, <2>5, <2>6, <2>7
<1>2. ASSUME NEW e \in Engines, EngineBefore(e) PROVE Order'
  <2>1. step = "engines before" /\ step' \in {"engines before", "warm-up", "refused"} BY <1>2, Goes
  <2>2. \A f \in Engines : ~EngineAfter(f) /\ ~WarmUp(f) BY <2>1, Goes
  <2>3. ev'.after = ev.after /\ warm' = warm BY <2>2, EvidenceKeeps, ScriptKeeps
  <2>4. CASE step' = "refused" /\ ev' = ev BY <1>0, <2>1, <2>3, <2>4 DEF Order
  <2>5. CASE /\ step' = IF \A f \in Engines \ {e} : ev.before[f] # Unread THEN "warm-up" ELSE step
             /\ ev'.before = [ev.before EXCEPT ![e] = Reading(e)]
    <3>1. Reading(e) # Unread BY ReadingTypes
    <3>2. ev'.before[e] # Unread /\ \A f \in Engines : f # e => ev'.before[f] = ev.before[f]
      BY <2>5, <3>1 DEF Types, Evidence
    <3>3. step' = "warm-up" => \A f \in Engines : ev'.before[f] # Unread BY <2>1, <2>5, <3>2
    <3>4. \A f \in Engines : ev.before[f] # Unread => ev'.before[f] # Unread BY <3>2
    <3>5. \A f \in Engines : ev.after[f] = Unread BY <2>1 DEF Order
    <3>6. \A r \in Requests : pos[r] = "unsent" BY <2>1 DEF Order
    <3>7. \A f \in Engines : warm[f] = 0 BY <2>1 DEF Order
    <3>8. \A f \in hist'.touched : ev'.before[f] # Unread
      <4>1. hist.touched \subseteq Engines BY DEF Types, History
      <4> QED BY <1>0, <3>4, <4>1 DEF Order
    <3>9. \A r \in Requests : at'[r] \in Engines <=> pos'[r] = "replied" BY <1>0 DEF Order
    <3> QED BY <1>0, <2>1, <2>3, <3>3, <3>5, <3>6, <3>7, <3>8, <3>9 DEF Order
  <2> QED BY <1>2, <2>4, <2>5, ScriptKeeps
<1>3. ASSUME NEW e \in Engines, EngineAfter(e) PROVE Order'
  <2>1. step = "engines after" /\ step' \in {"engines after", "gates"} BY <1>3, Goes
  <2>2. \A f \in Engines : ~EngineBefore(f) /\ ~WarmUp(f) BY <2>1, Goes
  <2>3. ev'.before = ev.before /\ warm' = warm BY <2>2, EvidenceKeeps, ScriptKeeps
  <2> QED BY <1>0, <2>1, <2>3 DEF Order
<1>4. ASSUME NEW e \in Engines, WarmUp(e) PROVE Order'
  <2>1. step = "warm-up" /\ step' \in {"warm-up", "refused"} BY <1>4, Goes
  <2>2. \A f \in Engines : ~EngineBefore(f) /\ ~EngineAfter(f) BY <2>1, Goes
  <2>3. ev'.before = ev.before /\ ev'.after = ev.after BY <2>2, EvidenceKeeps
  <2> QED BY <1>0, <2>1, <2>3 DEF Order
<1> QED BY <1>1, <1>2, <1>3, <1>4 DEF Script

\* Who may serve: a request in service is one of a runner that is sending.
LEMMA SentWhile ==
  ASSUME Types, Order, NEW r \in Requests, pos[r] = "sent"
  PROVE  step \in {"sending", "refused"} /\ at[r] = None
<1>1. step \notin Opening \cup {"engines before", "warm-up"} \cup Ahead \cup {"settle"} \cup Closing
  BY DEF Order
<1>2. step \in {"sending", "refused"} BY <1>1 DEF Types, Steps
<1> QED BY <1>2 DEF Order, Types

LEMMA OtherOrder == ASSUME Types, Order, Serving \/ World PROVE Order'
<1> USE DEF Opening, Ahead, Closing
<1>1. ASSUME NEW r \in Requests, Send(r) PROVE Order'
  <2>1. UNCHANGED <<engine, at, warm, step, ev, hist>> /\ step = "sending" /\ pos[r] = "unsent"
        /\ pos' = [pos EXCEPT ![r] = "sent"]
    BY <1>1 DEF Send
  <2>2. pos'[r] = "sent" /\ \A q \in Requests : q # r => pos'[q] = pos[q] BY <2>1 DEF Types
  <2> QED BY <2>1, <2>2 DEF Order
<1>2. ASSUME NEW r \in Requests, NEW e \in Engines, Serve(r, e) PROVE Order'
  <2>1. UNCHANGED <<warm, step, ev>> /\ pos[r] = "sent" /\ pos' = [pos EXCEPT ![r] = "replied"]
        /\ at' = [at EXCEPT ![r] = e] /\ hist' = [hist EXCEPT !.servers = @ \cup {<<sched.proc, sched.conf>>}]
    BY <1>2 DEF Serve
  <2>2. step \in {"sending", "refused"} BY <2>1, SentWhile
  <2>3. hist'.touched = hist.touched BY <2>1 DEF Types, History
  <2>4. pos'[r] = "replied" /\ \A q \in Requests : q # r => pos'[q] = pos[q] BY <2>1 DEF Types
  <2>5. at'[r] = e /\ \A q \in Requests : q # r => at'[q] = at[q] BY <2>1 DEF Types
  <2> QED BY <2>1, <2>2, <2>3, <2>4, <2>5 DEF Order
<1>3. CASE Flush \/ Reconfigured \/ Stalls \/ WriterFails
  <2>1. UNCHANGED <<pos, at, warm, ev>>
    BY <1>3 DEF Flush, Reconfigured, Stalls, WriterFails, cell
  <2>2. hist'.touched = hist.touched
    BY <1>3 DEF Flush, Reconfigured, Stalls, WriterFails, Types, History
  <2>3. \/ step' = step
        \/ step \in {"settle", "slice", "manifest after"} /\ step' = "engines after"
        \/ step = "engines after" /\ step' = "gates"
        \/ step' = "refused" /\ step \notin {"engines after", "gates", "done"}
    BY <1>3 DEF Flush, Reconfigured, Stalls, WriterFails, Fault, Over
  <2> QED BY <2>1, <2>2, <2>3 DEF Order
<1>4. CASE SchedulerRestarts
  <2>1. UNCHANGED <<at, warm, step, ev>>
        /\ pos' = [r \in Requests |-> IF pos[r] = "sent" THEN "failed" ELSE pos[r]]
        /\ hist' = [hist EXCEPT !.failed = FALSE]
    BY <1>4 DEF SchedulerRestarts
  <2>2. hist'.touched = hist.touched BY <2>1 DEF Types, History
  <2>3. \A r \in Requests : pos'[r] = IF pos[r] = "sent" THEN "failed" ELSE pos[r] BY <2>1
  <2> QED BY <2>1, <2>2, <2>3 DEF Order
<1>5. ASSUME NEW e \in Engines, ForeignArrives(e) \/ ForeignEnds(e) \/ EngineRestarts(e) PROVE Order'
  <2>1. UNCHANGED <<pos, at, warm, step, ev>> /\ Touch(e)
    BY <1>5 DEF ForeignArrives, ForeignEnds, EngineRestarts, cell
  <2>2. hist'.touched = IF ev.before[e] # Unread /\ ev.after[e] = Unread THEN hist.touched \cup {e}
                        ELSE hist.touched
    BY <2>1, TouchIs
  <2>3. \A f \in hist'.touched : ev.before[f] # Unread BY <2>2 DEF Order
  <2> QED BY <2>1, <2>3 DEF Order
<1>6. ASSUME NEW r \in Requests, RequestFails(r) PROVE Order'
  <2>1. UNCHANGED <<at, warm, step, ev, hist>> /\ pos[r] = "sent" /\ pos' = [pos EXCEPT ![r] = "failed"]
    BY <1>6 DEF RequestFails
  <2>2. pos'[r] = "failed" /\ \A q \in Requests : q # r => pos'[q] = pos[q] BY <2>1 DEF Types
  <2>3. step \in {"sending", "refused"} BY <2>1, SentWhile
  <2> QED BY <2>1, <2>2, <2>3 DEF Order
<1> QED BY <1>1, <1>2, <1>3, <1>4, <1>5, <1>6 DEF Serving, World

-----------------------------------------------------------------------------
(* The counters *)

AtOf(e) == {r \in Requests : at[r] = e}

LEMMA OwnTypes ==
  ASSUME Types, NEW e \in Engines
  PROVE  /\ IsFiniteSet(AtOf(e)) /\ Cardinality(AtOf(e)) \in Nat
         /\ Own(e) = Cardinality(AtOf(e))
                       + (IF warm[e] = 0 THEN 0 ELSE IF warm[e] <= 2 THEN 1 ELSE warm[e] - 1)
         /\ warm[e] \in 0 .. Warmups + 2 /\ Own(e) \in Nat
<1>1. IsFiniteSet(AtOf(e)) BY CellAssumption, FS_Subset DEF AtOf
<1>2. Cardinality(AtOf(e)) \in Nat BY <1>1, FS_CardinalityType
<1>3. Own(e) = Cardinality(AtOf(e)) + (IF warm[e] = 0 THEN 0 ELSE IF warm[e] <= 2 THEN 1 ELSE warm[e] - 1)
  BY DEF Own, AtOf
<1>4. warm[e] \in 0 .. Warmups + 2 BY DEF Types
<1>5. Own(e) \in Nat BY <1>2, <1>3, <1>4, CellAssumption
<1> QED BY <1>1, <1>2, <1>3, <1>4, <1>5

LEMMA NowTypes ==
  ASSUME Types, NEW e \in Engines
  PROVE  /\ ev.before[e] \in Readings /\ Now(e) \in Readings
         /\ \A x \in Readings : x.start \in Nat /\ x.finished \in Nat /\ x.tokens \in Nat
<1>1. Reading(e) \in Readings BY ReadingTypes
<1>2. ev.before[e] \in Readings /\ ev.after[e] \in Readings BY DEF Types, Evidence
<1> QED BY <1>1, <1>2 DEF Now, Readings

\* Nothing that counts has moved.
LEMMA CountingSame ==
  ASSUME NEW e \in Engines, Counting(e),
         ev'.before[e] = ev.before[e], ev'.after[e] = ev.after[e],
         Reading(e)' = Reading(e) \/ ev.after[e] # Unread,
         Own(e)' = Own(e), e \in hist'.touched <=> e \in hist.touched
  PROVE  Counting(e)'
<1>1. Now(e)' = Now(e) BY DEF Now
<1> QED BY <1>1 DEF Counting

\* The cell's own request: one more of everything on an engine that is between its readings.
LEMMA CountsOwn ==
  ASSUME Types, Types', NEW e \in Engines, Counting(e),
         ev'.before[e] = ev.before[e], ev.after[e] = Unread, ev'.after[e] = Unread,
         Reading(e)'.start = Reading(e).start, Reading(e)'.finished = Reading(e).finished + 1,
         Reading(e)'.tokens = Reading(e).tokens + 2,
         Own(e)' = Own(e) + 1, e \in hist'.touched <=> e \in hist.touched
  PROVE  Counting(e)'
<1>1. Now(e)' = Reading(e)' /\ Now(e) = Reading(e) BY DEF Now
<1>2. Now(e) \in Readings /\ ev.before[e] \in Readings /\ Own(e) \in Nat BY NowTypes, OwnTypes
<1>3. ev.before[e].start \in Nat /\ ev.before[e].finished \in Nat /\ ev.before[e].tokens \in Nat
      /\ Now(e).start \in Nat /\ Now(e).finished \in Nat /\ Now(e).tokens \in Nat
  BY <1>2, NowTypes
<1> QED BY <1>1, <1>2, <1>3 DEF Counting

\* Somebody else's: an engine between its readings is touched, and its tokens, or its process, go ahead.
LEMMA CountsForeign ==
  ASSUME Types, Types', NEW e \in Engines, Counting(e), Touch(e),
         ev' = ev, Own(e)' = Own(e),
         \/ Reading(e)'.start = Reading(e).start /\ Reading(e)'.tokens = Reading(e).tokens + 1
         \/ Reading(e)'.start = Reading(e).start + 1
  PROVE  Counting(e)'
<1>1. hist'.touched = IF ev.before[e] # Unread /\ ev.after[e] = Unread THEN hist.touched \cup {e} ELSE hist.touched
  BY TouchIs
<1>2. CASE ev.before[e] = Unread BY <1>2 DEF Counting
<1>3. CASE ev.after[e] # Unread BY <1>1, <1>3, CountingSame
<1>4. CASE ev.before[e] # Unread /\ ev.after[e] = Unread
  <2>1. e \in hist'.touched BY <1>1, <1>4
  <2>2. Now(e)' = Reading(e)' /\ Now(e) = Reading(e) BY <1>4 DEF Now
  <2>3. Now(e) \in Readings /\ ev.before[e] \in Readings /\ Own(e) \in Nat BY NowTypes, OwnTypes
  <2>4. ev.before[e].start \in Nat /\ ev.before[e].finished \in Nat /\ ev.before[e].tokens \in Nat
        /\ Now(e).start \in Nat /\ Now(e).finished \in Nat /\ Now(e).tokens \in Nat
    BY <2>3, NowTypes
  <2> QED BY <1>4, <2>1, <2>2, <2>3, <2>4 DEF Counting
<1> QED BY <1>2, <1>3, <1>4

LEMMA ScriptCounting ==
  ASSUME Types, Types', Order, Script, \A e \in Engines : Counting(e)
  PROVE  \A e \in Engines : Counting(e)'
<1> SUFFICES ASSUME NEW e \in Engines PROVE Counting(e)' OBVIOUS
<1>0. UNCHANGED <<file, pos, at>> /\ hist'.touched = hist.touched BY ScriptKeeps
<1>1. AtOf(e)' = AtOf(e) BY <1>0 DEF AtOf
<1>2. CASE \E f \in Engines : EngineBefore(f)
  <2>1. PICK f \in Engines : EngineBefore(f) BY <1>2
  <2>2. step = "engines before" BY <2>1, Goes
  <2>3. \A g \in Engines : ~EngineAfter(g) /\ ~WarmUp(g) BY <2>2, Goes
  <2>4. ev'.after = ev.after /\ UNCHANGED <<engine, warm>> BY <2>3, EvidenceKeeps, ScriptKeeps
  <2>5. Own(e)' = Own(e) BY <1>0, <2>4 DEF Own
  <2>6. Reading(e)' = Reading(e) BY <2>4 DEF Reading
  <2>7. CASE ev' = ev BY <1>0, <2>5, <2>6, <2>7, CountingSame
  <2>8. CASE ev'.before = [ev.before EXCEPT ![f] = Reading(f)] /\ f # e
    <3>1. ev'.before[e] = ev.before[e] BY <2>8 DEF Types, Evidence
    <3> QED BY <1>0, <2>4, <2>5, <2>6, <3>1, CountingSame
  <2>9. CASE ev'.before = [ev.before EXCEPT ![f] = Reading(f)] /\ f = e
    <3>1. ev'.before[e] = Reading(e) BY <2>9 DEF Types, Evidence
    <3>2. ev.after[e] = Unread /\ warm[e] = 0 /\ \A r \in Requests : pos[r] = "unsent"
      BY <2>2 DEF Order, Opening, Ahead
    <3>3. \A r \in Requests : at[r] # e BY <3>2 DEF Order
    <3>4. AtOf(e) = {} BY <3>3 DEF AtOf
    <3>5. Own(e) = 0 BY <3>2, <3>4, OwnTypes, FS_EmptySet
    <3>6. e \notin hist.touched
      <4>1. ev.before[e] = Unread BY <2>1, <2>9, ScriptKeeps
      <4> QED BY <4>1 DEF Order
    <3>7. Now(e)' = Reading(e) BY <2>4, <2>6, <3>2 DEF Now
    <3>8. Reading(e).start \in Nat /\ Reading(e).finished \in Nat /\ Reading(e).tokens \in Nat
      BY ReadingTypes, NowTypes
    <3> QED BY <1>0, <2>5, <3>1, <3>5, <3>6, <3>7, <3>8 DEF Counting
  <2> QED BY <2>1, <2>7, <2>8, <2>9, ScriptKeeps
<1>3. CASE \E f \in Engines : EngineAfter(f)
  <2>1. PICK f \in Engines : EngineAfter(f) BY <1>3
  <2>2. step = "engines after" BY <2>1, Goes
  <2>3. \A g \in Engines : ~EngineBefore(g) /\ ~WarmUp(g) BY <2>2, Goes
  <2>4. ev'.before = ev.before /\ UNCHANGED <<engine, warm>> BY <2>3, EvidenceKeeps, ScriptKeeps
  <2>5. Own(e)' = Own(e) BY <1>0, <2>4 DEF Own
  <2>6. Reading(e)' = Reading(e) BY <2>4 DEF Reading
  <2>7. CASE ev' = ev BY <1>0, <2>5, <2>6, <2>7, CountingSame
  <2>8. CASE ev'.after = [ev.after EXCEPT ![f] = Reading(f)] /\ f # e
    <3>1. ev'.after[e] = ev.after[e] BY <2>8 DEF Types, Evidence
    <3> QED BY <1>0, <2>4, <2>5, <2>6, <3>1, CountingSame
  <2>9. CASE ev'.after = [ev.after EXCEPT ![f] = Reading(f)] /\ f = e
    <3>1. ev'.after[e] = Reading(e) BY <2>9 DEF Types, Evidence
    <3>2. ev.after[e] = Unread BY <2>1, <2>9, ScriptKeeps
    <3>3. Reading(e) # Unread BY ReadingTypes
    <3>4. Now(e)' = Now(e) BY <3>1, <3>2, <3>3 DEF Now
    <3> QED BY <1>0, <2>4, <2>5, <3>4 DEF Counting
  <2> QED BY <2>1, <2>7, <2>8, <2>9, ScriptKeeps
<1>4. CASE \E f \in Engines : WarmUp(f)
  <2>1. PICK f \in Engines : WarmUp(f) BY <1>4
  <2>2. step = "warm-up" BY <2>1, Goes
  <2>3. \A g \in Engines : ~EngineBefore(g) /\ ~EngineAfter(g) BY <2>2, Goes
  <2>4. ev'.before = ev.before /\ ev'.after = ev.after /\ ev.after[e] = Unread
    BY <2>2, <2>3, EvidenceKeeps DEF Order
  <2>5. warm' = [warm EXCEPT ![f] = @ + 1] /\ warm[f] < Warmups + 2 BY <2>1 DEF WarmUp
  <2>6. CASE f # e
    <3>1. warm'[e] = warm[e] BY <2>5, <2>6 DEF Types
    <3>2. Own(e)' = Own(e) BY <1>0, <3>1 DEF Own
    <3>3. engine'[e] = engine[e] BY <2>1, <2>6, WarmUpMoves
    <3>4. Reading(e)' = Reading(e) BY <3>3 DEF Reading
    <3> QED BY <1>0, <2>4, <3>2, <3>4, CountingSame
  <2>7. CASE f = e
    <3>1. warm'[e] = warm[e] + 1 /\ warm[e] \in 0 .. Warmups + 2 BY <2>5, <2>7 DEF Types
    <3>2. engine[e] \in EngineStates BY DEF Types
    <3>3. Own(e)' = Cardinality(AtOf(e))
                      + (IF warm[e] + 1 = 0 THEN 0 ELSE IF warm[e] + 1 <= 2 THEN 1 ELSE (warm[e] + 1) - 1)
      BY <1>1, <3>1, OwnTypes DEF Own, AtOf
    <3>4. CASE warm[e] = 1
      <4>1. engine'[e] = [engine[e] EXCEPT !.cache = {}] \/ engine' = engine BY <2>1, <2>7, <3>4, WarmUpMoves
      <4>2. engine'[e].start = engine[e].start /\ engine'[e].finished = engine[e].finished
            /\ engine'[e].tokens = engine[e].tokens
        BY <3>2, <4>1 DEF EngineStates
      <4>3. Reading(e)' = Reading(e) BY <4>2 DEF Reading
      <4>4. Own(e)' = Own(e) BY <3>3, <3>4, OwnTypes
      <4> QED BY <1>0, <2>4, <4>3, <4>4, CountingSame
    <3>5. CASE warm[e] # 1
      <4>1. engine'[e] = [engine[e] EXCEPT !.finished = @ + 1, !.tokens = @ + 2, !.cache = @ \cup {"warm"}]
        BY <2>1, <2>7, <3>5, WarmUpMoves
      <4>2. engine'[e].start = engine[e].start /\ engine'[e].finished = engine[e].finished + 1
            /\ engine'[e].tokens = engine[e].tokens + 2
        BY <3>2, <4>1 DEF EngineStates
      <4>3. Reading(e)'.start = Reading(e).start /\ Reading(e)'.finished = Reading(e).finished + 1
            /\ Reading(e)'.tokens = Reading(e).tokens + 2
        BY <4>2 DEF Reading
      <4>4. Own(e)' = Own(e) + 1 BY <3>1, <3>3, <3>5, OwnTypes
      <4> QED BY <1>0, <2>4, <4>3, <4>4, CountsOwn
    <3> QED BY <3>4, <3>5
  <2> QED BY <2>6, <2>7
<1>5. CASE \A f \in Engines : ~EngineBefore(f) /\ ~EngineAfter(f) /\ ~WarmUp(f)
  <2>1. ev'.before = ev.before /\ ev'.after = ev.after /\ UNCHANGED <<engine, warm>>
    BY <1>5, EvidenceKeeps, ScriptKeeps
  <2>2. Own(e)' = Own(e) BY <1>0, <2>1 DEF Own
  <2>3. Reading(e)' = Reading(e) BY <2>1 DEF Reading
  <2> QED BY <1>0, <2>1, <2>2, <2>3, CountingSame
<1> QED BY <1>2, <1>3, <1>4, <1>5

LEMMA OtherCounting ==
  ASSUME Types, Types', Order, Serving \/ World, \A e \in Engines : Counting(e)
  PROVE  \A e \in Engines : Counting(e)'
<1> SUFFICES ASSUME NEW e \in Engines PROVE Counting(e)' OBVIOUS
<1>1. CASE UNCHANGED <<engine, at, warm, ev>> /\ hist'.touched = hist.touched
  <2>1. Own(e)' = Own(e) /\ Reading(e)' = Reading(e) BY <1>1 DEF Own, Reading
  <2> QED BY <1>1, <2>1, CountingSame
<1>2. CASE \E r \in Requests : Send(r) \/ RequestFails(r) BY <1>1, <1>2 DEF Send, RequestFails
<1>3. CASE Flush \/ Reconfigured \/ Stalls
  <2>1. UNCHANGED <<engine, at, warm, ev, hist>> BY <1>3 DEF Flush, Reconfigured, Stalls, world, cell
  <2> QED BY <1>1, <2>1
<1>4. CASE WriterFails
  <2>1. UNCHANGED <<engine, at, warm, ev>> BY <1>4 DEF WriterFails, cell
  <2>2. hist'.touched = hist.touched BY <1>4 DEF WriterFails, Types, History
  <2> QED BY <1>1, <2>1, <2>2
<1>5. CASE SchedulerRestarts
  <2>1. UNCHANGED <<at, warm, ev>> BY <1>5 DEF SchedulerRestarts
  <2>2. hist'.touched = hist.touched BY <1>5 DEF SchedulerRestarts, Types, History
  <2>3. Own(e)' = Own(e) BY <2>1 DEF Own
  <2>4. engine'[e].start = engine[e].start /\ engine'[e].finished = engine[e].finished
        /\ engine'[e].tokens = engine[e].tokens
    BY <1>5, NewServerMoves
  <2>5. Reading(e)' = Reading(e) BY <2>4 DEF Reading
  <2> QED BY <2>1, <2>2, <2>3, <2>5, CountingSame
<1>6. CASE \E f \in Engines : ForeignArrives(f) \/ ForeignEnds(f) \/ EngineRestarts(f)
  <2>1. PICK f \in Engines : ForeignArrives(f) \/ ForeignEnds(f) \/ EngineRestarts(f) BY <1>6
  <2>2. UNCHANGED <<pos, at, warm, step, ev>> /\ Touch(f)
    BY <2>1 DEF ForeignArrives, ForeignEnds, EngineRestarts, cell
  <2>3. Own(e)' = Own(e) BY <2>2 DEF Own
  <2>4. CASE f # e
    <3>1. engine'[e] = engine[e] BY <2>1, <2>4, ArrivalMoves, EndMoves, RestartMoves
    <3>2. Reading(e)' = Reading(e) BY <3>1 DEF Reading
    <3>3. e \in hist'.touched <=> e \in hist.touched BY <2>2, <2>4, TouchIs
    <3> QED BY <2>2, <2>3, <3>2, <3>3, CountingSame
  <2>5. CASE f = e
    <3>1. engine[e] \in EngineStates BY DEF Types
    <3>2. CASE ForeignArrives(e) \/ ForeignEnds(e)
      <4>1. PICK how \in {"none", "direct", "scheduled"} :
              \/ engine'[e] = [engine[e] EXCEPT !.tokens = @ + 1, !.cache = @ \cup {"foreign"}, !.foreign = how]
              \/ engine'[e] = [engine[e] EXCEPT !.finished = @ + 1, !.tokens = @ + 1, !.foreign = how]
        BY <3>2, ArrivalMoves, EndMoves
      <4>2. engine'[e].start = engine[e].start /\ engine'[e].tokens = engine[e].tokens + 1
        BY <3>1, <4>1 DEF EngineStates
      <4>3. Reading(e)'.start = Reading(e).start /\ Reading(e)'.tokens = Reading(e).tokens + 1
        BY <4>2 DEF Reading
      <4> QED BY <2>2, <2>3, <2>5, <4>3, CountsForeign
    <3>3. CASE EngineRestarts(e)
      <4>1. Reading(e)'.start = Reading(e).start + 1 BY <3>3, RestartMoves DEF Reading
      <4> QED BY <2>2, <2>3, <2>5, <4>1, CountsForeign
    <3> QED BY <2>1, <2>5, <3>2, <3>3
  <2> QED BY <2>4, <2>5
<1>7. CASE \E r \in Requests, f \in Engines : Serve(r, f)
  <2>1. PICK r \in Requests, f \in Engines : Serve(r, f) BY <1>7
  <2>2. UNCHANGED <<warm, step, ev>> /\ pos[r] = "sent" /\ at' = [at EXCEPT ![r] = f]
        /\ hist' = [hist EXCEPT !.servers = @ \cup {<<sched.proc, sched.conf>>}]
    BY <2>1 DEF Serve
  <2>3. hist'.touched = hist.touched BY <2>2 DEF Types, History
  <2>4. step \in {"sending", "refused"} /\ at[r] = None /\ ev.after[e] = Unread
    <3>1. step \in {"sending", "refused"} /\ at[r] = None BY <2>2, SentWhile
    <3> QED BY <3>1 DEF Order
  <2>5. None \notin Engines BY CellAssumption
  <2>6. at'[r] = f /\ \A q \in Requests : q # r => at'[q] = at[q] BY <2>2 DEF Types
  <2>7. CASE f # e
    <3>1. AtOf(e)' = AtOf(e) BY <2>4, <2>5, <2>6, <2>7 DEF AtOf
    <3>2. Own(e)' = Own(e) BY <2>2, <3>1 DEF Own, AtOf
    <3>3. engine'[e] = engine[e] BY <2>1, <2>7, ServeMoves
    <3>4. Reading(e)' = Reading(e) BY <3>3 DEF Reading
    <3> QED BY <2>2, <2>3, <3>2, <3>4, CountingSame
  <2>8. CASE f = e
    <3>1. AtOf(e)' = AtOf(e) \cup {r} /\ r \notin AtOf(e) BY <2>4, <2>5, <2>6, <2>8 DEF AtOf
    <3>2. Cardinality(AtOf(e)') = Cardinality(AtOf(e)) + 1 BY <3>1, OwnTypes, FS_AddElement
    <3>3. Own(e)' = Cardinality(AtOf(e)')
                      + (IF warm[e] = 0 THEN 0 ELSE IF warm[e] <= 2 THEN 1 ELSE warm[e] - 1)
      BY <2>2 DEF Own, AtOf
    <3>4. Own(e)' = Own(e) + 1 BY <3>2, <3>3, OwnTypes
    <3>5. engine[e] \in EngineStates BY DEF Types
    <3>6. engine'[e] = [engine[e] EXCEPT !.finished = @ + 1, !.tokens = @ + 2, !.cache = @ \cup {"own"}]
      BY <2>1, <2>8, ServeMoves
    <3>7. engine'[e].start = engine[e].start /\ engine'[e].finished = engine[e].finished + 1
          /\ engine'[e].tokens = engine[e].tokens + 2
      BY <3>5, <3>6 DEF EngineStates
    <3>8. Reading(e)'.start = Reading(e).start /\ Reading(e)'.finished = Reading(e).finished + 1
          /\ Reading(e)'.tokens = Reading(e).tokens + 2
      BY <3>7 DEF Reading
    <3> QED BY <2>2, <2>3, <2>4, <3>4, <3>8, CountsOwn
  <2> QED BY <2>7, <2>8
<1> QED BY <1>2, <1>3, <1>4, <1>5, <1>6, <1>7 DEF Serving, World

-----------------------------------------------------------------------------
(* The caches *)

LEMMA FaultsGrow ==
  ASSUME Types, Next
  PROVE  faults' >= faults /\ (step' # "refused" => step # "refused")
<1>1. CASE Script
  <2>1. step # "refused" BY <1>1, Goes DEF Script
  <2>2. CASE \E e \in Engines : WarmUp(e)
    <3>1. PICK e \in Engines : WarmUp(e) BY <2>2
    <3>2. faults' = faults \/ faults' = faults + 1 BY <3>1, WarmUpMoves
    <3> QED BY <2>1, <3>2 DEF Types
  <2>3. CASE RunnerEnds BY <2>1, <2>3 DEF RunnerEnds, Types
  <2>4. CASE ~RunnerEnds /\ \A e \in Engines : ~WarmUp(e) BY <1>1, <2>1, <2>4, ScriptKeeps DEF Types
  <2> QED BY <2>2, <2>3, <2>4
<1>2. CASE Serving
  <2>1. faults' = faults /\ step' = step BY <1>2 DEF Serving, Send, Serve
  <2> QED BY <2>1 DEF Types
<1>3. CASE Flush \/ WriterFails \/ SchedulerRestarts \/ Reconfigured \/ Stalls
  <2>1. (faults' = faults \/ faults' = faults + 1) /\ (step' = step \/ step # "refused")
    BY <1>3 DEF Flush, WriterFails, SchedulerRestarts, Reconfigured, Stalls, Fault, Over
  <2> QED BY <2>1 DEF Types
<1>4. CASE \E e \in Engines : ForeignArrives(e) \/ ForeignEnds(e) \/ EngineRestarts(e)
  BY <1>4 DEF ForeignArrives, ForeignEnds, EngineRestarts, Fault, Over, Types
<1>5. CASE \E r \in Requests : RequestFails(r) BY <1>5 DEF RequestFails, Fault, Over, Types
<1> QED BY <1>1, <1>2, <1>3, <1>4, <1>5 DEF Next, World

\* The warm-up's step on an engine, by what it finds there.
LEMMA WarmUpFinds ==
  ASSUME Types, NEW e \in Engines, WarmUp(e)
  PROVE  LET hit == "warm" \in engine[e].cache
         IN  /\ warm'[e] = warm[e] + 1 /\ \A f \in Engines : f # e => warm'[f] = warm[f]
             /\ warm[e] \in 0 .. Warmups + 1
             /\ \A f \in Engines : f # e => ev'.found[f] = ev.found[f]
             /\ warm[e] \in 2 .. 3 => ev'.found[e] = Append(ev.found[e], hit)
             /\ warm[e] \notin 2 .. 3 => ev'.found[e] = ev.found[e]
             /\ step' = IF warm[e] \in 2 .. 3 /\ (hit <=> warm[e] = 2) THEN "refused" ELSE step
<1> DEFINE hit == "warm" \in engine[e].cache
<1>1. warm' = [warm EXCEPT ![e] = @ + 1] /\ warm[e] < Warmups + 2 BY DEF WarmUp
<1>2. warm[e] \in 0 .. Warmups + 1 BY <1>1, CellAssumption DEF Types
<1>3. warm'[e] = warm[e] + 1 /\ \A f \in Engines : f # e => warm'[f] = warm[f] BY <1>1 DEF Types
<1>4. ev' = IF warm[e] \in 2 .. 3 THEN [ev EXCEPT !.found = [ev.found EXCEPT ![e] = Append(ev.found[e], hit)]] ELSE ev
  BY DEF WarmUp, Types, Evidence
<1>5. step' = IF warm[e] \in 2 .. 3 /\ hit = (warm[e] = 2) THEN "refused" ELSE step BY DEF WarmUp
<1>6. hit = (warm[e] = 2) <=> (hit <=> warm[e] = 2)
  <2>1. hit \in BOOLEAN /\ (warm[e] = 2) \in BOOLEAN OBVIOUS
  <2> QED BY <2>1
<1> HIDE DEF hit
<1>7. /\ \A f \in Engines : f # e => ev'.found[f] = ev.found[f]
      /\ warm[e] \in 2 .. 3 => ev'.found[e] = Append(ev.found[e], hit)
      /\ warm[e] \notin 2 .. 3 => ev'.found[e] = ev.found[e]
  <2>1. ev \in Evidence /\ ev.found \in [Engines -> Seq(BOOLEAN)] BY DEF Types, Evidence
  <2>2. CASE warm[e] \in 2 .. 3
    <3>1. ev'.found = [ev.found EXCEPT ![e] = Append(ev.found[e], hit)] BY <1>4, <2>1, <2>2 DEF Evidence
    <3> QED BY <2>1, <2>2, <3>1
  <2>3. CASE warm[e] \notin 2 .. 3 BY <1>4, <2>3
  <2> QED BY <2>2, <2>3
<1> QED BY <1>2, <1>3, <1>5, <1>6, <1>7 DEF hit

LEMMA TwoFound == Append(<<FALSE>>, TRUE) = <<FALSE, TRUE>>
<1>1. ASSUME NEW x, NEW y PROVE Append(<<x>>, y) = <<x, y>>
  <2>1. <<x>> \in Seq({x, y}) /\ <<x, y>> \in Seq({x, y}) OBVIOUS
  <2>2. Append(<<x>>, y) \in Seq({x, y}) /\ Len(Append(<<x>>, y)) = 2
        /\ Append(<<x>>, y)[1] = x /\ Append(<<x>>, y)[2] = y
    BY <2>1, AppendProperties
  <2> DEFINE s == Append(<<x>>, y)
             t == <<x, y>>
             S == {x, y}
  <2>3. Len(t) = 2 /\ t[1] = x /\ t[2] = y OBVIOUS
  <2>4. s \in Seq(S) /\ t \in Seq(S) BY <2>1, <2>2
  <2>5. Len(s) = 2 /\ s[1] = x /\ s[2] = y BY <2>2
  <2> HIDE DEF s, t, S
  <2>6. Len(s) = Len(t) /\ \A i \in 1 .. Len(s) : s[i] = t[i] BY <2>3, <2>5
  <2>7. s = t BY <2>4, <2>6, SeqEqual
  <2> QED BY <2>7 DEF s, t
<1> QED BY <1>1, Zenon

LEMMA FoundKept ==
  ASSUME Types, Next, \A e \in Engines : Cached(e) /\ Found(e), Order
  PROVE  \A e \in Engines : Found(e)'
<1> SUFFICES ASSUME NEW e \in Engines, step' # "refused" PROVE Found(e)' BY DEF Found
<1>0. step # "refused" BY FaultsGrow
<1>1. CASE warm'[e] = warm[e] /\ ev'.found[e] = ev.found[e] BY <1>0, <1>1 DEF Found
<1>2. CASE \E f \in Engines : WarmUp(f)
  <2>1. PICK f \in Engines : WarmUp(f) BY <1>2
  <2>2. CASE f # e BY <1>1, <2>1, <2>2, WarmUpFinds
  <2>3. CASE f = e
    <3>1. WarmUp(e) /\ warm[e] \in 0 .. Warmups + 1 /\ warm'[e] = warm[e] + 1 BY <2>1, <2>3, WarmUpFinds
    <3>2. CASE warm[e] = 2
      <4>1. ~("warm" \in engine[e].cache) BY <3>1, <3>2, WarmUpFinds
      <4>2. ev'.found[e] = Append(<<>>, FALSE)
        <5>1. ev.found[e] = <<>> BY <1>0, <3>2 DEF Found
        <5>2. ev'.found[e] = Append(ev.found[e], "warm" \in engine[e].cache) BY <3>1, <3>2, WarmUpFinds
        <5>3. ("warm" \in engine[e].cache) = FALSE BY <4>1
        <5> QED BY <5>1, <5>2, <5>3
      <4>3. Append(<<>>, FALSE) = <<FALSE>> OBVIOUS
      <4> QED BY <3>1, <3>2, <4>2, <4>3 DEF Found
    <3>3. CASE warm[e] = 3
      <4>1. "warm" \in engine[e].cache BY <3>1, <3>3, WarmUpFinds
      <4>2. ev'.found[e] = Append(<<FALSE>>, TRUE)
        <5>1. ~(warm[e] <= 2) BY <3>3
        <5>4. ev.found[e] = <<FALSE>> BY <1>0, <3>3, <5>1, Zenon DEF Found
        <5>2. ev'.found[e] = Append(ev.found[e], "warm" \in engine[e].cache) BY <3>1, <3>3, WarmUpFinds
        <5>3. ("warm" \in engine[e].cache) = TRUE BY <4>1
        <5> QED BY <5>2, <5>3, <5>4
      <4>3. Append(<<FALSE>>, TRUE) = <<FALSE, TRUE>> BY TwoFound, Zenon
      <4>4. ~(warm'[e] <= 2) /\ warm'[e] # 3 BY <3>1, <3>3
      <4> QED BY <4>2, <4>3, <4>4, Zenon DEF Found
    <3>4. CASE warm[e] \notin 2 .. 3
      <4>1. ev'.found[e] = ev.found[e] BY <3>1, <3>4, WarmUpFinds
      <4>2. \/ warm[e] <= 1 /\ warm'[e] <= 2
            \/ warm[e] > 3 /\ warm'[e] > 3
        BY <3>1, <3>4, CellAssumption
      <4>3. ev.found[e] = IF warm[e] <= 2 THEN <<>> ELSE IF warm[e] = 3 THEN <<FALSE>> ELSE <<FALSE, TRUE>>
        BY <1>0 DEF Found
      <4>4. CASE warm[e] <= 1 /\ warm'[e] <= 2
        <5>1. ev.found[e] = <<>> BY <3>1, <4>3, <4>4
        <5> QED BY <4>1, <4>4, <5>1 DEF Found
      <4>5. CASE warm[e] > 3 /\ warm'[e] > 3
        <5>1. ~(warm[e] <= 2) /\ warm[e] # 3 BY <3>1, <4>5
        <5>2. ~(warm'[e] <= 2) /\ warm'[e] # 3 BY <3>1, <4>5
        <5>3. ev.found[e] = <<FALSE, TRUE>> BY <4>3, <5>1, Zenon
        <5> QED BY <4>1, <5>2, <5>3, Zenon DEF Found
      <4> QED BY <4>2, <4>4, <4>5
    <3> QED BY <3>2, <3>3, <3>4
  <2> QED BY <2>2, <2>3
<1>3. CASE Script /\ \A f \in Engines : ~WarmUp(f) BY <1>1, <1>3, EvidenceKeeps, ScriptKeeps
<1>4. CASE Serving BY <1>1, <1>4 DEF Serving, Send, Serve
<1>5. CASE Flush \/ WriterFails \/ SchedulerRestarts \/ Reconfigured \/ Stalls
  BY <1>1, <1>5 DEF Flush, WriterFails, SchedulerRestarts, Reconfigured, Stalls, cell
<1>6. CASE \E f \in Engines : ForeignArrives(f) \/ ForeignEnds(f) \/ EngineRestarts(f)
  BY <1>1, <1>6 DEF ForeignArrives, ForeignEnds, EngineRestarts, cell
<1>7. CASE \E r \in Requests : RequestFails(r) BY <1>1, <1>7 DEF RequestFails
<1> QED BY <1>2, <1>3, <1>4, <1>5, <1>6, <1>7 DEF Next, World

LEMMA CachedKept ==
  ASSUME Types, Types', Next, \A e \in Engines : Cached(e), Order
  PROVE  \A e \in Engines : Cached(e)'
<1> USE DEF Ahead
<1> SUFFICES ASSUME NEW e \in Engines, step' \in {"warm-up"} \cup Ahead, e \notin hist'.touched PROVE Cached(e)'
  BY DEF Cached
<1>0. faults' >= faults /\ faults \in Nat /\ faults' \in Nat BY FaultsGrow, CellAssumption DEF Types
<1>1. CASE /\ warm'[e] = warm[e] /\ engine'[e].cache = engine[e].cache
           /\ step \in {"warm-up"} \cup Ahead /\ e \notin hist.touched
  BY <1>0, <1>1 DEF Cached
<1>2. CASE \E f \in Engines : WarmUp(f)
  <2>1. PICK f \in Engines : WarmUp(f) BY <1>2
  <2>2. step = "warm-up" /\ hist' = hist BY <2>1, Goes DEF WarmUp
  <2>3. CASE f # e
    <3>1. warm'[e] = warm[e] BY <2>1, <2>3, WarmUpFinds
    <3>2. engine'[e] = engine[e] BY <2>1, <2>3, WarmUpMoves
    <3> QED BY <1>1, <2>2, <3>1, <3>2
  <2>4. CASE f = e
    <3>1. WarmUp(e) /\ warm[e] \in 0 .. Warmups + 1 /\ warm'[e] = warm[e] + 1 BY <2>1, <2>4, WarmUpFinds
    <3>2. engine[e] \in EngineStates BY DEF Types
    <3>3. CASE warm[e] = 1 /\ engine'[e] = [engine[e] EXCEPT !.cache = {}]
      <4>1. engine'[e].cache = {} BY <3>2, <3>3 DEF EngineStates
      <4> QED BY <3>1, <3>3, <4>1 DEF Cached
    <3>4. CASE warm[e] = 1 /\ engine' = engine /\ faults' = faults + 1
      <4>1. "warm" \in engine[e].cache BY <2>2, <3>4 DEF Cached
      <4> QED BY <1>0, <3>1, <3>4, <4>1 DEF Cached
    <3>5. CASE /\ warm[e] # 1
               /\ engine'[e] = [engine[e] EXCEPT !.finished = @ + 1, !.tokens = @ + 2, !.cache = @ \cup {"warm"}]
      <4>1. engine'[e].cache = engine[e].cache \cup {"warm"} BY <3>2, <3>5 DEF EngineStates
      <4>2. CASE warm[e] = 0 BY <3>1, <4>1, <4>2 DEF Cached
      <4>3. CASE warm[e] = 2
        <5>1. ~("warm" \in engine[e].cache) BY <3>1, <4>3, WarmUpFinds
        <5>2. engine[e].cache = {} BY <2>2, <4>3, <5>1 DEF Cached
        <5> QED BY <3>1, <4>1, <4>3, <5>2 DEF Cached
      <4>4. CASE warm[e] >= 3
        <5>1. engine[e].cache = {"warm"} BY <2>2, <4>4 DEF Cached
        <5>2. engine'[e].cache = {"warm"} BY <4>1, <5>1
        <5>3. warm'[e] # 1 /\ warm'[e] # 2 BY <3>1, <4>4
        <5> QED BY <5>2, <5>3 DEF Cached
      <4> QED BY <3>1, <3>5, <4>2, <4>3, <4>4
    <3> QED BY <3>1, <3>3, <3>4, <3>5, WarmUpMoves
  <2> QED BY <2>3, <2>4
<1>3. CASE Script /\ \A f \in Engines : ~WarmUp(f)
  <2>1. UNCHANGED <<engine, warm>> /\ hist'.touched = hist.touched BY <1>3, ScriptKeeps
  <2>2. CASE step \in {"warm-up"} \cup Ahead BY <1>1, <2>1, <2>2
  <2>3. CASE step \notin {"warm-up"} \cup Ahead
    <3>1. \E f \in Engines : EngineBefore(f) BY <1>3, <2>3, Goes DEF Script
    <3>2. step = "engines before" BY <3>1, Goes
    <3>3. warm[e] = 0 BY <3>2 DEF Order
    <3> QED BY <2>1, <3>3 DEF Cached
  <2> QED BY <2>2, <2>3
<1>4. ASSUME NEW r \in Requests, Send(r) \/ (\E f \in Engines : Serve(r, f)) \/ RequestFails(r) PROVE Cached(e)'
  <2>1. CASE Send(r) BY <2>1 DEF Send
  <2>2. CASE (\E f \in Engines : Serve(r, f)) \/ RequestFails(r)
    <3>1. step' = step /\ pos[r] = "sent" BY <2>2 DEF Serve, RequestFails
    <3>2. step \in {"sending", "refused"} BY <3>1, SentWhile
    <3> QED BY <3>1, <3>2
  <2> QED BY <1>4, <2>1, <2>2
<1>5. CASE Flush \/ WriterFails \/ Reconfigured
  <2>1. UNCHANGED <<engine, warm, step>> BY <1>5 DEF Flush, WriterFails, Reconfigured, cell
  <2>2. hist'.touched = hist.touched BY <1>5 DEF Flush, WriterFails, Reconfigured, Types, History
  <2> QED BY <1>1, <2>1, <2>2
<1>6. CASE Stalls BY <1>6 DEF Stalls
<1>7. CASE SchedulerRestarts
  <2>1. UNCHANGED <<warm, step>> BY <1>7 DEF SchedulerRestarts
  <2>2. hist'.touched = hist.touched BY <1>7 DEF SchedulerRestarts, Types, History
  <2>3. engine'[e].cache = engine[e].cache BY <1>7, NewServerMoves
  <2> QED BY <1>1, <2>1, <2>2, <2>3
<1>8. CASE \E f \in Engines : ForeignArrives(f) \/ ForeignEnds(f) \/ EngineRestarts(f)
  <2>1. PICK f \in Engines : ForeignArrives(f) \/ ForeignEnds(f) \/ EngineRestarts(f) BY <1>8
  <2>2. UNCHANGED <<warm, step, ev>> /\ Touch(f)
    BY <2>1 DEF ForeignArrives, ForeignEnds, EngineRestarts, cell
  <2>3. ev.before[e] # Unread /\ ev.after[e] = Unread BY <2>2 DEF Order
  <2>4. f # e /\ e \notin hist.touched BY <2>2, <2>3, TouchIs
  <2>5. engine'[e] = engine[e] BY <2>1, <2>4, ArrivalMoves, EndMoves, RestartMoves
  <2> QED BY <1>1, <2>2, <2>4, <2>5
<1> QED BY <1>2, <1>3, <1>4, <1>5, <1>6, <1>7, <1>8 DEF Next, Serving, World

-----------------------------------------------------------------------------
(* The lines of the decision log *)

\* A request that has ended stays as it ended.
EndsStay ==
  \A r \in Requests :
    /\ pos[r] = "replied" => pos'[r] = "replied" /\ at'[r] = at[r]
    /\ pos[r] = "failed" => pos'[r] = "failed"

\* TrueLine of the state after the step, for a line of either state.
TrueAfter(x) ==
  x.req \in Requests =>
    /\ pos'[x.req] \in {"replied", "failed"}
    /\ pos'[x.req] = "replied" => x.on = at'[x.req]

LEMMA TrueStays ==
  ASSUME EndsStay, NEW x, TrueLine(x)
  PROVE  TrueAfter(x)
BY DEF EndsStay, TrueLine, TrueAfter

LEMMA TrueLines ==
  ASSUME \A k \in 1 .. Len(file') : TrueAfter(file'[k]),
         \A k \in 1 .. Len(sched'.buffer) : TrueAfter(sched'.buffer[k])
  PROVE  LinesTrue'
BY DEF LinesTrue, TrueLine, TrueAfter

\* The log stays as it is.
LEMMA LogStays ==
  ASSUME EndsStay, LinesTrue, file' = file, sched'.buffer = sched.buffer, sched'.proc = sched.proc
  PROVE  LinesTrue' /\ \A s : Served(s) => Served(s)'
<1>1. LinesTrue' BY TrueStays, TrueLines DEF LinesTrue
<1>2. ASSUME NEW s, Served(s) PROVE Served(s)' BY <1>2 DEF Served, EndsStay
<1> QED BY <1>1, <1>2

\* The buffer leaves the scheduler, to the file if its process writes there.
LEMMA LogMoves ==
  ASSUME Types, EndsStay, LinesTrue, sched'.buffer = <<>>,
         file' = file \/ (sched.proc = 1 /\ file' = file \o sched.buffer)
  PROVE  /\ LinesTrue' /\ \A s : Served(s) => Served(s)'
         /\ SliceOfFile /\ ev' = ev => SliceOfFile'
<1>1. file \in Seq(Lines) /\ sched.buffer \in Seq(Lines) BY DEF Types, SchedulerStates
<1>2. Len(<<>>) = 0 OBVIOUS
<1>3. CASE file' = file
  <2>1. LinesTrue' BY <1>2, <1>3, TrueStays, TrueLines DEF LinesTrue
  <2>2. ASSUME NEW s, Served(s) PROVE Served(s)' BY <1>2, <1>3, <2>2 DEF Served, EndsStay
  <2> QED BY <1>3, <2>1, <2>2 DEF SliceOfFile
<1>4. CASE sched.proc = 1 /\ file' = file \o sched.buffer
  <2> DEFINE n == Len(file)
             m == Len(sched.buffer)
  <2>1. /\ n \in Nat /\ m \in Nat /\ Len(file') = n + m
        /\ \A k \in 1 .. n : file'[k] = file[k]
        /\ \A k \in n + 1 .. n + m : file'[k] = sched.buffer[k - n]
    <3>1. /\ n \in Nat /\ m \in Nat BY <1>1, LenProperties
    <3>2. Len(file') = n + m /\ \A k \in 1 .. n + m : file'[k] = IF k <= n THEN file[k] ELSE sched.buffer[k - n]
      BY <1>1, <1>4, ConcatProperties
    <3> HIDE DEF n, m
    <3> QED BY <3>1, <3>2
  <2>2. \A k \in 1 .. Len(file') :
          \/ k \in 1 .. n /\ file'[k] = file[k]
          \/ k - n \in 1 .. m /\ file'[k] = sched.buffer[k - n]
    <3> HIDE DEF n, m
    <3> QED BY <2>1
  <2>3. ASSUME NEW k \in 1 .. Len(file') PROVE TrueAfter(file'[k])
    <3>1. TrueLine(file'[k]) BY <2>2, <2>3 DEF LinesTrue
    <3> QED BY <3>1, TrueStays
  <2>4. LinesTrue' BY <1>2, <2>3, TrueLines
  <2>5. ASSUME NEW s, Served(s) PROVE Served(s)'
    <3>1. PICK r \in Requests :
            /\ pos[r] = "replied"
            /\ \A k \in 1 .. n : file[k].req = r => s[1] = 1 /\ file[k].conf = s[2]
            /\ \A k \in 1 .. m : sched.buffer[k].req = r => s[1] = sched.proc /\ sched.buffer[k].conf = s[2]
      BY <2>5 DEF Served
    <3>2. \A k \in 1 .. Len(file') : file'[k].req = r => s[1] = 1 /\ file'[k].conf = s[2]
      <4> HIDE DEF n, m
      <4> QED BY <1>4, <2>2, <3>1
    <3>3. pos'[r] = "replied" BY <3>1 DEF EndsStay
    <3> QED BY <1>2, <3>2, <3>3 DEF Served
  <2>6. ASSUME SliceOfFile, ev' = ev PROVE SliceOfFile'
    <3>1. \A j \in 1 .. n : j \in 1 .. Len(file') /\ file'[j] = file[j]
      <4> HIDE DEF n, m
      <4> QED BY <2>1
    <3> QED BY <2>6, <3>1 DEF SliceOfFile
  <2> QED BY <2>4, <2>5, <2>6
<1> QED BY <1>3, <1>4

\* One more line in the buffer, of a request that had not ended or of none of the cell's.
LEMMA LogGrows ==
  ASSUME Types, EndsStay, LinesTrue, NEW x \in Lines, TrueAfter(x),
         x.req \in Requests => pos[x.req] = "sent",
         file' = file, sched'.buffer = Append(sched.buffer, x), sched'.proc = sched.proc
  PROVE  LinesTrue' /\ \A s : Served(s) => Served(s)'
<1> DEFINE b == sched.buffer
           m == Len(b)
<1>1. b \in Seq(Lines) BY DEF Types, SchedulerStates
<1>2. m \in Nat /\ Len(Append(b, x)) = m + 1 /\ Append(b, x)[m + 1] = x /\ \A k \in 1 .. m : Append(b, x)[k] = b[k]
  BY <1>1, LenProperties, AppendProperties
<1>3. \A k \in 1 .. Len(sched'.buffer) : (k \in 1 .. m /\ sched'.buffer[k] = b[k]) \/ sched'.buffer[k] = x
  <2>1. sched'.buffer = Append(b, x) OBVIOUS
  <2> HIDE DEF b, m
  <2> QED BY <1>2, <2>1
<1>4. \A k \in 1 .. Len(file') : TrueAfter(file'[k]) BY TrueStays DEF LinesTrue
<1>5. \A k \in 1 .. m : TrueAfter(b[k]) BY TrueStays DEF LinesTrue
<1>6. \A k \in 1 .. Len(sched'.buffer) : TrueAfter(sched'.buffer[k])
  <2> HIDE DEF b, m
  <2> QED BY <1>3, <1>5
<1>7. LinesTrue' BY <1>4, <1>6, TrueLines
<1>8. ASSUME NEW s, Served(s) PROVE Served(s)'
  <2>1. PICK r \in Requests :
          /\ pos[r] = "replied"
          /\ \A k \in 1 .. Len(file) : file[k].req = r => s[1] = 1 /\ file[k].conf = s[2]
          /\ \A k \in 1 .. m : b[k].req = r => s[1] = sched.proc /\ b[k].conf = s[2]
    BY <1>8 DEF Served
  <2>2. x.req # r BY <2>1
  <2>3. \A k \in 1 .. Len(sched'.buffer) :
          sched'.buffer[k].req = r => s[1] = sched'.proc /\ sched'.buffer[k].conf = s[2]
    <3>1. sched'.proc = sched.proc OBVIOUS
    <3> HIDE DEF b, m
    <3> QED BY <1>3, <2>1, <2>2, <3>1
  <2>4. pos'[r] = "replied" BY <2>1 DEF EndsStay
  <2> QED BY <2>1, <2>3, <2>4 DEF Served
<1> QED BY <1>7, <1>8

LEMMA ScriptLined == ASSUME Types, Lined, Order, Script PROVE Lined'
<1>1. UNCHANGED <<file, pos, at>> BY ScriptKeeps
<1>2. sched \in SchedulerStates /\ hist \in History BY DEF Types
<1>3. /\ sched'.buffer = sched.buffer /\ sched'.proc = sched.proc /\ sched'.failed = sched.failed
      /\ hist'.servers = hist.servers /\ hist'.failed = hist.failed
  <2>1. CASE PostConfig
    <3>1. (sched' = sched \/ sched' = [sched EXCEPT !.conf = "mine"]) /\ hist' = hist
      BY <2>1 DEF PostConfig
    <3> QED BY <1>2, <3>1 DEF SchedulerStates
  <2>2. CASE RunnerStarts
    <3>1. sched' = sched BY <2>2 DEF RunnerStarts, world
    <3>2. hist'.servers = hist.servers /\ hist'.failed = hist.failed BY <1>2, <2>2 DEF RunnerStarts, History
    <3> QED BY <3>1, <3>2
  <2> QED BY <2>1, <2>2, ScriptKeeps
<1>4. EndsStay BY <1>1 DEF EndsStay
<1>5. LinesTrue' /\ \A s : Served(s) => Served(s)' BY <1>1, <1>3, <1>4, LogStays DEF Lined
<1>6. ServersServed' BY <1>1, <1>3, <1>5 DEF Lined, ServersServed
<1>7. SliceOfFile'
  <2>1. CASE ev'.slice = ev.slice BY <1>1, <2>1 DEF Lined, SliceOfFile
  <2>2. CASE WindowCloses /\ ev'.slice # ev.slice
    <3> DEFINE lines == SubSeq(file, ev.start + 1, Len(file))
    <3>1. ev' = [ev EXCEPT !.slice = lines] /\ \A k \in DOMAIN lines : lines[k].conf = "mine"
      BY <2>2 DEF WindowCloses
    <3>2. ev'.slice = lines BY <3>1 DEF Types, Evidence
    <3>3. ev.start \in Nat /\ file \in Seq(Lines) /\ Len(file) \in Nat
      BY LenProperties DEF Types, Evidence
    <3>4. \A k \in ev.start + 1 .. Len(file) : file[k] \in Lines
      <4>1. \A k \in ev.start + 1 .. Len(file) : k \in 1 .. Len(file) BY <3>3
      <4> QED BY <3>3, <4>1, ElementOfSeq
    <3>5. /\ lines \in Seq(Lines)
          /\ Len(lines) = (IF ev.start + 1 <= Len(file) THEN Len(file) - (ev.start + 1) + 1 ELSE 0)
          /\ \A k \in 1 .. Len(file) - (ev.start + 1) + 1 : lines[k] = file[ev.start + 1 + k - 1]
      BY <3>3, <3>4, SubSeqProperties
    <3>6. DOMAIN lines = 1 .. Len(lines) BY <3>5, LenProperties
    <3> HIDE DEF lines
    <3>7. ASSUME NEW k \in 1 .. Len(lines)
          PROVE  lines[k].conf = "mine" /\ \E j \in 1 .. Len(file) : file[j] = lines[k]
      <4>1. k \in 1 .. Len(file) - (ev.start + 1) + 1 BY <3>3, <3>5, <3>7
      <4>2. lines[k] = file[ev.start + k]
        <5>1. ev.start + 1 + k - 1 = ev.start + k BY <3>3, <3>5, <4>1
        <5> QED BY <3>5, <4>1, <5>1
      <4>3. ev.start + k \in 1 .. Len(file) BY <3>3, <4>1
      <4> QED BY <3>1, <3>6, <3>7, <4>2, <4>3
    <3> QED BY <1>1, <3>2, <3>7 DEF SliceOfFile
  <2> QED BY <2>1, <2>2, EvidenceKeeps
<1>8. FailureSeen'
  <2>1. FailureSeen BY DEF Lined
  <2>2. CASE StatsAfter
    <3>1. ev'.failures = ev.failures \cup sched.failed BY <2>2 DEF StatsAfter, Types, Evidence
    <3>2. step = "settle" /\ step' = "slice" /\ ev'.manifest_after = ev.manifest_after
      BY <2>2, EvidenceKeeps, Goes
    <3> QED BY <1>3, <2>1, <3>1, <3>2 DEF FailureSeen
  <2>3. CASE StatsBefore
    <3>1. step = "stats" /\ step' = "manifest" /\ ev'.manifest_after = ev.manifest_after
      BY <2>3, EvidenceKeeps, Goes
    <3> QED BY <1>3, <2>1, <3>1 DEF FailureSeen
  <2>4. CASE ManifestAfter
    <3>1. step = "manifest after" /\ step' = "engines after" /\ ev'.failures = ev.failures
      BY <2>4, EvidenceKeeps, Goes
    <3> QED BY <1>3, <2>1, <3>1 DEF FailureSeen
  <2>5. CASE ~StatsAfter /\ ~StatsBefore /\ ~ManifestAfter
    <3>1. ev'.failures = ev.failures /\ ev'.manifest_after = ev.manifest_after BY <2>5, EvidenceKeeps
    <3>2. step' \in {"slice", "manifest after"} => step \in {"slice", "manifest after"}
      BY <2>5, Goes DEF Script
    <3>3. step \in {"engines after", "gates", "done"} => step' \in {"engines after", "gates", "done"}
      BY Goes DEF Script
    <3> QED BY <1>3, <2>1, <3>1, <3>2, <3>3 DEF FailureSeen
  <2> QED BY <2>2, <2>3, <2>4, <2>5
<1> QED BY <1>5, <1>6, <1>7, <1>8 DEF Lined

\* A step that leaves the evidence, the servers and the known failures alone keeps the log as LogStays, LogMoves or
\* LogGrows say.
LEMMA LinedByLog ==
  ASSUME Types, Lined, EndsStay, LinesTrue', \A s : Served(s) => Served(s)',
         hist'.servers = hist.servers, \A r \in Requests : pos'[r] = "replied" => pos[r] = "replied",
         SliceOfFile', FailureSeen'
  PROVE  Lined'
BY DEF Lined, ServersServed

LEMMA OtherLined == ASSUME Types, Types', Lined, Order, Serving \/ World PROVE Lined'
<1>0. /\ sched \in SchedulerStates /\ hist \in History /\ ev \in Evidence /\ file \in Seq(Lines)
      /\ sched.buffer \in Seq(Lines) /\ sched.conf \in Configs
  BY DEF Types, SchedulerStates
<1>1. LinesTrue /\ ServersServed /\ SliceOfFile /\ FailureSeen BY DEF Lined
<1>2. None \notin Requests BY CellAssumption
<1>3. ASSUME NEW r \in Requests, Send(r) PROVE Lined'
  <2>1. UNCHANGED <<file, at, step, ev, hist>> /\ pos[r] = "unsent" /\ pos' = [pos EXCEPT ![r] = "sent"]
        /\ sched' = [sched EXCEPT !.active = @ + 1]
    BY <1>3 DEF Send
  <2>2. pos'[r] = "sent" /\ \A q \in Requests : q # r => pos'[q] = pos[q] BY <2>1 DEF Types
  <2>3. sched'.buffer = sched.buffer /\ sched'.proc = sched.proc /\ sched'.failed = sched.failed
    BY <1>0, <2>1 DEF SchedulerStates
  <2>4. EndsStay BY <2>1, <2>2 DEF EndsStay
  <2>5. LinesTrue' /\ \A s : Served(s) => Served(s)' BY <1>1, <2>1, <2>3, <2>4, LogStays
  <2>6. SliceOfFile' /\ FailureSeen' BY <1>1, <2>1, <2>3 DEF SliceOfFile, FailureSeen
  <2>7. \A q \in Requests : pos'[q] = "replied" => pos[q] = "replied" BY <2>2
  <2> QED BY <2>1, <2>4, <2>5, <2>6, <2>7, LinedByLog
<1>4. ASSUME NEW r \in Requests, NEW e \in Engines, Serve(r, e) PROVE Lined'
  <2>1. UNCHANGED <<file, step, ev>> /\ pos[r] = "sent" /\ pos' = [pos EXCEPT ![r] = "replied"]
        /\ at' = [at EXCEPT ![r] = e]
    BY <1>4 DEF Serve
  <2>2. pos'[r] = "replied" /\ \A q \in Requests : q # r => pos'[q] = pos[q] BY <2>1 DEF Types
  <2>3. at'[r] = e /\ \A q \in Requests : q # r => at'[q] = at[q] BY <2>1 DEF Types
  <2>4. Line(r, e) \in Lines BY <1>0, LineTypes
  <2>5. /\ sched'.buffer = Append(sched.buffer, Line(r, e)) /\ sched'.proc = sched.proc
        /\ sched'.failed = sched.failed
    <3> DEFINE x == Line(r, e)
    <3>1. sched' = [sched EXCEPT !.active = @ - 1, !.buffer = Append(@, x)] BY <1>4 DEF Serve
    <3> HIDE DEF x
    <3> QED BY <1>0, <3>1 DEF SchedulerStates, x
  <2>6. hist'.servers = hist.servers \cup {<<sched.proc, sched.conf>>} /\ hist'.failed = hist.failed
    BY <1>0, <1>4 DEF Serve, History
  <2>7. Line(r, e).req = r /\ Line(r, e).on = e /\ Line(r, e).conf = sched.conf BY DEF Line
  <2>8. EndsStay BY <2>1, <2>2, <2>3 DEF EndsStay
  <2>9. TrueAfter(Line(r, e)) BY <2>2, <2>3, <2>7 DEF TrueAfter
  <2>10. LinesTrue' /\ \A s : Served(s) => Served(s)'
    <3> DEFINE x == Line(r, e)
    <3>1. x \in Lines /\ TrueAfter(x) /\ x.req = r /\ sched'.buffer = Append(sched.buffer, x)
      BY <2>4, <2>5, <2>7, <2>9
    <3> HIDE DEF x
    <3> QED BY <1>1, <2>1, <2>5, <2>8, <3>1, LogGrows
  <2>11. SliceOfFile' BY <1>1, <2>1 DEF SliceOfFile
  <2>12. FailureSeen' BY <1>1, <2>1, <2>5, <2>6 DEF FailureSeen
  <2>13. ASSUME NEW s, s = <<sched.proc, sched.conf>> PROVE Served(s)'
    <3> DEFINE b == sched.buffer
               c == sched'.buffer
    <3>1. \A k \in 1 .. Len(file') : file'[k].req # r BY <1>1, <2>1 DEF LinesTrue, TrueLine
    <3>2. \A k \in 1 .. Len(b) : b[k].req # r BY <1>1, <2>1 DEF LinesTrue, TrueLine
    <3>3. \A k \in 1 .. Len(c) : c[k].req = r => s[1] = sched'.proc /\ c[k].conf = s[2]
      <4>1. Len(c) = Len(b) + 1 /\ c[Len(b) + 1] = Line(r, e) /\ \A k \in 1 .. Len(b) : c[k] = b[k]
        BY <1>0, <2>4, <2>5, AppendProperties
      <4>2. s[1] = sched'.proc /\ Line(r, e).conf = s[2] BY <2>5, <2>7, <2>13
      <4>3. Len(b) \in Nat BY <1>0, LenProperties
      <4> HIDE DEF b, c
      <4>4. \A k \in 1 .. Len(c) : k \in 1 .. Len(b) \/ k = Len(b) + 1 BY <4>1, <4>3
      <4> QED BY <3>2, <4>1, <4>2, <4>4
    <3> QED BY <2>2, <3>1, <3>3 DEF Served
  <2>14. ServersServed'
    <3>1. \A s \in hist'.servers : s \in hist.servers \/ s = <<sched.proc, sched.conf>> BY <2>6
    <3>2. hist'.servers # {} BY <2>6
    <3>3. \A s \in hist.servers : Served(s)' BY <1>1, <2>10 DEF ServersServed
    <3> QED BY <2>13, <3>1, <3>2, <3>3 DEF ServersServed
  <2> QED BY <2>10, <2>11, <2>12, <2>14 DEF Lined
<1>5. CASE Flush
  <2>1. UNCHANGED <<pos, at, step, ev, hist>> BY <1>5 DEF Flush, cell
  <2>2. sched' = [sched EXCEPT !.logged = @ + Len(sched.buffer), !.buffer = <<>>]
        /\ file' = IF sched.proc = 1 THEN file \o sched.buffer ELSE file
    BY <1>5 DEF Flush
  <2>3. sched'.buffer = <<>> /\ sched'.failed = sched.failed BY <1>0, <2>2 DEF SchedulerStates
  <2>4. EndsStay BY <2>1 DEF EndsStay
  <2>5. LinesTrue' /\ (\A s : Served(s) => Served(s)') /\ SliceOfFile'
    BY <1>1, <2>1, <2>2, <2>3, <2>4, LogMoves
  <2>6. FailureSeen' BY <1>1, <2>1, <2>3 DEF FailureSeen
  <2> QED BY <2>1, <2>4, <2>5, <2>6, LinedByLog
<1>6. CASE SchedulerRestarts
  <2>1. UNCHANGED <<at, step, ev>>
        /\ pos' = [r \in Requests |-> IF pos[r] = "sent" THEN "failed" ELSE pos[r]]
        /\ file' \in {file, IF sched.proc = 1 THEN file \o sched.buffer ELSE file}
        /\ hist' = [hist EXCEPT !.failed = FALSE]
    BY <1>6 DEF SchedulerRestarts
  <2>2. sched'.buffer = <<>> BY <1>6 DEF SchedulerRestarts
  <2>3. hist'.failed = FALSE /\ hist'.servers = hist.servers BY <1>0, <2>1 DEF History
  <2>4. EndsStay BY <2>1 DEF EndsStay
  <2>5. LinesTrue' /\ (\A s : Served(s) => Served(s)') /\ SliceOfFile'
    BY <1>1, <2>1, <2>2, <2>4, LogMoves
  <2>6. FailureSeen' BY <1>1, <2>1, <2>3 DEF FailureSeen
  <2>7. \A q \in Requests : pos'[q] = "replied" => pos[q] = "replied" BY <2>1
  <2> QED BY <2>3, <2>4, <2>5, <2>6, <2>7, LinedByLog
<1>7. CASE WriterFails \/ Reconfigured \/ Stalls
  <2>1. UNCHANGED <<file, pos, at, ev>>
    BY <1>7 DEF WriterFails, Reconfigured, Stalls, world, cell
  <2>2. EndsStay BY <2>1 DEF EndsStay
  <2>3. sched'.buffer = sched.buffer /\ sched'.proc = sched.proc /\ hist'.servers = hist.servers
    BY <1>0, <1>7 DEF WriterFails, Reconfigured, Stalls, world, SchedulerStates, History
  <2>4. LinesTrue' /\ \A s : Served(s) => Served(s)' BY <1>1, <2>1, <2>2, <2>3, LogStays
  <2>5. SliceOfFile' BY <1>1, <2>1 DEF SliceOfFile
  <2>6. CASE WriterFails
    <3>1. step' = step /\ step \notin {"refused", "done"} BY <2>6 DEF WriterFails, Fault, Over
    <3>2. hist'.failed = (step \notin {"slice", "manifest after", "engines after", "gates"})
      BY <1>0, <2>6 DEF WriterFails, History
    <3>3. sched'.failed # {} BY <1>0, <2>6 DEF WriterFails, SchedulerStates
    <3> QED BY <1>1, <2>1, <2>2, <2>3, <2>4, <2>5, <3>1, <3>2, <3>3, LinedByLog DEF FailureSeen
  <2>7. CASE Reconfigured
    <3>1. step' = step /\ hist' = hist BY <2>7 DEF Reconfigured
    <3>2. sched'.failed = sched.failed BY <1>0, <2>7 DEF Reconfigured, SchedulerStates
    <3> QED BY <1>1, <2>1, <2>2, <2>3, <2>4, <2>5, <3>1, <3>2, LinedByLog DEF FailureSeen
  <2>8. CASE Stalls
    <3>1. hist' = hist /\ sched' = sched BY <2>8 DEF Stalls, world
    <3>2. step \notin {"refused", "done", "gates"}
          /\ step' \notin {"slice", "manifest after"}
          /\ (step = "engines after" => step' = "gates")
      BY <2>8 DEF Stalls, Fault, Over
    <3> QED BY <1>1, <2>1, <2>2, <2>3, <2>4, <2>5, <3>1, <3>2, LinedByLog DEF FailureSeen
  <2> QED BY <1>7, <2>6, <2>7, <2>8
<1>8. ASSUME NEW e \in Engines, ForeignArrives(e) \/ ForeignEnds(e) \/ EngineRestarts(e) PROVE Lined'
  <2>1. UNCHANGED <<file, pos, at, step, ev>> /\ Touch(e)
    BY <1>8 DEF ForeignArrives, ForeignEnds, EngineRestarts, cell
  <2>2. hist'.servers = hist.servers /\ hist'.failed = hist.failed BY <1>0, <2>1, TouchIs DEF History
  <2>3. EndsStay BY <2>1 DEF EndsStay
  <2>4. Line(None, e) \in Lines /\ Line(None, e).req = None BY <1>0, LineTypes DEF Line
  <2>5. /\ sched'.proc = sched.proc /\ sched'.failed = sched.failed
        /\ sched'.buffer = sched.buffer \/ sched'.buffer = Append(sched.buffer, Line(None, e))
    <3>1. CASE ForeignArrives(e)
      <4>1. sched' = sched \/ sched' = [sched EXCEPT !.active = @ + 1] BY <3>1, ArrivalMoves
      <4> QED BY <1>0, <4>1 DEF SchedulerStates
    <3>2. CASE ForeignEnds(e) \/ EngineRestarts(e)
      <4> DEFINE x == Line(None, e)
      <4>1. sched' = sched \/ sched' = [sched EXCEPT !.active = @ - 1, !.buffer = Append(@, x)]
        BY <3>2 DEF ForeignEnds, EngineRestarts, SchedulerSeesEnd
      <4> HIDE DEF x
      <4> QED BY <1>0, <4>1 DEF SchedulerStates, x
    <3> QED BY <1>8, <3>1, <3>2
  <2>6. LinesTrue' /\ \A s : Served(s) => Served(s)'
    <3>1. CASE sched'.buffer = sched.buffer BY <1>1, <2>1, <2>3, <2>5, <3>1, LogStays
    <3>2. CASE sched'.buffer = Append(sched.buffer, Line(None, e))
      <4> DEFINE x == Line(None, e)
      <4>1. x \in Lines /\ x.req = None /\ sched'.buffer = Append(sched.buffer, x) BY <2>4, <3>2
      <4> HIDE DEF x
      <4>2. TrueAfter(x) BY <1>2, <4>1 DEF TrueAfter
      <4> QED BY <1>1, <1>2, <2>1, <2>3, <2>5, <4>1, <4>2, LogGrows
    <3> QED BY <2>5, <3>1, <3>2
  <2>7. SliceOfFile' /\ FailureSeen' BY <1>1, <2>1, <2>2, <2>5 DEF SliceOfFile, FailureSeen
  <2> QED BY <2>1, <2>2, <2>3, <2>6, <2>7, LinedByLog
<1>9. ASSUME NEW r \in Requests, RequestFails(r) PROVE Lined'
  <2>1. UNCHANGED <<file, at, step, ev, hist>> /\ pos[r] = "sent" /\ pos' = [pos EXCEPT ![r] = "failed"]
    BY <1>9 DEF RequestFails
  <2>2. pos'[r] = "failed" /\ \A q \in Requests : q # r => pos'[q] = pos[q] BY <2>1 DEF Types
  <2>3. Line(r, None) \in Lines /\ Line(r, None).req = r BY <1>0, LineTypes DEF Line
  <2>4. EndsStay BY <2>1, <2>2 DEF EndsStay
  <2> DEFINE x == Line(r, None)
  <2>5. sched' = [sched EXCEPT !.active = @ - 1, !.buffer = Append(@, x)] BY <1>9 DEF RequestFails
  <2>6. x \in Lines /\ x.req = r BY <2>3
  <2> HIDE DEF x
  <2>7. sched'.buffer = Append(sched.buffer, x) /\ sched'.proc = sched.proc /\ sched'.failed = sched.failed
    BY <1>0, <2>5 DEF SchedulerStates
  <2>8. TrueAfter(x) BY <2>2, <2>6 DEF TrueAfter
  <2>9. LinesTrue' /\ \A s : Served(s) => Served(s)' BY <1>1, <2>1, <2>4, <2>6, <2>7, <2>8, LogGrows
  <2>10. SliceOfFile' /\ FailureSeen' BY <1>1, <2>1, <2>7 DEF SliceOfFile, FailureSeen
  <2>11. \A q \in Requests : pos'[q] = "replied" => pos[q] = "replied" BY <2>2
  <2> QED BY <2>1, <2>4, <2>9, <2>10, <2>11, LinedByLog
<1> QED BY <1>3, <1>4, <1>5, <1>6, <1>7, <1>8, <1>9 DEF Serving, World

-----------------------------------------------------------------------------
(* The verdict *)

\* The gates let nothing through that a disturbed engine would leave.
LEMMA GatesSeeTouch ==
  ASSUME Types, Order, step = "gates", \A e \in Engines : Counting(e), SameProcesses, TrafficOK
  PROVE  hist.touched = {}
<1> SUFFICES ASSUME NEW e \in hist.touched PROVE FALSE OBVIOUS
<1>1. e \in Engines BY DEF Types, History
<1>2. ev.before[e] # Unread /\ warm[e] = Warmups + 2 BY <1>1 DEF Order, Closing
<1>3. ev.after[e] # Unread /\ ev.after[e].start = ev.before[e].start BY <1>1 DEF SameProcesses
<1>4. ev.after[e].tokens - ev.before[e].tokens = 2 * (Cardinality(AtOf(e)) + Warmups + 1)
  BY <1>1 DEF TrafficOK, AtOf
<1>5. Now(e) = ev.after[e] BY <1>3 DEF Now
<1>6. ev.after[e].tokens > ev.before[e].tokens + 2 * Own(e) BY <1>1, <1>2, <1>3, <1>5 DEF Counting
<1>7. Own(e) = Cardinality(AtOf(e)) + Warmups + 1 /\ Cardinality(AtOf(e)) \in Nat
  <2>1. ~(warm[e] = 0) /\ ~(warm[e] <= 2) /\ Warmups \in Nat BY <1>2, CellAssumption
  <2>2. Own(e) = Cardinality(AtOf(e)) + (warm[e] - 1) BY <1>1, <2>1, OwnTypes
  <2> QED BY <1>1, <1>2, <2>1, <2>2, OwnTypes
<1>8. ev.after[e].tokens \in Nat /\ ev.before[e].tokens \in Nat
  <2>1. ev.before[e] \in Readings /\ Now(e) \in Readings BY <1>1, NowTypes
  <2> QED BY <1>5, <2>1 DEF Readings
<1> QED BY <1>4, <1>6, <1>7, <1>8, CellAssumption

\* One line for each request, and each line of a request: as many lines as requests.
LEMMA OneLineEach ==
  ASSUME Types, ArmOK
  PROVE  /\ Len(ev.slice) \in Nat /\ DOMAIN ev.slice = 1 .. Len(ev.slice)
         /\ \A k \in 1 .. Len(ev.slice) : ev.slice[k] \in Lines /\ ev.slice[k].req \in Requests
         /\ \A r \in Requests : \E k \in 1 .. Len(ev.slice) : ev.slice[k].req = r
         /\ Len(ev.slice) = Cardinality(Requests)
<1> DEFINE s == ev.slice
           n == Len(s)
<1>1. s \in Seq(Lines) BY DEF Types, Evidence
<1>2. n \in Nat /\ DOMAIN s = 1 .. n BY <1>1, LenProperties
<1>3. /\ \A k \in 1 .. n : s[k] \in Lines /\ s[k].req \in Requests
      /\ \A r \in Requests : Cardinality({k \in 1 .. n : s[k].req = r}) = 1
  BY <1>1, <1>2, ElementOfSeq DEF ArmOK
<1> HIDE DEF n, s
<1>4. ASSUME NEW r \in Requests PROVE \E x : {k \in 1 .. n : s[k].req = r} = {x}
  <2>1. IsFiniteSet(1 .. n) BY <1>2, FS_Interval
  <2>2. IsFiniteSet({k \in 1 .. n : s[k].req = r}) BY <2>1, FS_Subset
  <2> QED BY <1>3, <2>2, FS_Singleton
<1>5. \A r \in Requests : \E k \in 1 .. n : s[k].req = r BY <1>4
<1>6. \A j, k \in 1 .. n : s[j].req = s[k].req => j = k
  <2> SUFFICES ASSUME NEW j \in 1 .. n, NEW k \in 1 .. n, s[j].req = s[k].req PROVE j = k OBVIOUS
  <2>1. s[k].req \in Requests BY <1>3
  <2>2. PICK x : {i \in 1 .. n : s[i].req = s[k].req} = {x} BY <1>4, <2>1
  <2>3. j \in {i \in 1 .. n : s[i].req = s[k].req} /\ k \in {i \in 1 .. n : s[i].req = s[k].req} OBVIOUS
  <2> QED BY <2>2, <2>3
<1>7. n = Cardinality(Requests)
  <2> DEFINE f == [k \in 1 .. n |-> s[k].req]
  <2>1. f \in [1 .. n -> Requests] BY <1>3
  <2>2. \A k \in 1 .. n : f[k] = s[k].req OBVIOUS
  <2> HIDE DEF f
  <2>3. \A j, k \in 1 .. n : f[j] = f[k] => j = k BY <1>6, <2>2
  <2>4. \A r \in Requests : \E k \in 1 .. n : f[k] = r BY <1>5, <2>2
  <2>5. f \in Bijection(1 .. n, Requests) BY <2>1, <2>3, <2>4, Fun_IsBij
  <2>6. ExistsBijection(1 .. n, Requests) BY <2>5 DEF ExistsBijection
  <2>7. IsFiniteSet(1 .. n) /\ Cardinality(1 .. n) = n BY <1>2, FS_Interval
  <2>8. Cardinality(Requests) = Cardinality(1 .. n) BY <2>6, <2>7, FS_Bijection
  <2> QED BY <2>7, <2>8
<1> QED BY <1>2, <1>3, <1>5, <1>7 DEF n, s

LEMMA GatesSeeSystem ==
  ASSUME Types, Lined, RecordOK, SchedulerOK, ArmOK
  PROVE  /\ Cardinality(hist.servers) = 1 /\ \A s \in hist.servers : s[2] = "mine"
         /\ ~hist.failed
         /\ Len(ev.slice) = Cardinality(Requests)
         /\ \A r \in Requests : \E k \in DOMAIN ev.slice : ev.slice[k] = [req |-> r, on |-> at[r], conf |-> "mine"]
<1>1. /\ DOMAIN ev.slice = 1 .. Len(ev.slice)
      /\ \A k \in 1 .. Len(ev.slice) : ev.slice[k] \in Lines
      /\ \A r \in Requests : \E k \in 1 .. Len(ev.slice) : ev.slice[k].req = r
      /\ Len(ev.slice) = Cardinality(Requests)
  BY OneLineEach
<1>2. \A r \in Requests : pos[r] = "replied" BY DEF RecordOK
<1>3. LinesTrue /\ ServersServed /\ SliceOfFile /\ FailureSeen BY DEF Lined
<1>4. ~hist.failed BY <1>3 DEF SchedulerOK, FailureSeen
<1>5. ASSUME NEW r \in Requests
      PROVE  \E k \in 1 .. Len(ev.slice) : ev.slice[k] = [req |-> r, on |-> at[r], conf |-> "mine"]
  <2>1. PICK k \in 1 .. Len(ev.slice) : ev.slice[k].req = r BY <1>1
  <2>2. PICK j \in 1 .. Len(file) : file[j] = ev.slice[k] BY <1>3 DEF SliceOfFile
  <2>3. ev.slice[k].conf = "mine" /\ TrueLine(file[j]) BY <1>3 DEF SliceOfFile, LinesTrue
  <2>4. ev.slice[k].on = at[r] BY <1>2, <2>1, <2>2, <2>3 DEF TrueLine
  <2>5. ev.slice[k] \in Lines BY <1>1
  <2>6. ev.slice[k] = [req |-> r, on |-> at[r], conf |-> "mine"] BY <2>1, <2>3, <2>4, <2>5 DEF Lines
  <2> QED BY <2>6
<1>6. ASSUME NEW s \in hist.servers PROVE s = <<1, "mine">>
  <2>1. PICK r \in Requests :
          /\ pos[r] = "replied"
          /\ \A k \in 1 .. Len(file) : file[k].req = r => s[1] = 1 /\ file[k].conf = s[2]
    BY <1>3 DEF ServersServed, Served
  <2>2. PICK k \in 1 .. Len(ev.slice) : ev.slice[k].req = r BY <1>1
  <2>3. PICK j \in 1 .. Len(file) : file[j] = ev.slice[k] BY <1>3 DEF SliceOfFile
  <2>4. ev.slice[k].conf = "mine" BY <1>3 DEF SliceOfFile
  <2>5. s[1] = 1 /\ s[2] = "mine" BY <2>1, <2>2, <2>3, <2>4
  <2>6. s \in (Nat \ {0}) \X Configs BY DEF Types, History
  <2> QED BY <2>5, <2>6
<1>7. hist.servers # {} BY <1>2, <1>3, CellAssumption DEF ServersServed
<1>8. hist.servers = {<<1, "mine">>} BY <1>6, <1>7
<1>9. Cardinality(hist.servers) = 1 BY <1>8, FS_Singleton
<1> QED BY <1>1, <1>4, <1>5, <1>6, <1>9

LEMMA NextJudged ==
  ASSUME Types, Types', Next, Order, Lined, Judged, \A e \in Engines : Counting(e) /\ Cached(e)
  PROVE  Judged'
<1>0. /\ hist \in History /\ ev \in Evidence /\ hist.touched \subseteq Engines /\ hist.dirty \subseteq Engines
      /\ ev.valid \in BOOLEAN
  BY DEF Types, History, Evidence
<1>1. CASE step = "done"
  <2>1. Flush
    <3>1. ~Script BY <1>1, Goes DEF Script
    <3>2. \A r \in Requests : pos[r] # "sent" BY <1>1, SentWhile DEF Closing
    <3>3. ~Serving BY <1>1, <3>2 DEF Serving, Send, Serve
    <3>4. Over BY <1>1 DEF Over
    <3>5. ~WriterFails /\ ~SchedulerRestarts /\ ~Reconfigured /\ ~Stalls
      BY <3>4 DEF WriterFails, SchedulerRestarts, Reconfigured, Stalls, Fault
    <3>6. \A e \in Engines : ~ForeignArrives(e) /\ ~ForeignEnds(e) /\ ~EngineRestarts(e)
      BY <3>4 DEF ForeignArrives, ForeignEnds, EngineRestarts, Fault
    <3>7. \A r \in Requests : ~RequestFails(r) BY <3>2 DEF RequestFails
    <3> QED BY <3>1, <3>3, <3>5, <3>6, <3>7 DEF Next, World
  <2>2. UNCHANGED <<at, step, ev, hist>> BY <2>1 DEF Flush, cell
  <2> QED BY <2>2 DEF Judged, ValidIsIsolated, ValidIsOneSystem
<1>2. CASE step # "done"
  <2>1. ev.valid = FALSE BY <1>0, <1>2 DEF Judged
  <2>2. hist'.dirty \subseteq hist'.touched
    <3>1. CASE RunnerStarts
      <4>1. step = "identity" BY <3>1, Goes
      <4>2. hist'.dirty = {e \in Engines : ~(engine[e].cache \subseteq {"warm"})} /\ hist'.touched = hist.touched
        BY <1>0, <3>1 DEF RunnerStarts, History
      <4>3. ASSUME NEW e \in Engines, e \notin hist.touched PROVE engine[e].cache \subseteq {"warm"}
        <5>1. warm[e] = Warmups + 2 BY <4>1 DEF Order, Ahead
        <5>2. warm[e] >= 3 BY <5>1, CellAssumption
        <5> QED BY <4>1, <4>3, <5>2 DEF Cached, Ahead
      <4> QED BY <4>2, <4>3
    <3>2. CASE Script /\ ~RunnerStarts BY <3>2, ScriptKeeps DEF Judged
    <3>3. CASE Serving
      <4>1. hist' = hist \/ hist' = [hist EXCEPT !.servers = @ \cup {<<sched.proc, sched.conf>>}]
        BY <3>3 DEF Serving, Send, Serve
      <4>2. hist'.dirty = hist.dirty /\ hist'.touched = hist.touched BY <1>0, <4>1 DEF History
      <4> QED BY <4>2 DEF Judged
    <3>4. CASE \E e \in Engines : ForeignArrives(e) \/ ForeignEnds(e) \/ EngineRestarts(e)
      <4>1. PICK e \in Engines : Touch(e) BY <3>4 DEF ForeignArrives, ForeignEnds, EngineRestarts
      <4>2. hist' = [hist EXCEPT !.touched = hist'.touched] /\ hist.touched \subseteq hist'.touched BY <4>1, TouchIs
      <4>3. hist'.dirty = hist.dirty BY <1>0, <4>2 DEF History
      <4> QED BY <4>2, <4>3 DEF Judged
    <3>5. CASE Flush \/ WriterFails \/ SchedulerRestarts \/ Reconfigured \/ Stalls
               \/ \E r \in Requests : RequestFails(r)
      <4>1. hist'.dirty = hist.dirty /\ hist'.touched = hist.touched
        BY <1>0, <3>5 DEF Flush, WriterFails, SchedulerRestarts, Reconfigured, Stalls, RequestFails, History
      <4> QED BY <4>1 DEF Judged
    <3> QED BY <3>1, <3>2, <3>3, <3>4, <3>5 DEF Next, World
  <2>3. CASE ev'.valid = FALSE BY <2>2, <2>3 DEF Judged, ValidIsIsolated, ValidIsOneSystem
  <2>4. CASE Verdict
    <3>1. UNCHANGED <<at, hist>> /\ step = "gates" /\ step' = "done" BY <2>4 DEF Verdict, cell
    <3>2. ev'.slice = ev.slice
      <4>1. ~WindowCloses BY <3>1, Goes
      <4> QED BY <2>4, <4>1, EvidenceKeeps DEF Script
    <3>3. ASSUME ev'.valid PROVE RecordOK /\ SameProcesses /\ TrafficOK /\ SchedulerOK /\ ArmOK
      <4> DEFINE x == RecordOK /\ SameProcesses /\ IsolationOK /\ ArmOK /\ ZeroCallOK
      <4>1. ev' = [ev EXCEPT !.valid = x] BY <2>4 DEF Verdict
      <4> HIDE DEF x
      <4>2. ev'.valid = x BY <1>0, <4>1 DEF Evidence
      <4> QED BY <3>3, <4>2 DEF x, IsolationOK
    <3>4. ASSUME ev'.valid PROVE hist'.touched = {} /\ hist'.dirty = {}
      <4>1. hist.touched = {} BY <3>1, <3>3, <3>4, GatesSeeTouch
      <4> QED BY <2>2, <3>1, <4>1
    <3>5. ASSUME ev'.valid PROVE ValidIsOneSystem'
      <4>1. /\ Cardinality(hist.servers) = 1 /\ \A s \in hist.servers : s[2] = "mine"
            /\ ~hist.failed
            /\ Len(ev.slice) = Cardinality(Requests)
            /\ \A r \in Requests : \E k \in DOMAIN ev.slice : ev.slice[k] = [req |-> r, on |-> at[r], conf |-> "mine"]
        BY <3>3, <3>5, GatesSeeSystem
      <4> QED BY <3>1, <3>2, <4>1 DEF ValidIsOneSystem
    <3>6. ValidIsIsolated' BY <3>4 DEF ValidIsIsolated
    <3>7. ValidIsOneSystem' BY <3>5 DEF ValidIsOneSystem
    <3> QED BY <2>2, <3>1, <3>6, <3>7 DEF Judged
  <2>5. CASE ~Verdict
    <3>1. CASE Script BY <2>1, <2>3, <2>5, <3>1, EvidenceKeeps
    <3>2. CASE Serving \/ World
      <4>1. ev' = ev
        <5>1. CASE Serving BY <5>1 DEF Serving, Send, Serve
        <5>2. CASE Flush \/ WriterFails \/ SchedulerRestarts \/ Reconfigured \/ Stalls
          BY <5>2 DEF Flush, WriterFails, SchedulerRestarts, Reconfigured, Stalls
        <5>3. CASE \E e \in Engines : ForeignArrives(e) \/ ForeignEnds(e) \/ EngineRestarts(e)
          BY <5>3 DEF ForeignArrives, ForeignEnds, EngineRestarts
        <5>4. CASE \E r \in Requests : RequestFails(r) BY <5>4 DEF RequestFails
        <5> QED BY <3>2, <5>1, <5>2, <5>3, <5>4 DEF World
      <4> QED BY <2>1, <2>3, <4>1
    <3> QED BY <3>1, <3>2 DEF Next
  <2> QED BY <2>4, <2>5
<1> QED BY <1>1, <1>2

-----------------------------------------------------------------------------
(* A cell that nothing disturbs *)

LEMMA LogTypes ==
  ASSUME Types
  PROVE  /\ file \in Seq(Lines) /\ sched.buffer \in Seq(Lines) /\ Log \in Seq(Lines)
         /\ Len(file) \in Nat /\ Len(sched.buffer) \in Nat
         /\ Len(Log) = Len(file) + Len(sched.buffer)
         /\ sched.buffer = <<>> => Log = file
         /\ Len(sched.buffer) = 0 => sched.buffer = <<>>
<1>1. file \in Seq(Lines) /\ sched.buffer \in Seq(Lines) BY DEF Types, SchedulerStates
<1>2. Len(file) \in Nat /\ Len(sched.buffer) \in Nat BY <1>1, LenProperties
<1>3. Log \in Seq(Lines) /\ Len(Log) = Len(file) + Len(sched.buffer) BY <1>1, ConcatProperties DEF Log
<1>4. sched.buffer = <<>> => Log = file BY <1>1, ConcatEmptySeq DEF Log
<1>5. Len(sched.buffer) = 0 => sched.buffer = <<>> BY <1>1, EmptySeq
<1> QED BY <1>1, <1>2, <1>3, <1>4, <1>5

\* Before the runner sends, nothing is logged.
LEMMA EmptyLog ==
  ASSUME Types, CalmLog, \A r \in Requests : pos[r] = "unsent"
  PROVE  Len(file) = 0 /\ sched.buffer = <<>> /\ sched.logged = 0 /\ Len(sched.buffer) = 0
<1>1. \A k \in 1 .. Len(Log) : FALSE BY DEF CalmLog
<1>2. Len(file) \in Nat /\ Len(sched.buffer) \in Nat /\ Len(Log) = Len(file) + Len(sched.buffer) BY LogTypes
<1>3. Len(Log) = 0 BY <1>1, <1>2
<1>4. Len(file) = 0 /\ Len(sched.buffer) = 0
  <2>1. ASSUME NEW m \in Nat, NEW n \in Nat, m + n = 0 PROVE m = 0 /\ n = 0 BY <2>1
  <2>2. Len(file) + Len(sched.buffer) = 0 BY <1>2, <1>3
  <2> QED BY <1>2, <2>1, <2>2, Zenon
<1> QED BY <1>4, LogTypes DEF CalmLog

\* Then nothing is in service either.
LEMMA NobodyServed ==
  ASSUME Types, InService, CalmWorld, \A r \in Requests : pos[r] # "sent"
  PROVE  sched.active = 0
<1>1. Sent = {} /\ Scheduled = {} BY DEF Sent, Scheduled, CalmWorld
<1> QED BY <1>1, FS_EmptySet DEF InService

\* An undisturbed engine served what the warm-up and the record say.
LEMMA GatesSeeCalm ==
  ASSUME Types, Order, Calm, step = "gates", \A e \in Engines : Counting(e) /\ Found(e)
  PROVE  RecordOK /\ SameProcesses /\ IsolationOK /\ ArmOK /\ ZeroCallOK
<1>1. CalmWorld /\ CalmLog /\ CalmScript BY DEF Calm
<1>2. ev.manifest_after = "mine" /\ ev.identity_end = "mine" /\ ev.slice = file /\ sched.buffer = <<>>
      /\ ev.logged_after = Len(file) /\ ev.logged = 0 /\ ev.failures = {}
  BY <1>1 DEF CalmScript, Closing
<1>3. RecordOK
  <2>1. \A r \in Requests : pos[r] \in {"replied", "failed"} BY DEF Order, Closing
  <2> QED BY <1>1, <1>2, <2>1 DEF CalmLog, RecordOK
<1>4. ASSUME NEW e \in Engines
      PROVE  /\ ev.after[e] # Unread /\ ev.after[e].start = ev.before[e].start
             /\ ev.after[e].finished - ev.before[e].finished = Cardinality(AtOf(e)) + Warmups + 1
             /\ ev.after[e].tokens - ev.before[e].tokens = 2 * (Cardinality(AtOf(e)) + Warmups + 1)
             /\ ev.found[e] = <<FALSE, TRUE>>
  <2>1. ev.before[e] # Unread /\ warm[e] = Warmups + 2 BY DEF Order, Closing
  <2>2. ev.after[e] # Unread /\ e \notin hist.touched BY <1>1 DEF CalmScript, CalmWorld
  <2>3. Now(e) = ev.after[e] BY <2>2 DEF Now
  <2>4. ev.after[e].start = ev.before[e].start /\ ev.after[e].finished = ev.before[e].finished + Own(e)
        /\ ev.after[e].tokens = ev.before[e].tokens + 2 * Own(e)
    BY <2>1, <2>2, <2>3 DEF Counting
  <2>5. ~(warm[e] = 0) /\ ~(warm[e] <= 2) /\ warm[e] # 3 /\ Warmups \in Nat BY <2>1, CellAssumption
  <2>6. Own(e) = Cardinality(AtOf(e)) + Warmups + 1 /\ Cardinality(AtOf(e)) \in Nat
    <3>1. Own(e) = Cardinality(AtOf(e)) + (warm[e] - 1) BY <2>5, OwnTypes
    <3> QED BY <2>1, <2>5, <3>1, OwnTypes
  <2>7. ev.before[e].finished \in Nat /\ ev.before[e].tokens \in Nat BY NowTypes
  <2>8. ev.found[e] = <<FALSE, TRUE>> BY <2>5, Zenon DEF Found
  <2> QED BY <2>2, <2>4, <2>5, <2>6, <2>7, <2>8
<1>5. SameProcesses BY <1>4 DEF SameProcesses
<1>6. TrafficOK BY <1>4 DEF TrafficOK, AtOf
<1>7. ResetProven BY <1>4, Zenon DEF ResetProven
<1>8. SchedulerOK BY <1>2 DEF SchedulerOK
<1>9. ArmOK
  <2>1. Log = file /\ file \in Seq(Lines) /\ Len(file) \in Nat /\ DOMAIN file = 1 .. Len(file)
    BY <1>2, LogTypes, LenProperties
  <2>2. ASSUME NEW r \in Requests PROVE Cardinality({k \in DOMAIN file : file[k].req = r}) = 1
    <3>1. PICK k \in 1 .. Len(file) : file[k].req = r BY <1>1, <1>3, <2>1 DEF CalmLog, RecordOK
    <3>2. \A j \in 1 .. Len(file) : file[j].req = r => j = k BY <1>1, <2>1, <3>1 DEF CalmLog
    <3>3. {j \in DOMAIN file : file[j].req = r} = {k} BY <2>1, <3>1, <3>2
    <3> QED BY <3>3, FS_Singleton
  <2>3. \A k \in DOMAIN file : file[k].req \in Requests BY <1>1, <2>1 DEF CalmLog
  <2> QED BY <1>2, <2>1, <2>2, <2>3 DEF ArmOK
<1> QED BY <1>2, <1>3, <1>5, <1>6, <1>7, <1>8, <1>9 DEF IsolationOK, ZeroCallOK

\* The parts that stay when nothing moves in them.
LEMMA CalmWorldStays ==
  ASSUME CalmWorld, UNCHANGED <<engine, hist>>, sched'.proc = sched.proc, sched'.failed = sched.failed
  PROVE  CalmWorld'
BY DEF CalmWorld

LEMMA CalmLogStays ==
  ASSUME CalmLog, UNCHANGED <<file, pos>>, sched'.buffer = sched.buffer, sched'.logged = sched.logged
  PROVE  CalmLog'
<1>1. Log' = Log BY DEF Log
<1> QED BY <1>1 DEF CalmLog

LEMMA ScriptCalm ==
  ASSUME Types, Types', InService, Order, Calm, Script, faults = 0, faults' = 0,
         \A e \in Engines : Counting(e) /\ Cached(e) /\ Found(e)
  PROVE  Calm'
<1> USE DEF Opening, Ahead, Closing
<1>0. CalmWorld /\ CalmLog /\ CalmScript BY DEF Calm
<1>1. UNCHANGED <<file, pos, at>> /\ hist'.touched = hist.touched BY ScriptKeeps
<1>2. /\ sched'.proc = sched.proc /\ sched'.failed = sched.failed /\ sched'.buffer = sched.buffer
      /\ sched'.logged = sched.logged
      /\ sched'.conf = sched.conf \/ sched'.conf = "mine"
  <2>1. sched' = sched \/ sched' = [sched EXCEPT !.conf = "mine"]
    <3>1. CASE PostConfig BY <3>1 DEF PostConfig
    <3> QED BY <3>1, ScriptKeeps
  <2> QED BY <2>1 DEF Types, SchedulerStates
<1>3. CalmLog' BY <1>0, <1>1, <1>2, CalmLogStays
<1>4. CalmWorld'
  <2>1. \A e \in Engines : engine'[e].foreign = engine[e].foreign /\ engine'[e].start = engine[e].start
                           /\ engine'[e].deployed = engine[e].deployed
    <3>1. CASE \E e \in Engines : WarmUp(e)
      <4>1. PICK e \in Engines : WarmUp(e) BY <3>1
      <4>2. engine[e] \in EngineStates /\ \A f \in Engines : f # e => engine'[f] = engine[f]
        BY <4>1, WarmUpMoves DEF Types
      <4>3. \/ engine'[e] = [engine[e] EXCEPT !.cache = {}]
            \/ engine' = engine
            \/ engine'[e] = [engine[e] EXCEPT !.finished = @ + 1, !.tokens = @ + 2, !.cache = @ \cup {"warm"}]
        BY <4>1, WarmUpMoves
      <4>4. engine'[e].foreign = engine[e].foreign /\ engine'[e].start = engine[e].start
            /\ engine'[e].deployed = engine[e].deployed
        BY <4>2, <4>3 DEF EngineStates
      <4> QED BY <4>2, <4>4
    <3>2. CASE \A e \in Engines : ~WarmUp(e) BY <3>2, ScriptKeeps
    <3> QED BY <3>1, <3>2
  <2> QED BY <1>0, <1>1, <1>2, <2>1 DEF CalmWorld
<1>5. CalmScript'
  <2>1. step \in Opening \cup {"engines before", "warm-up"} \cup Ahead => \A r \in Requests : pos[r] = "unsent"
    BY DEF Order
  <2>2. step \in Opening \cup {"engines before", "warm-up"} \cup Ahead =>
          Len(file) = 0 /\ sched.buffer = <<>> /\ sched.logged = 0 /\ Len(sched.buffer) = 0 /\ sched.active = 0
    BY <1>0, <2>1, EmptyLog, NobodyServed
  <2>3. AllIdle BY <1>0 DEF AllIdle, Idle, CalmWorld
  <2>4. CASE DrainScheduler \/ DrainEngines \/ Fresh
    <3>1. ev' = ev /\ sched' = sched BY <2>4 DEF DrainScheduler, DrainEngines, Fresh, world
    <3>2. step = "fresh" => step' = "post"
      BY <2>2, <2>4, Goes DEF Fresh, Check
    <3>3. \/ step = "drain scheduler" /\ step' = "drain engines"
          \/ step = "drain engines" /\ step' = "fresh"
          \/ step = "fresh" /\ step' = "post"
      BY <2>4, <3>2, Goes
    <3> QED BY <1>0, <3>1, <3>3 DEF CalmScript
  <2>5. CASE PostConfig
    <3>1. step = "post" /\ sched.active = 0 /\ ev' = ev BY <2>2, <2>5, Goes DEF PostConfig
    <3>2. step' = "preflight" /\ sched' = [sched EXCEPT !.conf = "mine"] BY <2>5, <3>1 DEF PostConfig, Check
    <3>3. sched'.conf = "mine" BY <3>2 DEF Types, SchedulerStates
    <3> QED BY <1>0, <3>1, <3>2, <3>3 DEF CalmScript
  <2>6. CASE Preflight
    <3>1. step = "preflight" /\ ev' = ev /\ sched' = sched BY <2>6, Goes DEF Preflight, world
    <3>2. sched.conf = "mine" BY <1>0, <3>1 DEF CalmScript
    <3>3. step' = "engines before" BY <2>2, <2>3, <2>6, <3>1, <3>2 DEF Preflight, Check
    <3> QED BY <1>0, <3>1, <3>2, <3>3 DEF CalmScript
  <2>7. ASSUME NEW e \in Engines, EngineBefore(e) PROVE CalmScript'
    <3>1. step = "engines before" /\ sched' = sched BY <2>7, Goes DEF EngineBefore, world
    <3>2. engine[e].start = engine[e].deployed BY <1>0 DEF CalmWorld
    <3>3. step' \in {"engines before", "warm-up"} BY <2>7, <3>1, <3>2, ScriptKeeps
    <3>4. ~StatsBefore /\ ~StatsAfter /\ ~WindowOpens BY <3>1, Goes
    <3>5. ev'.failures = ev.failures /\ ev'.logged = ev.logged /\ ev'.start = ev.start BY <3>4, EvidenceKeeps
    <3> QED BY <1>0, <3>1, <3>3, <3>5 DEF CalmScript
  <2>8. ASSUME NEW e \in Engines, WarmUp(e) PROVE CalmScript'
    <3>1. step = "warm-up" /\ sched' = sched BY <2>8, Goes DEF WarmUp
    <3>2. ~StatsBefore /\ ~StatsAfter /\ ~WindowOpens BY <3>1, Goes
    <3>3. ev'.failures = ev.failures /\ ev'.logged = ev.logged /\ ev'.start = ev.start BY <3>2, EvidenceKeeps
    <3>4. e \notin hist.touched BY <1>0 DEF CalmWorld
    <3>5. warm[e] = 2 => ~("warm" \in engine[e].cache)
      <4>1. warm[e] = 2 => engine[e].cache = {} \/ faults > 0 BY <3>1, <3>4 DEF Cached
      <4> QED BY <4>1
    <3>6. warm[e] = 3 => "warm" \in engine[e].cache
      <4>1. warm[e] >= 3 => engine[e].cache = {"warm"} BY <3>1, <3>4 DEF Cached
      <4> QED BY <4>1
    <3>7. step' = "warm-up"
      <4> DEFINE hit == "warm" \in engine[e].cache
      <4>1. step' = IF warm[e] \in 2 .. 3 /\ (hit <=> warm[e] = 2) THEN "refused" ELSE step BY <2>8, WarmUpFinds
      <4>2. ~(warm[e] \in 2 .. 3 /\ (hit <=> warm[e] = 2))
        <5>1. (warm[e] = 2 => ~hit) /\ (warm[e] = 3 => hit) BY <3>5, <3>6
        <5>2. warm[e] \in 2 .. 3 => warm[e] = 2 \/ warm[e] = 3 OBVIOUS
        <5>3. warm[e] = 3 => warm[e] # 2 OBVIOUS
        <5> HIDE DEF hit
        <5> QED BY <5>1, <5>2, <5>3, Zenon
      <4> HIDE DEF hit
      <4> QED BY <3>1, <4>1, <4>2
    <3> QED BY <1>0, <3>1, <3>3, <3>7 DEF CalmScript
  <2>9. CASE WarmUpEnds \/ StatsBefore \/ ManifestBefore
    <3>1. sched' = sched /\ sched.conf = "mine"
      <4>1. step \in {"warm-up", "stats", "manifest"} BY <2>9, Goes
      <4> QED BY <1>0, <2>9, <4>1 DEF CalmScript, WarmUpEnds, StatsBefore, ManifestBefore, world
    <3>2. CASE WarmUpEnds
      <4>1. ev' = ev /\ step' = "stats" BY <3>2, Goes DEF WarmUpEnds
      <4> QED BY <1>0, <3>1, <4>1 DEF CalmScript
    <3>3. CASE StatsBefore
      <4>1. step = "stats" /\ step' = "manifest" BY <3>3, Goes
      <4>2. ev' = [ev EXCEPT !.logged = sched.logged, !.failures = sched.failed] BY <3>3 DEF StatsBefore
      <4>3. ev'.logged = 0 /\ ev'.failures = {} BY <1>0, <2>2, <4>1, <4>2 DEF Types, Evidence, CalmWorld
      <4>4. ~WindowOpens BY <4>1, Goes
      <4>5. ev'.start = ev.start BY <4>4, EvidenceKeeps
      <4> QED BY <1>0, <3>1, <4>1, <4>3, <4>5 DEF CalmScript
    <3>4. CASE ManifestBefore
      <4>1. ev' = ev /\ step' = "window" BY <3>1, <3>4 DEF ManifestBefore, Check
      <4> QED BY <1>0, <3>1, <4>1 DEF CalmScript
    <3> QED BY <2>9, <3>2, <3>3, <3>4
  <2>10. CASE WindowOpens \/ RunnerStarts \/ RunnerEnds
    <3>1. step \in {"window", "identity", "sending"} BY <2>10, Goes
    <3>2. sched' = sched /\ sched.conf = "mine" /\ ev.logged = 0
      BY <1>0, <2>10, <3>1 DEF CalmScript, WindowOpens, RunnerStarts, RunnerEnds, world
    <3>3. CASE WindowOpens
      <4>1. step = "window" BY <3>3, Goes
      <4>2. step' = "identity" /\ ev' = [ev EXCEPT !.start = Len(file)]
        BY <2>2, <3>2, <3>3, <4>1 DEF WindowOpens, Check
      <4>3. ev'.start = 0 BY <2>2, <4>1, <4>2 DEF Types, Evidence
      <4>4. ~StatsBefore /\ ~StatsAfter BY <4>1, Goes
      <4>5. ev'.logged = ev.logged /\ ev'.failures = ev.failures BY <4>4, EvidenceKeeps
      <4> QED BY <1>0, <3>2, <4>2, <4>3, <4>5 DEF CalmScript
    <3>4. CASE RunnerStarts
      <4>1. step' = "sending" /\ ev' = ev BY <3>2, <3>4 DEF RunnerStarts, Check
      <4> QED BY <1>0, <3>2, <4>1 DEF CalmScript
    <3>5. CASE RunnerEnds
      <4>1. step = "sending" /\ step' = "settle" BY <3>5, Goes
      <4>2. ev' = [ev EXCEPT !.identity_end = sched.conf] BY <3>5 DEF RunnerEnds
      <4>3. ev'.identity_end = "mine" BY <3>2, <4>2 DEF Types, Evidence
      <4>4. ~StatsBefore /\ ~StatsAfter /\ ~WindowOpens BY <4>1, Goes
      <4>5. ev'.logged = ev.logged /\ ev'.failures = ev.failures /\ ev'.start = ev.start BY <4>4, EvidenceKeeps
      <4> QED BY <1>0, <3>2, <4>1, <4>3, <4>5 DEF CalmScript
    <3> QED BY <2>10, <3>3, <3>4, <3>5
  <2>11. CASE StatsAfter \/ StatsAfterTimesOut
    <3>1. step = "settle" /\ sched' = sched BY <2>11, Goes DEF StatsAfter, StatsAfterTimesOut, world
    <3>2. sched.conf = "mine" /\ ev.logged = 0 /\ ev.start = 0 /\ ev.identity_end = "mine" /\ ev.failures = {}
      BY <1>0, <3>1 DEF CalmScript
    <3>3. sched.logged = Len(file) BY <1>0 DEF CalmLog
    <3>4. WindowAgrees BY <3>2, <3>3 DEF WindowAgrees
    <3>5. StatsAfter BY <2>11, <3>4 DEF StatsAfterTimesOut
    <3>6. step' = "slice" /\ sched.buffer = <<>>
          /\ ev' = [ev EXCEPT !.logged_after = sched.logged, !.failures = ev.failures \cup sched.failed]
      BY <3>5 DEF StatsAfter, Settled
    <3>7. ev'.logged_after = sched.logged /\ ev'.failures = {} BY <1>0, <3>2, <3>6 DEF Types, Evidence, CalmWorld
    <3>8. ~StatsBefore /\ ~WindowOpens /\ ~RunnerEnds BY <3>1, Goes
    <3>9. ev'.logged = ev.logged /\ ev'.start = ev.start /\ ev'.identity_end = ev.identity_end
      BY <3>8, EvidenceKeeps
    <3> QED BY <1>1, <3>1, <3>2, <3>3, <3>6, <3>7, <3>9 DEF CalmScript
  <2>12. CASE WindowCloses
    <3>1. step = "slice" /\ sched' = sched BY <2>12, Goes DEF WindowCloses, world
    <3>2. sched.conf = "mine" /\ ev.logged = 0 /\ ev.start = 0 /\ ev.identity_end = "mine" /\ ev.failures = {}
          /\ sched.buffer = <<>> /\ ev.logged_after = Len(file)
      BY <1>0, <3>1 DEF CalmScript
    <3>3. file \in Seq(Lines) /\ Len(file) \in Nat /\ DOMAIN file = 1 .. Len(file) /\ Log = file
      BY <3>2, LogTypes, LenProperties
    <3>4. SubSeq(file, ev.start + 1, Len(file)) = file
      <4>1. SubSeq(file, 1, Len(file)) = file BY <3>3, SubSeqFull
      <4>2. ev.start + 1 = 1 BY <3>2
      <4> QED BY <4>1, <4>2
    <3>5. \A k \in DOMAIN file : file[k].conf = "mine" BY <1>0, <3>3 DEF CalmLog
    <3>6. Len(file) = ev.logged_after - ev.logged BY <3>2, <3>3
    <3>7. ev' = [ev EXCEPT !.slice = file] /\ step' = "manifest after"
      BY <2>12, <3>4, <3>5, <3>6 DEF WindowCloses
    <3>8. ev'.slice = file BY <3>7 DEF Types, Evidence
    <3>9. ~StatsBefore /\ ~StatsAfter /\ ~WindowOpens /\ ~RunnerEnds BY <3>1, Goes
    <3>10. ev'.logged = ev.logged /\ ev'.start = ev.start /\ ev'.identity_end = ev.identity_end
           /\ ev'.failures = ev.failures /\ ev'.logged_after = ev.logged_after
      BY <3>9, EvidenceKeeps
    <3> QED BY <1>1, <3>1, <3>2, <3>7, <3>8, <3>10 DEF CalmScript
  <2>13. CASE ManifestAfter
    <3>1. step = "manifest after" /\ step' = "engines after" /\ sched' = sched BY <2>13, Goes DEF ManifestAfter, world
    <3>2. sched.conf = "mine" BY <1>0, <3>1 DEF CalmScript
    <3>3. ev'.manifest_after = "mine" BY <2>13, <3>2 DEF ManifestAfter, Types, Evidence
    <3>4. ~StatsBefore /\ ~StatsAfter /\ ~WindowOpens /\ ~RunnerEnds /\ ~WindowCloses BY <3>1, Goes
    <3>5. ev'.logged = ev.logged /\ ev'.start = ev.start /\ ev'.identity_end = ev.identity_end
          /\ ev'.failures = ev.failures /\ ev'.logged_after = ev.logged_after /\ ev'.slice = ev.slice
      BY <3>4, EvidenceKeeps
    <3> QED BY <1>0, <1>1, <3>1, <3>2, <3>3, <3>5 DEF CalmScript
  <2>14. ASSUME NEW e \in Engines, EngineAfter(e) PROVE CalmScript'
    <3>1. step = "engines after" /\ step' \in {"engines after", "gates"} /\ sched' = sched
      BY <2>14, Goes DEF EngineAfter, world
    <3>2. engine[e].start = engine[e].deployed BY <1>0 DEF CalmWorld
    <3>3. /\ step' = IF \A f \in Engines \ {e} : ev.after[f] # Unread THEN "gates" ELSE step
          /\ ev'.after = [ev.after EXCEPT ![e] = Reading(e)]
      BY <2>14, <3>2, ScriptKeeps
    <3>4. ev'.after[e] # Unread /\ \A f \in Engines : f # e => ev'.after[f] = ev.after[f]
      <4>1. Reading(e) # Unread BY ReadingTypes
      <4>2. ev.after \in [Engines -> Readings] BY DEF Types, Evidence
      <4> QED BY <3>3, <4>1, <4>2
    <3>5. step' = "gates" => \A f \in Engines : ev'.after[f] # Unread BY <3>1, <3>3, <3>4
    <3>6. ~StatsBefore /\ ~StatsAfter /\ ~WindowOpens /\ ~RunnerEnds /\ ~WindowCloses /\ ~ManifestAfter
      BY <3>1, Goes
    <3>7. ev'.logged = ev.logged /\ ev'.start = ev.start /\ ev'.identity_end = ev.identity_end
          /\ ev'.failures = ev.failures /\ ev'.logged_after = ev.logged_after /\ ev'.slice = ev.slice
          /\ ev'.manifest_after = ev.manifest_after
      BY <3>6, EvidenceKeeps
    <3> QED BY <1>0, <1>1, <3>1, <3>5, <3>7 DEF CalmScript
  <2>15. CASE Verdict
    <3>1. step = "gates" /\ step' = "done" /\ sched' = sched BY <2>15, Goes DEF Verdict, world
    <3>2. RecordOK /\ SameProcesses /\ IsolationOK /\ ArmOK /\ ZeroCallOK BY <3>1, GatesSeeCalm
    <3>3. ev'.valid
      <4> DEFINE x == RecordOK /\ SameProcesses /\ IsolationOK /\ ArmOK /\ ZeroCallOK
      <4>1. ev' = [ev EXCEPT !.valid = x] BY <2>15 DEF Verdict
      <4>2. x BY <3>2
      <4> HIDE DEF x
      <4>3. ev'.valid = x BY <4>1 DEF Types, Evidence
      <4> QED BY <4>2, <4>3
    <3>4. ~StatsBefore /\ ~StatsAfter /\ ~WindowOpens /\ ~RunnerEnds /\ ~WindowCloses /\ ~ManifestAfter
          /\ \A e \in Engines : ~EngineAfter(e)
      BY <3>1, Goes
    <3>5. ev'.logged = ev.logged /\ ev'.start = ev.start /\ ev'.identity_end = ev.identity_end
          /\ ev'.failures = ev.failures /\ ev'.logged_after = ev.logged_after /\ ev'.slice = ev.slice
          /\ ev'.manifest_after = ev.manifest_after /\ ev'.after = ev.after
      BY <3>4, EvidenceKeeps
    <3> QED BY <1>0, <1>1, <3>1, <3>3, <3>5 DEF CalmScript
  <2> QED BY <2>4, <2>5, <2>6, <2>7, <2>8, <2>9, <2>10, <2>11, <2>12, <2>13, <2>14, <2>15 DEF Script
<1> QED BY <1>3, <1>4, <1>5 DEF Calm

LEMMA OtherCalm ==
  ASSUME Types, Types', Order, Lined, Calm, Serving \/ World, faults = 0, faults' = 0
  PROVE  Calm'
<1> USE DEF Opening, Ahead, Closing
<1>0. CalmWorld /\ CalmLog /\ CalmScript BY DEF Calm
<1>1. ~Fault BY DEF Fault
<1>2. \A e \in Engines : ~ForeignEnds(e) BY <1>0 DEF ForeignEnds, Idle, CalmWorld
<1>3. Serving \/ Flush
  BY <1>1, <1>2 DEF World, WriterFails, SchedulerRestarts, Reconfigured, Stalls, ForeignArrives, EngineRestarts,
     RequestFails
<1>4. sched \in SchedulerStates BY DEF Types
<1>5. /\ file \in Seq(Lines) /\ sched.buffer \in Seq(Lines) /\ Log \in Seq(Lines)
      /\ Len(file) \in Nat /\ Len(sched.buffer) \in Nat
  BY LogTypes
<1>6. ASSUME NEW r \in Requests, Send(r) PROVE Calm'
  <2>1. UNCHANGED <<engine, file, step, ev, hist>> /\ step = "sending" /\ pos[r] = "unsent"
        /\ pos' = [pos EXCEPT ![r] = "sent"] /\ sched' = [sched EXCEPT !.active = @ + 1]
    BY <1>6 DEF Send
  <2>2. pos'[r] = "sent" /\ \A q \in Requests : q # r => pos'[q] = pos[q] BY <2>1 DEF Types
  <2>3. sched'.proc = sched.proc /\ sched'.failed = sched.failed /\ sched'.buffer = sched.buffer
        /\ sched'.logged = sched.logged /\ sched'.conf = sched.conf
    BY <1>4, <2>1 DEF SchedulerStates
  <2>4. CalmWorld' BY <1>0, <2>1, <2>3, CalmWorldStays
  <2>5. Log' = Log BY <2>1, <2>3 DEF Log
  <2>6. CalmLog'
    <3>1. \A q \in Requests : pos[q] = "replied" <=> pos'[q] = "replied" BY <2>1, <2>2
    <3>2. \A q \in Requests : pos'[q] # "failed" BY <1>0, <2>2 DEF CalmLog
    <3> QED BY <1>0, <2>1, <2>3, <2>5, <3>1, <3>2 DEF CalmLog
  <2>7. CalmScript' BY <1>0, <2>1, <2>3 DEF CalmScript
  <2> QED BY <2>4, <2>6, <2>7 DEF Calm
<1>7. ASSUME NEW r \in Requests, NEW e \in Engines, Serve(r, e) PROVE Calm'
  <2>1. UNCHANGED <<file, step, ev>> /\ pos[r] = "sent" /\ pos' = [pos EXCEPT ![r] = "replied"]
    BY <1>7 DEF Serve
  <2>2. step = "sending"
    <3>1. step \in {"sending", "refused"} BY <2>1, SentWhile
    <3> QED BY <1>0, <3>1 DEF CalmScript
  <2>3. pos'[r] = "replied" /\ \A q \in Requests : q # r => pos'[q] = pos[q] BY <2>1 DEF Types
  <2> DEFINE x == Line(r, e)
  <2>4. x \in Lines /\ x.req = r /\ x.conf = "mine"
    <3>1. sched.conf = "mine" BY <1>0, <2>2 DEF CalmScript
    <3>2. x \in Lines BY <1>4, LineTypes DEF SchedulerStates
    <3> QED BY <3>1, <3>2 DEF Line
  <2>5. sched' = [sched EXCEPT !.active = @ - 1, !.buffer = Append(@, x)] BY <1>7 DEF Serve
  <2> HIDE DEF x
  <2>6. sched'.proc = sched.proc /\ sched'.failed = sched.failed /\ sched'.buffer = Append(sched.buffer, x)
        /\ sched'.logged = sched.logged /\ sched'.conf = sched.conf
    BY <1>4, <2>5 DEF SchedulerStates
  <2>7. CalmWorld'
    <3>1. hist'.touched = hist.touched BY <1>7 DEF Serve, Types, History
    <3>2. \A f \in Engines : f # e => engine'[f] = engine[f] BY <1>7, ServeMoves
    <3>3. engine'[e] = [engine[e] EXCEPT !.finished = @ + 1, !.tokens = @ + 2, !.cache = @ \cup {"own"}]
      BY <1>7, ServeMoves
    <3>4. engine[e] \in EngineStates BY DEF Types
    <3>5. engine'[e].foreign = engine[e].foreign /\ engine'[e].start = engine[e].start
          /\ engine'[e].deployed = engine[e].deployed
      BY <3>3, <3>4 DEF EngineStates
    <3>6. \A f \in Engines : engine'[f].foreign = engine[f].foreign /\ engine'[f].start = engine[f].start
                             /\ engine'[f].deployed = engine[f].deployed
      BY <3>2, <3>5
    <3> QED BY <1>0, <2>6, <3>1, <3>6 DEF CalmWorld
  <2>8. CalmLog'
    <3> DEFINE L == Log
               M == Log'
    <3>1. M = Append(L, x)
      <4>1. M = file \o Append(sched.buffer, x) BY <2>1, <2>6 DEF Log
      <4>2. <<x>> \in Seq(Lines) BY <2>4
      <4>3. Append(sched.buffer, x) = sched.buffer \o <<x>> BY <1>5, <2>4, AppendIsConcat
      <4>4. file \o (sched.buffer \o <<x>>) = (file \o sched.buffer) \o <<x>>
        <5>1. \A s1, s2, s3 \in Seq(Lines) : (s1 \o s2) \o s3 = s1 \o (s2 \o s3) BY ConcatAssociative
        <5> QED BY <1>5, <4>2, <5>1, Zenon
      <4>5. Append(Log, x) = Log \o <<x>> BY <1>5, <2>4, AppendIsConcat
      <4> QED BY <4>1, <4>3, <4>4, <4>5 DEF Log
    <3>2. L \in Seq(Lines) BY <1>5
    <3>3. /\ sched.logged = Len(file)
          /\ \A q \in Requests : pos[q] # "failed"
          /\ \A k \in 1 .. Len(L) : L[k].req \in Requests /\ pos[L[k].req] = "replied" /\ L[k].conf = "mine"
          /\ \A j, k \in 1 .. Len(L) : L[j].req = L[k].req => j = k
          /\ \A q \in Requests : pos[q] = "replied" => \E k \in 1 .. Len(L) : L[k].req = q
      BY <1>0 DEF CalmLog
    <3> HIDE DEF L, M
    <3>4. Len(L) \in Nat /\ Len(M) = Len(L) + 1 /\ M[Len(L) + 1] = x /\ \A k \in 1 .. Len(L) : M[k] = L[k]
      BY <2>4, <3>1, <3>2, LenProperties, AppendProperties
    <3>5. \A k \in 1 .. Len(M) : (k \in 1 .. Len(L) /\ M[k] = L[k]) \/ (k = Len(L) + 1 /\ M[k] = x)
      BY <3>4
    <3>6. \A k \in 1 .. Len(M) : M[k].req \in Requests /\ pos'[M[k].req] = "replied" /\ M[k].conf = "mine"
      BY <2>3, <2>4, <3>3, <3>5
    <3>7. \A k \in 1 .. Len(L) : L[k].req # r BY <2>1, <3>3
    <3>8. \A j, k \in 1 .. Len(M) : M[j].req = M[k].req => j = k BY <2>4, <3>3, <3>5, <3>7
    <3>9. ASSUME NEW q \in Requests, pos'[q] = "replied" PROVE \E k \in 1 .. Len(M) : M[k].req = q
      <4>1. CASE q = r
        <5>1. Len(L) + 1 \in 1 .. Len(M) BY <3>4
        <5> QED BY <2>4, <3>4, <4>1, <5>1
      <4>2. CASE q # r
        <5>1. PICK k \in 1 .. Len(L) : L[k].req = q BY <2>3, <3>3, <3>9, <4>2
        <5>2. k \in 1 .. Len(M) BY <3>4
        <5> QED BY <3>4, <5>1, <5>2
      <4> QED BY <4>1, <4>2
    <3>10. \A q \in Requests : pos'[q] # "failed" BY <2>3, <3>3
    <3> QED BY <2>1, <2>6, <3>3, <3>6, <3>8, <3>9, <3>10 DEF CalmLog, M
  <2>9. CalmScript' BY <1>0, <2>1, <2>2, <2>6 DEF CalmScript
  <2> QED BY <2>7, <2>8, <2>9 DEF Calm
<1>8. CASE Flush
  <2>1. UNCHANGED <<engine, pos, at, step, ev, hist>> /\ sched.buffer # <<>> BY <1>8 DEF Flush, cell
  <2>2. sched.proc = 1 BY <1>0 DEF CalmWorld
  <2>3. file' = file \o sched.buffer BY <1>8, <2>2 DEF Flush
  <2>4. sched' = [sched EXCEPT !.logged = sched.logged + Len(sched.buffer), !.buffer = <<>>] BY <1>8 DEF Flush
  <2>5. sched'.proc = sched.proc /\ sched'.failed = sched.failed /\ sched'.buffer = <<>>
        /\ sched'.logged = sched.logged + Len(sched.buffer) /\ sched'.conf = sched.conf
    BY <1>4, <2>4 DEF SchedulerStates
  <2>6. CalmWorld' BY <1>0, <2>1, <2>5, CalmWorldStays
  <2>7. Log' = Log
    <3>1. Log' = file' \o <<>> BY <2>5 DEF Log
    <3>2. file' \in Seq(Lines) BY <1>5, <2>3 DEF Log
    <3> QED BY <2>3, <3>1, <3>2, ConcatEmptySeq DEF Log
  <2>8. sched'.logged = Len(file')
    <3>1. Len(file') = Len(file) + Len(sched.buffer) BY <1>5, <2>3, ConcatProperties
    <3>2. sched.logged = Len(file) BY <1>0 DEF CalmLog
    <3> QED BY <2>5, <3>1, <3>2
  <2>9. CalmLog' BY <1>0, <2>1, <2>7, <2>8 DEF CalmLog
  <2>10. step \notin Closing BY <1>0, <2>1 DEF CalmScript
  <2>11. CalmScript' BY <1>0, <2>1, <2>5, <2>10 DEF CalmScript
  <2> QED BY <2>6, <2>9, <2>11 DEF Calm
<1> QED BY <1>3, <1>6, <1>7, <1>8 DEF Serving

LEMMA CleanStays == ASSUME Types, Next PROVE hist'.clean = hist.clean
<1>0. hist \in History BY DEF Types
<1>1. CASE Script
  <2>1. CASE RunnerStarts BY <1>0, <2>1 DEF RunnerStarts, History
  <2> QED BY <1>1, <2>1, ScriptKeeps
<1>2. CASE Serving
  <2>1. hist' = hist \/ hist' = [hist EXCEPT !.servers = @ \cup {<<sched.proc, sched.conf>>}]
    BY <1>2 DEF Serving, Send, Serve
  <2> QED BY <1>0, <2>1 DEF History
<1>3. CASE Flush \/ WriterFails \/ SchedulerRestarts \/ Reconfigured \/ Stalls \/ \E r \in Requests : RequestFails(r)
  BY <1>0, <1>3 DEF Flush, WriterFails, SchedulerRestarts, Reconfigured, Stalls, RequestFails, History
<1>4. CASE \E e \in Engines : ForeignArrives(e) \/ ForeignEnds(e) \/ EngineRestarts(e)
  <2>1. PICK e \in Engines : Touch(e) BY <1>4 DEF ForeignArrives, ForeignEnds, EngineRestarts
  <2>2. hist' = [hist EXCEPT !.touched = hist'.touched] BY <2>1, TouchIs
  <2> QED BY <1>0, <2>2 DEF History
<1> QED BY <1>1, <1>2, <1>3, <1>4 DEF Next, World

-----------------------------------------------------------------------------
(* The invariant *)

LEMMA InitIInv == Init => IInv
<1> SUFFICES ASSUME Init PROVE IInv OBVIOUS
<1>1. Types BY InitTypes
<1>2. None \notin Engines /\ None \notin Requests BY CellAssumption
<1>3. /\ pos = [r \in Requests |-> "unsent"] /\ at = [r \in Requests |-> None] /\ warm = [e \in Engines |-> 0]
      /\ step = "drain scheduler" /\ ev.before = [e \in Engines |-> Unread] /\ ev.after = [e \in Engines |-> Unread]
      /\ ev.found = [e \in Engines |-> <<>>] /\ ev.logged = 0 /\ ev.start = 0 /\ ev.failures = {}
      /\ ev.slice = <<>> /\ ev.manifest_after = "unread" /\ ev.valid = FALSE
  BY DEF Init
<1>4. \A e \in Engines : engine[e].foreign = "none" /\ engine[e].start = engine[e].deployed
  <2>1. PICK c \in SUBSET {"warm", "foreign"} :
          engine = [e \in Engines |-> [start |-> 1, deployed |-> 1, finished |-> 0, tokens |-> 0, cache |-> c,
                                       foreign |-> "none"]]
    BY DEF Init
  <2> QED BY <2>1
<1>5. PICK p \in 1 .. 2, c \in Configs, n \in 0 .. 1, m \in 0 .. 1, w \in {{}, {"lag"}} :
       /\ sched = [proc |-> p, conf |-> c, logged |-> n, buffer |-> <<>>, active |-> 0, failed |-> w]
       /\ file = [k \in 1 .. (IF p = 1 THEN n ELSE m) |-> [req |-> None, on |-> None, conf |-> c]]
       /\ hist = [touched |-> {}, dirty |-> {}, servers |-> {}, failed |-> w # {}, clean |-> p = 1 /\ n = 0 /\ w = {}]
  BY DEF Init
<1>6. /\ sched.proc = p /\ sched.logged = n /\ sched.buffer = <<>> /\ sched.active = 0 /\ sched.failed = w
      /\ hist.touched = {} /\ hist.dirty = {} /\ hist.servers = {}
      /\ hist.failed <=> w # {}
      /\ hist.clean <=> p = 1 /\ n = 0 /\ w = {}
  <2>1. /\ sched.proc = p /\ sched.logged = n /\ sched.buffer = <<>> /\ sched.active = 0 /\ sched.failed = w
        /\ hist.touched = {} /\ hist.dirty = {} /\ hist.servers = {}
    BY <1>5
  <2>2. hist.failed = (w # {}) /\ hist.clean = (p = 1 /\ n = 0 /\ w = {}) BY <1>5
  <2> QED BY <2>1, <2>2
<1>7. Len(file) = (IF p = 1 THEN n ELSE m) /\ \A k \in 1 .. Len(file) : file[k].req = None
  <2> DEFINE x == [req |-> None, on |-> None, conf |-> c]
             l == IF p = 1 THEN n ELSE m
  <2>1. file = [k \in 1 .. l |-> x] BY <1>5
  <2>2. x.req = None /\ l \in Nat OBVIOUS
  <2>3. file \in Seq(Lines) BY <1>1 DEF Types
  <2> HIDE DEF x, l
  <2>4. Len(file) = l BY <2>1, <2>2, <2>3, LenProperties
  <2>5. \A k \in 1 .. Len(file) : file[k].req = None BY <2>1, <2>2, <2>4
  <2> QED BY <2>4, <2>5 DEF l
<1>8. InService
  <2>1. Sent = {} /\ Scheduled = {} BY <1>3, <1>4 DEF Sent, Scheduled
  <2> QED BY <1>6, <2>1, FS_EmptySet DEF InService
<1>9. Order BY <1>2, <1>3, <1>6 DEF Order, Opening, Ahead, Closing
<1>10. Lined
  <2>1. Len(<<>>) = 0 OBVIOUS
  <2>2. LinesTrue BY <1>2, <1>6, <1>7, <2>1 DEF LinesTrue, TrueLine
  <2>3. ServersServed BY <1>3, <1>6 DEF ServersServed
  <2>4. SliceOfFile
    <3>1. Len(ev.slice) = 0 BY <1>3, <2>1
    <3>2. \A k \in 1 .. Len(ev.slice) : FALSE BY <3>1
    <3> QED BY <3>2, Zenon DEF SliceOfFile
  <2>5. FailureSeen BY <1>3, <1>6 DEF FailureSeen
  <2> QED BY <2>2, <2>3, <2>4, <2>5 DEF Lined
<1>11. Judged BY <1>3, <1>6 DEF Judged, ValidIsIsolated, ValidIsOneSystem
<1>12. ASSUME NEW e \in Engines PROVE Counting(e) /\ Cached(e) /\ Found(e)
  <2>1. Counting(e) BY <1>3 DEF Counting
  <2>2. Cached(e) BY <1>3 DEF Cached, Ahead
  <2>3. Found(e)
    <3>1. warm[e] = 0 BY <1>3
    <3>2. warm[e] <= 2 BY <3>1
    <3>3. ev.found[e] = <<>> BY <1>3, Zenon
    <3> QED BY <3>2, <3>3, Zenon DEF Found
  <2> QED BY <2>1, <2>2, <2>3
<1>13. ASSUME hist.clean PROVE Calm
  <2>1. p = 1 /\ n = 0 /\ w = {} BY <1>6, <1>13
  <2>2. CalmWorld BY <1>4, <1>6, <2>1 DEF CalmWorld
  <2>3. Len(file) = 0 BY <1>7, <2>1
  <2>4. Len(Log) = 0
    <3>1. Log = file BY <1>1, <1>6, LogTypes
    <3> QED BY <2>3, <3>1
  <2>5. CalmLog
    <3>1. \A k \in 1 .. Len(Log) : FALSE BY <2>4
    <3>2. sched.logged = Len(file) BY <1>6, <2>1, <2>3
    <3>3. \A r \in Requests : pos[r] # "failed" /\ pos[r] # "replied" BY <1>3
    <3> QED BY <3>1, <3>2, <3>3, Zenon DEF CalmLog
  <2>6. CalmScript BY <1>3 DEF CalmScript, Closing
  <2> QED BY <2>2, <2>5, <2>6 DEF Calm
<1> QED BY <1>1, <1>8, <1>9, <1>10, <1>11, <1>12, <1>13 DEF IInv

LEMMA NextIInv == IInv /\ [Next]_vars => IInv'
<1> SUFFICES ASSUME IInv, [Next]_vars PROVE IInv' OBVIOUS
<1>0. /\ Types /\ InService /\ Order /\ Lined /\ Judged
      /\ \A e \in Engines : Counting(e) /\ Cached(e) /\ Found(e)
      /\ faults = 0 /\ hist.clean => Calm
  BY DEF IInv
<1>1. CASE Next
  <2>1. Types' /\ InService' BY <1>0, <1>1, NextTypes
  <2>2. Order' BY <1>0, <1>1, ScriptOrder, OtherOrder DEF Next
  <2>3. \A e \in Engines : Counting(e)' BY <1>0, <1>1, <2>1, ScriptCounting, OtherCounting DEF Next
  <2>4. \A e \in Engines : Cached(e)' BY <1>0, <1>1, <2>1, CachedKept
  <2>5. \A e \in Engines : Found(e)' BY <1>0, <1>1, FoundKept
  <2>6. Lined' BY <1>0, <1>1, <2>1, ScriptLined, OtherLined DEF Next
  <2>7. Judged' BY <1>0, <1>1, <2>1, NextJudged
  <2>8. ASSUME faults' = 0, hist'.clean PROVE Calm'
    <3>1. faults = 0
      <4>1. faults' >= faults BY <1>0, <1>1, FaultsGrow
      <4>2. faults \in 0 .. MaxFaults BY <1>0 DEF Types
      <4> QED BY <2>8, <4>1, <4>2, CellAssumption
    <3>2. hist.clean BY <1>0, <1>1, <2>8, CleanStays
    <3>3. Calm BY <1>0, <3>1, <3>2
    <3> QED BY <1>0, <1>1, <2>1, <2>8, <3>1, <3>3, ScriptCalm, OtherCalm DEF Next
  <2> QED BY <2>1, <2>2, <2>3, <2>4, <2>5, <2>6, <2>7, <2>8 DEF IInv
<1>2. CASE UNCHANGED vars
  <2>1. UNCHANGED <<engine, sched, file, pos, at, warm, step, ev, faults, hist>> BY <1>2 DEF vars
  <2>2. Types' BY <1>0, <2>1 DEF Types
  <2>3. InService' BY <1>0, <2>1 DEF InService, Sent, Scheduled
  <2>4. Order' BY <1>0, <2>1 DEF Order
  <2>5. EndsStay BY <2>1 DEF EndsStay
  <2>6. LinesTrue' /\ \A s : Served(s) => Served(s)' BY <1>0, <2>1, <2>5, LogStays DEF Lined
  <2>7. SliceOfFile' /\ FailureSeen' BY <1>0, <2>1 DEF Lined, SliceOfFile, FailureSeen
  <2>8. Lined' BY <1>0, <2>1, <2>5, <2>6, <2>7, LinedByLog
  <2>9. Judged' BY <1>0, <2>1 DEF Judged, ValidIsIsolated, ValidIsOneSystem
  <2>10. ASSUME NEW e \in Engines PROVE Counting(e)' /\ Cached(e)' /\ Found(e)'
    <3>1. Own(e)' = Own(e) /\ Reading(e)' = Reading(e) BY <2>1 DEF Own, Reading
    <3>2. Counting(e)' BY <1>0, <2>1, <3>1, CountingSame
    <3>3. Cached(e)' BY <1>0, <2>1 DEF Cached
    <3>4. Found(e)' BY <1>0, <2>1, Zenon DEF Found
    <3> QED BY <3>2, <3>3, <3>4
  <2>11. ASSUME faults' = 0, hist'.clean PROVE Calm'
    <3>1. CalmWorld /\ CalmLog /\ CalmScript BY <1>0, <2>1, <2>11 DEF Calm
    <3>2. CalmWorld' BY <2>1, <3>1, CalmWorldStays
    <3>3. CalmLog' BY <2>1, <3>1, CalmLogStays
    <3>4. CalmScript' BY <2>1, <3>1 DEF CalmScript
    <3> QED BY <3>2, <3>3, <3>4 DEF Calm
  <2> QED BY <2>2, <2>3, <2>4, <2>8, <2>9, <2>10, <2>11 DEF IInv
<1> QED BY <1>1, <1>2

LEMMA Invariance == Spec => []IInv
BY InitIInv, NextIInv, PTL DEF Spec

LEMMA TypesTypeOK == Types => TypeOK
<1> SUFFICES ASSUME Types PROVE TypeOK OBVIOUS
<1>1. \A e \in Engines : engine[e] \in EngineStates BY DEF Types
<1>2. \A e \in Engines :
       /\ engine[e].start \in Nat \ {0} /\ engine[e].deployed \in Nat \ {0}
       /\ engine[e].finished \in Nat /\ engine[e].tokens \in Nat
       /\ engine[e].cache \subseteq {"warm", "own", "foreign"}
       /\ engine[e].foreign \in {"none", "direct", "scheduled"}
  BY <1>1 DEF EngineStates
<1>3. /\ sched.proc \in Nat \ {0} /\ sched.conf \in Configs
      /\ sched.logged \in Nat /\ sched.active \in Nat
      /\ sched.failed \subseteq {"decisions", "lag"} /\ sched.buffer \in Seq(Lines)
  BY DEF Types, SchedulerStates
<1>4. ev.slice \in Seq(Lines) BY DEF Types, Evidence
<1> QED BY <1>2, <1>3, <1>4 DEF Types, TypeOK

\* A valid verdict is of a cell whose engines nobody reached or restarted between their two readings, and whose runner
\* began on caches with the warm-up and nothing else: the sums of the counters that gates/cell.py compares cannot be
\* met again by a disturbed engine, however many disturbances there are.
THEOREM IsolatedIfValid == Spec => []ValidIsIsolated
<1>1. IInv => ValidIsIsolated BY DEF IInv, Judged
<1> QED BY <1>1, Invariance, PTL

\* A valid verdict is of a cell that one scheduler process served under the cell's configuration, with its log writers
\* alive, and the slice of decisions.jsonl that the driver kept holds the line of each request, naming the engine that
\* served it, and no other line.
THEOREM OneSystemIfValid == Spec => []ValidIsOneSystem
<1>1. IInv => ValidIsOneSystem BY DEF IInv, Judged
<1> QED BY <1>1, Invariance, PTL

\* The checks of run_cell.sh and the gates raise no false alarm: a cell that nothing disturbs, with a scheduler that
\* was fresh, is not refused, and its verdict is valid.
THEOREM ValidIfUndisturbed == Spec => []UndisturbedIsValid
<1>1. IInv => UndisturbedIsValid
  <2> SUFFICES ASSUME IInv PROVE UndisturbedIsValid OBVIOUS
  <2>1. TypeOK BY TypesTypeOK DEF IInv
  <2>2. ASSUME Over, faults = 0, hist.clean PROVE ev.valid
    <3>1. CalmScript BY <2>2 DEF IInv, Calm
    <3> QED BY <2>2, <3>1 DEF CalmScript, Over
  <2> QED BY <2>1, <2>2 DEF UndisturbedIsValid
<1> QED BY <1>1, Invariance, PTL
=============================================================================
