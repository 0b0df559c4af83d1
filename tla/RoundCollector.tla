---------------------------- MODULE RoundCollector ----------------------------
(***************************************************************************)
(* routebalance/schedule/rounds.py: the collector of scheduling rounds, on  *)
(* an asyncio.Queue.  Time is abstracted: a round's deadline may pass at    *)
(* any moment once its first request is there.  The scheduler's loop (which *)
(* calls next_round and adapt in turn) may be cancelled at any await.       *)
(***************************************************************************)
EXTENDS Integers, Sequences, FiniteSetsExt, Functions

CONSTANTS
  MaxRequests,         \* bound: requests submitted in a behaviour
  MaxCancels,          \* bound: cancelled collections
  Adaptive,            \* cfg.adaptive
  Fixed,               \* cfg.max_batch, used when not adaptive
  Small, Mid, Large,   \* the sizes of ADAPTIVE_LIMITS: 4, 16 and 32 in the code
  FleetSize            \* how many instances the fleet has

ASSUME CollectorAssumption ==
  /\ MaxRequests \in Nat /\ MaxCancels \in Nat
  /\ Adaptive \in BOOLEAN
  /\ Fixed \in Nat \ {0}
  /\ Small \in Nat \ {0} /\ Mid \in Nat /\ Large \in Nat
  /\ Small <= Mid /\ Mid <= Large
  /\ FleetSize \in Nat \ {0}

BacklogCap == Large

VARIABLES
  submitted,   \* history: how many requests were submitted
  taken,       \* history: the requests delivered in rounds, in order
  drained,     \* history: the requests handed back by drain()
  cancels,     \* cancelled collections so far
  queue,       \* _queue
  carry,       \* _carry
  pc,          \* next_round(): "idle", "first" (awaits a first request), "collecting" or "taking" (in _take)
  batch,       \* the round being collected
  got,         \* _take's getter task: <<>> or <<the request it took>>
  size,        \* limits[0]: this round's size
  max_batch    \* the size limit of the rounds to come

collectorVars == <<submitted, taken, drained, cancels, queue, carry, pc, batch, got, size, max_batch>>

\* adaptive_limits(busy_ratio(loads)), the ratio being b busy instances of the fleet.
AdaptiveSize(b) ==
  IF 10 * b < 3 * FleetSize THEN Small ELSE IF 10 * b < 7 * FleetSize THEN Mid ELSE Large

\* The size of a round that opens with this backlog (D123).
SizeOfRound(backlog) ==
  IF Adaptive THEN Max({max_batch, Min({backlog, BacklogCap})}) ELSE max_batch

-----------------------------------------------------------------------------

CollectorInit ==
  /\ submitted = 0
  /\ taken = <<>>
  /\ drained = {}
  /\ cancels = 0
  /\ queue = <<>>
  /\ carry = <<>>
  /\ pc = "idle"
  /\ batch = <<>>
  /\ got = <<>>
  /\ max_batch = IF Adaptive THEN AdaptiveSize(0) ELSE Fixed
  /\ size = max_batch

Submit ==
  /\ submitted < MaxRequests
  /\ submitted' = submitted + 1
  /\ queue' = Append(queue, submitted + 1)
  /\ UNCHANGED <<taken, drained, cancels, carry, pc, batch, got, size, max_batch>>

\* Mutant: the backlog leaves out the requests a cancelled collection kept.
OpenUncarried ==
  /\ pc = "idle"
  /\ batch' = carry
  /\ carry' = <<>>
  /\ size' = SizeOfRound(Len(queue))
  /\ pc' = IF carry = <<>> THEN "first" ELSE "collecting"
  /\ UNCHANGED <<submitted, taken, drained, cancels, queue, got, max_batch>>

\* next_round() up to its first await.
Open ==
  /\ pc = "idle"
  /\ batch' = carry
  /\ carry' = <<>>
  /\ size' = SizeOfRound(Len(carry) + Len(queue))
  /\ pc' = IF carry = <<>> THEN "first" ELSE "collecting"
  /\ UNCHANGED <<submitted, taken, drained, cancels, queue, got, max_batch>>

FirstGet ==
  /\ pc = "first"
  /\ queue # <<>>
  /\ batch' = <<Head(queue)>>
  /\ queue' = Tail(queue)
  /\ pc' = "collecting"
  /\ UNCHANGED <<submitted, taken, drained, cancels, carry, got, size, max_batch>>

\* The round is full, or its time is up: next_round() returns it.
Deliver ==
  /\ taken' = taken \o batch
  /\ batch' = <<>>
  /\ pc' = "idle"
  /\ UNCHANGED <<submitted, drained, cancels, queue, carry, got, size, max_batch>>

CloseFull == pc = "collecting" /\ Len(batch) >= size /\ Deliver

CloseLate == pc = "collecting" /\ Len(batch) < size /\ Deliver

Take ==
  /\ pc = "collecting"
  /\ Len(batch) < size
  /\ pc' = "taking"
  /\ UNCHANGED <<submitted, taken, drained, cancels, queue, carry, batch, got, size, max_batch>>

\* The getter task runs; _take's own wake-up is a later step.
GetterGets ==
  /\ pc = "taking"
  /\ got = <<>>
  /\ queue # <<>>
  /\ got' = <<Head(queue)>>
  /\ queue' = Tail(queue)
  /\ UNCHANGED <<submitted, taken, drained, cancels, carry, pc, batch, size, max_batch>>

\* _take() returns True.
TakeDone ==
  /\ pc = "taking"
  /\ got # <<>>
  /\ batch' = batch \o got
  /\ got' = <<>>
  /\ pc' = "collecting"
  /\ UNCHANGED <<submitted, taken, drained, cancels, queue, carry, size, max_batch>>

\* The deadline passes in _take(): the getter is cancelled, what it had not taken stays in the queue, and the
\* round closes.
TakeTimeout ==
  /\ pc = "taking"
  /\ got = <<>>
  /\ Deliver

\* Mutant: a request that the getter took in the tick of the cancellation is dropped.
CancelDropsGot ==
  /\ pc # "idle"
  /\ cancels < MaxCancels
  /\ cancels' = cancels + 1
  /\ carry' = batch
  /\ batch' = <<>>
  /\ got' = <<>>
  /\ pc' = "idle"
  /\ UNCHANGED <<submitted, taken, drained, queue, size, max_batch>>

\* The collection is cancelled at an await: what it took, the getter's request included, opens the next round.
Cancel ==
  /\ pc \in {"first", "taking"}
  /\ cancels < MaxCancels
  /\ cancels' = cancels + 1
  /\ carry' = batch \o got
  /\ batch' = <<>>
  /\ got' = <<>>
  /\ pc' = "idle"
  /\ UNCHANGED <<submitted, taken, drained, queue, size, max_batch>>

\* Mutant: drain() forgets the carried requests.
DrainQueueOnly ==
  /\ pc = "idle"
  /\ drained' = drained \cup Range(queue)
  /\ carry' = <<>>
  /\ queue' = <<>>
  /\ UNCHANGED <<submitted, taken, cancels, pc, batch, got, size, max_batch>>

\* The loop is gone (fail_pending).
Drain ==
  /\ pc = "idle"
  /\ drained' = drained \cup Range(carry \o queue)
  /\ carry' = <<>>
  /\ queue' = <<>>
  /\ UNCHANGED <<submitted, taken, cancels, pc, batch, got, size, max_batch>>

\* adapt(), with b of the instances busy.  Without cfg.adaptive it does nothing.
Adapt ==
  /\ pc = "idle"
  /\ Adaptive
  /\ \E b \in 0 .. FleetSize : max_batch' = AdaptiveSize(b)
  /\ UNCHANGED <<submitted, taken, drained, cancels, queue, carry, pc, batch, got, size>>

Collect == Open \/ FirstGet \/ CloseFull \/ CloseLate \/ Take \/ GetterGets \/ TakeDone \/ TakeTimeout

CollectorNext == Submit \/ Collect \/ Cancel \/ Drain \/ Adapt

CollectorSpec == CollectorInit /\ [][CollectorNext]_collectorVars

\* The loop calls next_round again and again, the event loop runs what is ready, and deadlines pass.  Nothing
\* makes requests come, the loop be cancelled or the ratio change.
FairSpec == CollectorSpec /\ WF_collectorVars(Collect)

-----------------------------------------------------------------------------

Waiting == carry \o batch \o got \o queue

CollectorTypeOK ==
  /\ submitted \in 0 .. MaxRequests
  /\ \A s \in {taken, queue, carry, batch, got} : s \in Seq(1 .. submitted)
  /\ drained \subseteq 1 .. submitted
  /\ cancels \in 0 .. MaxCancels
  /\ pc \in {"idle", "first", "collecting", "taking"}
  /\ Len(got) <= 1
  /\ size \in Nat \ {0}
  /\ max_batch \in {Fixed, Small, Mid, Large}

\* The collector delivers every request in one round, in order, none lost or repeated, in rounds of at most the
\* largest size, through cancelled collections and requests that land in the tick of a cancellation or timeout.
Promise == INSTANCE RoundQueue
             WITH waiting <- Waiting, MaxRound <- IF Adaptive THEN Large ELSE Fixed

KeepsPromise == Promise!Spec

\* A round never holds more requests than the limit it reports (round_max_batch in its decision lines): neither
\* the carried requests of a cancelled collection nor an adaptation in the meantime push it over.
RoundFits == CollectorTypeOK /\ Len(batch \o got) <= size

\* Every request submitted joins a round, unless it is handed back.
EveryRequestGetsARound ==
  \A n \in 1 .. MaxRequests : submitted >= n ~> (n \in Range(taken) \/ n \in drained)
=============================================================================
