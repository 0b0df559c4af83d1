----------------------------- MODULE ScrapesProof -----------------------------
(***************************************************************************)
(* Proofs about Scrapes, for every fleet, every number of concurrent        *)
(* fetches and every bound.                                                 *)
(***************************************************************************)
EXTENDS Scrapes, FiniteSetTheorems, TLAPS

\* The snapshot is never newer than the newest accepted outcome (-1 before the first).
SnapshotBehind ==
  \A i \in Instances :
    \/ entry[i].snapshot <= entry[i].outcome_seq
    \/ entry[i].snapshot = None /\ entry[i].outcome_seq = -1

\* A fetch awaits nothing but the scrapes it issued.
AwaitsItsOwn ==
  \A f \in Fetchers, i \in Instances :
    outstanding[f][i] # None => outstanding[f][i] = asked[f][i]

\* A scrape that has reported is ordered: the outcome of its instance is its own or a later one.
ReportedIsOrdered ==
  \A f \in Fetchers, i \in Instances :
    asked[f][i] # None /\ outstanding[f][i] = None => entry[i].outcome_seq >= asked[f][i]

\* A fetch that is over awaits nothing; the pollers await something only while the view runs.
IdleAwaitsNothing ==
  /\ \A f \in Fetchers : ~Fetching(f) => outstanding[f] = NoScrapes
  /\ state # "running" => outstanding[Poller] = NoScrapes

\* The inductive invariant: FetchIsFresh needs to know that a reported scrape was ordered
\* (ReportedIsOrdered), and that needs the order to move forward only (SnapshotBehind).
IInv ==
  /\ TypeOK
  /\ SnapshotBehind
  /\ ErrorMeansNewerFailure
  /\ AwaitsItsOwn
  /\ ReportedIsOrdered
  /\ IdleAwaitsNothing
  /\ FetchIsFresh
  /\ RunningNeverBlind

-----------------------------------------------------------------------------

\* The numbers a gather gives out are new.
LEMMA NumberedIsNew ==
  ASSUME seq \in Nat, NEW want \in SUBSET Instances, NEW n \in Numbered(want)
  PROVE  /\ Cardinality(want) \in Nat
         /\ n \in [want -> Nat]
         /\ \A i \in want : n[i] > seq
<1>1. Cardinality(want) \in Nat
  BY FS_Subset, FS_CardinalityType, ScrapesAssumption
<1> QED BY <1>1 DEF Numbered

\* What a scrape's report does to an entry: the order of outcomes never moves back, a report is always
\* ordered, the error flag keeps its meaning.
LEMMA OutcomeAdvances ==
  ASSUME NEW e \in Entries, NEW s \in Nat, s # None,
         e.snapshot <= e.outcome_seq \/ (e.snapshot = None /\ e.outcome_seq = -1),
         e.error <=> e.snapshot < e.outcome_seq,
         NEW d \in {AfterSuccess(e, s), AfterFailure(e, s)}
  PROVE  /\ d \in Entries
         /\ d.outcome_seq >= e.outcome_seq
         /\ d.outcome_seq >= s
         /\ d.snapshot >= e.snapshot
         /\ d.snapshot <= d.outcome_seq \/ (d.snapshot = None /\ d.outcome_seq = -1)
         /\ d.error <=> d.snapshot < d.outcome_seq
<1>1. CASE d = AfterSuccess(e, s) BY <1>1 DEF AfterSuccess, Entries, None
<1>2. CASE d = AfterFailure(e, s) BY <1>2 DEF AfterFailure, Entries, None
<1> QED BY <1>1, <1>2

LEMMA CallersApart ==
  /\ Starter \in Callers /\ Poller \in Callers /\ Fetchers \subseteq Callers
  /\ Starter # Poller
  /\ \A f \in Fetchers : f # Starter /\ f # Poller
BY ScrapesAssumption DEF Callers, Starter, Poller

LEMMA InitIInv == Init => IInv
<1> SUFFICES ASSUME Init PROVE IInv OBVIOUS
<1> USE DEF Init, NoScrapes, None, NoLoads, Unread
<1>1. TypeOK BY DEF TypeOK, Entries, Loads
<1>2. SnapshotBehind /\ ErrorMeansNewerFailure BY DEF SnapshotBehind, ErrorMeansNewerFailure
<1>3. AwaitsItsOwn /\ ReportedIsOrdered
  BY CallersApart DEF AwaitsItsOwn, ReportedIsOrdered
<1>4. IdleAwaitsNothing BY CallersApart DEF IdleAwaitsNothing
<1>5. FetchIsFresh /\ RunningNeverBlind BY DEF FetchIsFresh, RunningNeverBlind
<1> QED BY <1>1, <1>2, <1>3, <1>4, <1>5 DEF IInv

-----------------------------------------------------------------------------

\* A report changes one entry, the way OutcomeAdvances says, and ends one scrape.
LEMMA ReportStep ==
  ASSUME IInv, NEW c \in Callers, NEW i \in Instances, Succeed(c, i) \/ Fail(c, i)
  PROVE  /\ outstanding[c][i] \in Nat \ {None}
         /\ entry' \in [Instances -> Entries]
         /\ outstanding' = [outstanding EXCEPT ![c][i] = None]
         /\ \A j \in Instances : j # i => entry'[j] = entry[j]
         /\ entry'[i].outcome_seq >= outstanding[c][i]
         /\ \A j \in Instances :
              /\ entry'[j].outcome_seq >= entry[j].outcome_seq
              /\ entry'[j].snapshot >= entry[j].snapshot
         /\ SnapshotBehind' /\ ErrorMeansNewerFailure'
         /\ answered' \in [Fetchers -> SUBSET Instances]
         /\ UNCHANGED <<seq, state, asked, loads>>
<1> DEFINE s == outstanding[c][i]
<1>1. s \in Nat \ {None} BY DEF IInv, TypeOK, Succeed, Fail
<1>2. entry[i] \in Entries BY DEF IInv, TypeOK
<1>3. PICK d \in {AfterSuccess(entry[i], s), AfterFailure(entry[i], s)} :
        entry' = [entry EXCEPT ![i] = d]
  BY DEF Succeed, Fail
<1>4. /\ d \in Entries
      /\ d.outcome_seq >= entry[i].outcome_seq
      /\ d.outcome_seq >= s
      /\ d.snapshot >= entry[i].snapshot
      /\ d.snapshot <= d.outcome_seq \/ (d.snapshot = None /\ d.outcome_seq = -1)
      /\ d.error <=> d.snapshot < d.outcome_seq
  BY <1>1, <1>2, OutcomeAdvances DEF IInv, SnapshotBehind, ErrorMeansNewerFailure
<1>5. entry \in [Instances -> Entries] BY DEF IInv, TypeOK
<1>6. \A j \in Instances : entry'[j] = IF j = i THEN d ELSE entry[j] BY <1>3, <1>5
<1>7. entry' \in [Instances -> Entries] BY <1>3, <1>4, <1>5
<1>8. \A j \in Instances :
        /\ entry'[j].outcome_seq >= entry[j].outcome_seq
        /\ entry'[j].snapshot >= entry[j].snapshot
  BY <1>4, <1>5, <1>6 DEF Entries
<1>9. SnapshotBehind' /\ ErrorMeansNewerFailure'
  BY <1>4, <1>6 DEF IInv, SnapshotBehind, ErrorMeansNewerFailure
<1>10. answered' \in [Fetchers -> SUBSET Instances]
  <2>1. answered \in [Fetchers -> SUBSET Instances] BY DEF IInv, TypeOK
  <2>2. answered' = answered \/ (c \in Fetchers /\ answered' = [answered EXCEPT ![c] = answered[c] \cup {i}])
    BY DEF Succeed, Fail
  <2> QED BY <2>1, <2>2
<1>11. outstanding' = [outstanding EXCEPT ![c][i] = None] BY DEF Succeed, Fail
<1>12. UNCHANGED <<seq, state, asked, loads>> BY DEF Succeed, Fail
<1> QED BY <1>1, <1>4, <1>6, <1>7, <1>8, <1>9, <1>10, <1>11, <1>12

-----------------------------------------------------------------------------

LEMMA ReportKeepsIInv ==
  ASSUME IInv, NEW c \in Callers, NEW i \in Instances, Succeed(c, i) \/ Fail(c, i)
  PROVE  IInv'
<1>1. /\ outstanding[c][i] \in Nat \ {None}
      /\ entry' \in [Instances -> Entries]
      /\ outstanding' = [outstanding EXCEPT ![c][i] = None]
      /\ \A j \in Instances : j # i => entry'[j] = entry[j]
      /\ entry'[i].outcome_seq >= outstanding[c][i]
      /\ \A j \in Instances :
           /\ entry'[j].outcome_seq >= entry[j].outcome_seq
           /\ entry'[j].snapshot >= entry[j].snapshot
      /\ SnapshotBehind' /\ ErrorMeansNewerFailure'
      /\ answered' \in [Fetchers -> SUBSET Instances]
      /\ UNCHANGED <<seq, state, asked, loads>>
  BY ReportStep
<1>2. /\ outstanding \in [Callers -> [Instances -> Nat]]
      /\ entry \in [Instances -> Entries]
      /\ asked \in [Fetchers -> [Instances -> Nat]]
  BY DEF IInv, TypeOK
<1>3. /\ outstanding' \in [Callers -> [Instances -> Nat]]
      /\ \A k \in Callers, j \in Instances :
           outstanding'[k][j] = IF k = c /\ j = i THEN None ELSE outstanding[k][j]
  BY <1>1, <1>2 DEF None
<1>4. \A k \in Callers : outstanding[k] = NoScrapes => outstanding'[k] = NoScrapes
  <2> SUFFICES ASSUME NEW k \in Callers, outstanding[k] = NoScrapes PROVE outstanding'[k] = NoScrapes
    OBVIOUS
  <2>1. \A j \in Instances : outstanding'[k][j] = None BY <1>3 DEF NoScrapes
  <2>2. outstanding'[k] \in [Instances -> Nat] BY <1>3
  <2> QED BY <2>1, <2>2 DEF NoScrapes
<1>5. TypeOK'
  BY <1>1, <1>3 DEF IInv, TypeOK
<1>6. AwaitsItsOwn'
  BY <1>1, <1>3, CallersApart DEF IInv, AwaitsItsOwn
<1>7. ReportedIsOrdered'
  <2> SUFFICES ASSUME NEW f \in Fetchers, NEW j \in Instances,
                      asked[f][j] # None, outstanding'[f][j] = None
               PROVE  entry'[j].outcome_seq >= asked[f][j]
    BY <1>1 DEF ReportedIsOrdered
  <2>1. f \in Callers BY CallersApart
  <2>2. asked[f][j] \in Nat BY <1>2
  <2>3. CASE f = c /\ j = i
    <3>1. outstanding[f][j] = asked[f][j]
      BY <1>1, <2>3 DEF IInv, AwaitsItsOwn
    <3> QED BY <1>1, <2>3, <3>1
  <2>4. CASE ~(f = c /\ j = i)
    <3>1. outstanding[f][j] = None BY <1>3, <2>1, <2>4
    <3>2. entry[j].outcome_seq >= asked[f][j] BY <3>1 DEF IInv, ReportedIsOrdered
    <3> QED BY <1>1, <1>2, <2>2, <3>2 DEF Entries
  <2> QED BY <2>3, <2>4
<1>8. IdleAwaitsNothing'
  BY <1>1, <1>4, CallersApart DEF IInv, IdleAwaitsNothing, Fetching
<1>9. FetchIsFresh' BY <1>1 DEF IInv, FetchIsFresh
<1>10. RunningNeverBlind'
  <2> SUFFICES ASSUME state = "running", NEW j \in Instances PROVE entry'[j].snapshot # None
    BY <1>1 DEF RunningNeverBlind
  <2>1. entry[j].snapshot # None BY DEF IInv, RunningNeverBlind
  <2> QED BY <1>1, <1>2, <2>1 DEF Entries, None
<1> QED BY <1>1, <1>5, <1>6, <1>7, <1>8, <1>9, <1>10 DEF IInv

\* A gather of caller c on instances it awaits nothing from.
LEMMA GatherStep ==
  ASSUME IInv, NEW c \in Callers, NEW want \in SUBSET Instances, NEW n \in Numbered(want), Gather(c, want, n)
  PROVE  /\ seq' \in Nat
         /\ outstanding' \in [Callers -> [Instances -> Nat]]
         /\ \A k \in Callers : k # c => outstanding'[k] = outstanding[k]
         /\ \A j \in Instances : outstanding'[c][j] = IF j \in want THEN n[j] ELSE outstanding[c][j]
         /\ n \in [want -> Nat]
         /\ \A j \in want : n[j] # None
<1>1. seq \in Nat /\ outstanding \in [Callers -> [Instances -> Nat]] BY DEF IInv, TypeOK
<1>2. Cardinality(want) \in Nat /\ n \in [want -> Nat] /\ \A j \in want : n[j] > seq
  BY <1>1, NumberedIsNew
<1>3. \A j \in want : n[j] # None BY <1>1, <1>2 DEF None
<1> QED BY <1>1, <1>2, <1>3 DEF Gather

LEMMA FetchBeginKeepsIInv ==
  ASSUME IInv, NEW f \in Fetchers, FetchBegin(f)
  PROVE  IInv'
<1>1. PICK want \in (SUBSET Instances) \ {{}} : \E n \in Numbered(want) :
        /\ Gather(f, want, n)
        /\ asked' = [asked EXCEPT ![f] = [i \in Instances |-> IF i \in want THEN n[i] ELSE None]]
  BY DEF FetchBegin
<1>2. PICK n \in Numbered(want) :
        /\ Gather(f, want, n)
        /\ asked' = [asked EXCEPT ![f] = [i \in Instances |-> IF i \in want THEN n[i] ELSE None]]
  BY <1>1
<1>3. f \in Callers /\ f # Starter /\ f # Poller BY CallersApart
<1>4. /\ seq' \in Nat
      /\ outstanding' \in [Callers -> [Instances -> Nat]]
      /\ \A k \in Callers : k # f => outstanding'[k] = outstanding[k]
      /\ \A j \in Instances : outstanding'[f][j] = IF j \in want THEN n[j] ELSE outstanding[f][j]
      /\ n \in [want -> Nat]
      /\ \A j \in want : n[j] # None
  BY <1>2, <1>3, GatherStep
<1>5. outstanding[f] = NoScrapes BY DEF FetchBegin, IInv, IdleAwaitsNothing
<1>6. /\ asked \in [Fetchers -> [Instances -> Nat]]
      /\ entry \in [Instances -> Entries]
      /\ answered \in [Fetchers -> SUBSET Instances]
  BY DEF IInv, TypeOK
<1>7. \A g \in Fetchers, j \in Instances :
        asked'[g][j] = IF g = f THEN (IF j \in want THEN n[j] ELSE None) ELSE asked[g][j]
  BY <1>2, <1>6
<1>8. asked' \in [Fetchers -> [Instances -> Nat]] BY <1>2, <1>4, <1>6 DEF None
<1>9. /\ \A g \in Fetchers : loads'[g] = IF g = f THEN NoLoads ELSE loads[g]
      /\ loads' \in [Fetchers -> [Instances -> Loads]]
  <2>1. loads' = [loads EXCEPT ![f] = NoLoads] BY DEF FetchBegin
  <2>2. loads \in [Fetchers -> [Instances -> Loads]] BY DEF IInv, TypeOK
  <2>3. NoLoads \in [Instances -> Loads] BY DEF NoLoads, Unread, Loads, None
  <2> QED BY <2>1, <2>2, <2>3
<1>10. /\ answered' \in [Fetchers -> SUBSET Instances]
       /\ UNCHANGED <<entry, state>>
  BY <1>6 DEF FetchBegin
<1>12. TypeOK' BY <1>4, <1>8, <1>9, <1>10 DEF IInv, TypeOK
<1>13. (SnapshotBehind /\ ErrorMeansNewerFailure /\ RunningNeverBlind)'
  BY <1>10 DEF IInv, SnapshotBehind, ErrorMeansNewerFailure, RunningNeverBlind
<1>14. AwaitsItsOwn'
  <2> SUFFICES ASSUME NEW g \in Fetchers, NEW j \in Instances, outstanding'[g][j] # None
               PROVE  outstanding'[g][j] = asked'[g][j]
    BY DEF AwaitsItsOwn
  <2>1. CASE g = f BY <1>4, <1>5, <1>7, <2>1 DEF NoScrapes
  <2>2. CASE g # f BY <1>4, <1>7, <2>2, CallersApart DEF IInv, AwaitsItsOwn
  <2> QED BY <2>1, <2>2
<1>15. ReportedIsOrdered'
  <2> SUFFICES ASSUME NEW g \in Fetchers, NEW j \in Instances, asked'[g][j] # None, outstanding'[g][j] = None
               PROVE  entry[j].outcome_seq >= asked'[g][j]
    BY <1>10 DEF ReportedIsOrdered
  <2>1. CASE g = f BY <1>4, <1>7, <2>1
  <2>2. CASE g # f BY <1>4, <1>7, <2>2, CallersApart DEF IInv, ReportedIsOrdered
  <2> QED BY <2>1, <2>2
<1>16. IdleAwaitsNothing'
  <2>1. state' # "running" => outstanding'[Poller] = NoScrapes
    BY <1>3, <1>4, <1>10, CallersApart DEF IInv, IdleAwaitsNothing
  <2>2. ASSUME NEW g \in Fetchers, g # f, ~Fetching(g)' PROVE outstanding'[g] = NoScrapes
    <3>1. asked'[g] = asked[g] BY <1>2, <1>6, <2>2
    <3>2. ~Fetching(g) BY <1>9, <2>2, <3>1 DEF Fetching
    <3> QED BY <1>4, <2>2, <3>2, CallersApart DEF IInv, IdleAwaitsNothing
  <2>3. Fetching(f)'
    <3>1. PICK j \in want : TRUE BY <1>1
    <3>2. asked'[f][j] # NoScrapes[j] BY <1>4, <1>7, <3>1 DEF NoScrapes
    <3> QED BY <1>9, <3>2 DEF Fetching
  <2> QED BY <2>1, <2>2, <2>3 DEF IdleAwaitsNothing
<1>17. FetchIsFresh'
  <2> SUFFICES ASSUME NEW g \in Fetchers, NEW j \in Instances, loads'[g][j] # Unread, ~loads'[g][j].error
               PROVE  loads'[g][j].snapshot >= asked'[g][j]
    BY DEF FetchIsFresh
  <2>1. g # f BY <1>9 DEF NoLoads
  <2>2. loads'[g] = loads[g] /\ asked'[g] = asked[g] BY <1>2, <1>6, <1>9, <2>1
  <2> QED BY <2>2 DEF IInv, FetchIsFresh
<1> QED BY <1>12, <1>13, <1>14, <1>15, <1>16, <1>17 DEF IInv

LEMMA FetchReturnKeepsIInv ==
  ASSUME IInv, NEW f \in Fetchers, FetchReturn(f)
  PROVE  IInv'
<1>1. /\ loads' = [loads EXCEPT ![f] = LoadsNow(f)]
      /\ UNCHANGED <<seq, entry, outstanding, state, asked, answered>>
  BY DEF FetchReturn
<1>2. /\ entry \in [Instances -> Entries]
      /\ asked \in [Fetchers -> [Instances -> Nat]]
      /\ loads \in [Fetchers -> [Instances -> Loads]]
  BY DEF IInv, TypeOK
<1>3. LoadsNow(f) \in [Instances -> Loads]
  BY <1>2 DEF LoadsNow, LoadOf, Entries, Loads, Unread, None
<1>4. TypeOK' BY <1>1, <1>2, <1>3 DEF IInv, TypeOK
<1>5. (SnapshotBehind /\ ErrorMeansNewerFailure /\ AwaitsItsOwn /\ ReportedIsOrdered /\ RunningNeverBlind)'
  BY <1>1 DEF IInv, SnapshotBehind, ErrorMeansNewerFailure, AwaitsItsOwn, ReportedIsOrdered, RunningNeverBlind
<1>6. IdleAwaitsNothing'
  <2> SUFFICES ASSUME NEW g \in Fetchers, ~Fetching(g)' PROVE outstanding[g] = NoScrapes
    BY <1>1 DEF IInv, IdleAwaitsNothing
  <2>1. CASE g = f BY <2>1 DEF FetchReturn, Gathered
  <2>2. CASE g # f
    <3>1. ~Fetching(g) BY <1>1, <1>2, <2>2 DEF Fetching
    <3> QED BY <3>1 DEF IInv, IdleAwaitsNothing
  <2> QED BY <2>1, <2>2
<1>7. FetchIsFresh'
  <2> SUFFICES ASSUME NEW g \in Fetchers, NEW j \in Instances, loads'[g][j] # Unread, ~loads'[g][j].error
               PROVE  loads'[g][j].snapshot >= asked[g][j]
    BY <1>1 DEF FetchIsFresh
  <2>1. CASE g # f BY <1>1, <1>2, <2>1 DEF IInv, FetchIsFresh
  <2>2. CASE g = f
    <3>1. loads'[f][j] = LoadOf(entry[j]) /\ j \in Wanted(f)
      BY <1>1, <1>2, <2>2 DEF LoadsNow
    \* the scrape has reported, so the outcome is ordered after it; no error: the snapshot is that outcome
    <3>2. entry[j].outcome_seq >= asked[f][j]
      BY <3>1 DEF FetchReturn, Gathered, NoScrapes, Wanted, IInv, ReportedIsOrdered
    <3>3. ~(entry[j].snapshot < entry[j].outcome_seq)
      BY <2>2, <3>1 DEF LoadOf, IInv, ErrorMeansNewerFailure
    <3>4. entry[j].outcome_seq \in Int /\ entry[j].snapshot \in Nat /\ asked[f][j] \in Nat
      BY <1>2 DEF Entries
    <3> QED BY <2>2, <3>1, <3>2, <3>3, <3>4 DEF LoadOf
  <2> QED BY <2>1, <2>2
<1> QED BY <1>4, <1>5, <1>6, <1>7 DEF IInv

LEMMA FetchRaiseKeepsIInv ==
  ASSUME IInv, NEW f \in Fetchers, FetchRaise(f)
  PROVE  IInv'
<1>1. /\ asked' = [asked EXCEPT ![f] = NoScrapes]
      /\ answered' = [answered EXCEPT ![f] = {}]
      /\ outstanding[f] = NoScrapes
      /\ loads[f] = NoLoads
      /\ UNCHANGED <<seq, entry, outstanding, state, loads>>
  BY DEF FetchRaise, Gathered, Fetching
<1>2. asked \in [Fetchers -> [Instances -> Nat]] /\ loads \in [Fetchers -> [Instances -> Loads]]
  BY DEF IInv, TypeOK
<1>3. TypeOK' BY <1>1, <1>2 DEF IInv, TypeOK, NoScrapes, None
<1>4. (SnapshotBehind /\ ErrorMeansNewerFailure /\ RunningNeverBlind)'
  BY <1>1 DEF IInv, SnapshotBehind, ErrorMeansNewerFailure, RunningNeverBlind
<1>5. \A g \in Fetchers : asked'[g] = IF g = f THEN NoScrapes ELSE asked[g] BY <1>1, <1>2
<1>6. AwaitsItsOwn' BY <1>1, <1>5 DEF IInv, AwaitsItsOwn, NoScrapes
<1>7. ReportedIsOrdered' BY <1>1, <1>5 DEF IInv, ReportedIsOrdered, NoScrapes
<1>8. IdleAwaitsNothing' BY <1>1, <1>5 DEF IInv, IdleAwaitsNothing, Fetching
<1>9. FetchIsFresh' BY <1>1, <1>5 DEF IInv, FetchIsFresh, NoLoads
<1> QED BY <1>3, <1>4, <1>6, <1>7, <1>8, <1>9 DEF IInv

\* start(), a poller's turn and stop() move no entry and no fetch.
LEMMA PollingKeepsIInv ==
  ASSUME IInv, Start \/ StartReturn \/ Stop \/ \E i \in Instances : Poll(i)
  PROVE  IInv'
<1>1. UNCHANGED <<entry, asked, answered, loads>> BY DEF Start, StartReturn, Stop, Poll
<1>2. /\ outstanding \in [Callers -> [Instances -> Nat]] /\ seq \in Nat
      /\ state \in {"idle", "starting", "running", "stopped"}
  BY DEF IInv, TypeOK
<1>3. /\ outstanding' \in [Callers -> [Instances -> Nat]] /\ seq' \in Nat
      /\ state' \in {"idle", "starting", "running", "stopped"}
      /\ \A f \in Fetchers : outstanding'[f] = outstanding[f]
      /\ state' # "running" => outstanding'[Poller] = NoScrapes
      /\ state' = "running" => \A i \in Instances : entry[i].snapshot # None
  <2>1. CASE Start
    <3>1. PICK n \in Numbered(Instances) : Gather(Starter, Instances, n) BY <2>1 DEF Start
    <3>2. Instances \in SUBSET Instances OBVIOUS
    <3> QED BY <1>2, <2>1, <3>1, <3>2, GatherStep, CallersApart DEF Start, IInv, IdleAwaitsNothing
  <2>2. CASE StartReturn BY <1>2, <2>2 DEF StartReturn, IInv, IdleAwaitsNothing
  <2>3. CASE Stop
    BY <1>2, <2>3, CallersApart DEF Stop, NoScrapes, None
  <2>4. ASSUME NEW i \in Instances, Poll(i) PROVE <1>3
    <3>1. PICK n \in Numbered({i}) : Gather(Poller, {i}, n) BY <2>4 DEF Poll
    <3>2. {i} \in SUBSET Instances OBVIOUS
    <3>3. /\ seq' \in Nat
          /\ outstanding' \in [Callers -> [Instances -> Nat]]
          /\ \A k \in Callers : k # Poller => outstanding'[k] = outstanding[k]
      BY <3>1, <3>2, GatherStep, CallersApart
    <3> QED BY <2>4, <3>3, CallersApart DEF Poll, IInv, RunningNeverBlind
  <2> QED BY <2>1, <2>2, <2>3, <2>4
<1>4. TypeOK' BY <1>1, <1>3 DEF IInv, TypeOK
<1>5. (SnapshotBehind /\ ErrorMeansNewerFailure /\ FetchIsFresh)'
  BY <1>1 DEF IInv, SnapshotBehind, ErrorMeansNewerFailure, FetchIsFresh
<1>6. (AwaitsItsOwn /\ ReportedIsOrdered)' BY <1>1, <1>3 DEF IInv, AwaitsItsOwn, ReportedIsOrdered
<1>7. IdleAwaitsNothing' BY <1>1, <1>3 DEF IInv, IdleAwaitsNothing, Fetching
<1>8. RunningNeverBlind' BY <1>1, <1>3 DEF RunningNeverBlind
<1> QED BY <1>4, <1>5, <1>6, <1>7, <1>8 DEF IInv

LEMMA NextKeepsIInv == IInv /\ [Next]_vars => IInv'
<1> SUFFICES ASSUME IInv, [Next]_vars PROVE IInv' OBVIOUS
<1>1. CASE Report BY <1>1, ReportKeepsIInv DEF Report
<1>2. ASSUME NEW f \in Fetchers, FetchBegin(f) \/ FetchReturn(f) \/ FetchRaise(f) PROVE IInv'
  BY <1>2, FetchBeginKeepsIInv, FetchReturnKeepsIInv, FetchRaiseKeepsIInv
<1>3. CASE Start \/ StartReturn \/ Stop \/ \E i \in Instances : Poll(i)
  BY <1>3, PollingKeepsIInv
<1>4. CASE UNCHANGED vars
  BY <1>4 DEF vars, IInv, TypeOK, SnapshotBehind, ErrorMeansNewerFailure, AwaitsItsOwn, ReportedIsOrdered,
              IdleAwaitsNothing, Fetching, FetchIsFresh, RunningNeverBlind
<1> QED BY <1>1, <1>2, <1>3, <1>4 DEF Next

\* Whatever the order of replies, failures, fetches, start() and stop(), the invariant holds.
THEOREM Invariance == Spec => []IInv
BY InitIInv, NextKeepsIInv, PTL DEF Spec

\* Type correctness of the view's scrape state.
THEOREM TypeCorrect == Spec => []TypeOK
<1>1. IInv => TypeOK BY DEF IInv
<1> QED BY <1>1, Invariance, PTL

\* A load without an error was scraped by the fetch that returns it or by a later one, for every fleet
\* and any number of concurrent fetches (telemetry.py, _poll_one and fetch).
THEOREM FreshFetch == Spec => []FetchIsFresh
<1>1. IInv => FetchIsFresh BY DEF IInv
<1> QED BY <1>1, Invariance, PTL

\* An instance carries an error exactly when its newest accepted outcome is not its snapshot's.
THEOREM ErrorMeaning == Spec => []ErrorMeansNewerFailure
<1>1. IInv => ErrorMeansNewerFailure BY DEF IInv
<1> QED BY <1>1, Invariance, PTL

\* A running view never serves a decision blind.
THEOREM NeverBlind == Spec => []RunningNeverBlind
<1>1. IInv => RunningNeverBlind BY DEF IInv
<1> QED BY <1>1, Invariance, PTL

\* What is known of an instance only moves to later scrapes.
THEOREM MovesForward == Spec => OutcomesMoveForward
<1> DEFINE Forward == \A i \in Instances : /\ entry'[i].outcome_seq >= entry[i].outcome_seq
                                           /\ entry'[i].snapshot >= entry[i].snapshot
<1>1. IInv /\ [Next]_vars => [Forward]_vars
  <2> SUFFICES ASSUME IInv, Next PROVE Forward BY DEF Forward
  <2>1. CASE Report BY <2>1, ReportStep DEF Report
  <2>2. CASE UNCHANGED entry BY <2>2 DEF IInv, TypeOK, Entries
  <2> QED BY <2>1, <2>2 DEF Next, FetchBegin, FetchReturn, FetchRaise, Start, StartReturn, Stop, Poll
<1> QED BY <1>1, Invariance, PTL DEF Spec, OutcomesMoveForward

\* stop() is final, also when it lands inside start().
THEOREM StopFinal == Spec => StopIsFinal
<1> DEFINE Final == state' = "stopped" \/ state = "stopped" =>
                      state' = "stopped" /\ outstanding'[Poller] = NoScrapes
<1>1. IInv /\ [Next]_vars => [Final]_vars
  <2> SUFFICES ASSUME IInv, Next PROVE Final BY DEF Final
  <2>1. IInv' BY NextKeepsIInv
  <2>2. state = "stopped" => state' = "stopped"
    BY DEF Next, Report, Succeed, Fail, FetchBegin, FetchReturn, FetchRaise, Start, StartReturn, Stop, Poll
  <2> QED BY <2>1, <2>2 DEF IInv, IdleAwaitsNothing
<1> QED BY <1>1, Invariance, PTL DEF Spec, StopIsFinal
=============================================================================
