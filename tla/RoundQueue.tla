------------------------------ MODULE RoundQueue ------------------------------
(***************************************************************************)
(* What a round collector promises: requests join rounds in the order they  *)
(* came, each one once, none lost.  A request is its number: the n-th one   *)
(* submitted.  RoundCollector implements this specification, and            *)
(* RouteBalance relies on nothing more.                                     *)
(***************************************************************************)
EXTENDS Integers, Sequences

CONSTANTS
  MaxRequests,   \* bound: requests submitted in a behaviour
  MaxRound       \* the largest round

VARIABLES
  submitted,   \* how many requests were submitted
  waiting,     \* those in no round yet, in order
  taken,       \* those that joined a round, in the order they joined
  drained      \* those handed back by a drain

vars == <<submitted, waiting, taken, drained>>

Init ==
  /\ submitted = 0
  /\ waiting = <<>>
  /\ taken = <<>>
  /\ drained = {}

Submit ==
  /\ submitted < MaxRequests
  /\ submitted' = submitted + 1
  /\ waiting' = Append(waiting, submitted + 1)
  /\ UNCHANGED <<taken, drained>>

\* A round of the first n waiting requests.
TakeRound ==
  /\ \E n \in 1 .. MaxRound :
       /\ n <= Len(waiting)
       /\ taken' = taken \o SubSeq(waiting, 1, n)
       /\ waiting' = SubSeq(waiting, n + 1, Len(waiting))
  /\ UNCHANGED <<submitted, drained>>

Drain ==
  /\ drained' = drained \cup {waiting[k] : k \in 1 .. Len(waiting)}
  /\ waiting' = <<>>
  /\ UNCHANGED <<submitted, taken>>

Next == Submit \/ TakeRound \/ Drain

Spec == Init /\ [][Next]_vars
=============================================================================
