----------------------------- MODULE RequestLedger -----------------------------
(***************************************************************************)
(* What the scheduler promises a client and its decision log: a request     *)
(* that is accepted is placed on an instance at most once, is answered once *)
(* (with a completion only if it was placed), and leaves one decision line, *)
(* whatever happened to it.  RouteBalance implements this specification.    *)
(***************************************************************************)
EXTENDS Integers

CONSTANT Requests

VARIABLES
  stage,   \* stage[r]: "new", "accepted", "placed", "ok" or "error"
  lines    \* lines[r]: the decision lines of r

vars == <<stage, lines>>

Init ==
  /\ stage = [r \in Requests |-> "new"]
  /\ lines = [r \in Requests |-> 0]

Move(r, from, to) ==
  /\ stage[r] \in from
  /\ stage' = [stage EXCEPT ![r] = to]

Accept(r) == Move(r, {"new"}, "accepted") /\ UNCHANGED lines

Place(r) == Move(r, {"accepted"}, "placed") /\ UNCHANGED lines

Log(r) == lines' = [lines EXCEPT ![r] = @ + 1]

Complete(r) == Move(r, {"placed"}, "ok") /\ Log(r)

\* A budget filter refuses an accepted request in the step that accepts it.
Fail(r) == Move(r, {"new", "accepted", "placed"}, "error") /\ Log(r)

Next == \E r \in Requests : Accept(r) \/ Place(r) \/ Complete(r) \/ Fail(r)

Spec == Init /\ [][Next]_vars
=============================================================================
