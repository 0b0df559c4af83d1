----------------------------- MODULE TokenLedger -----------------------------
(***************************************************************************)
(* The scheduler-side load of routebalance/telemetry.py: the open dispatch  *)
(* tokens of each instance, the predicted decode work they stand for, and   *)
(* the two counts a Load takes from them.                                   *)
(*                                                                          *)
(* An operation's effect is stated apart from what it raises on: a caller   *)
(* that keeps the protocol of DispatchToken (dispatch, then progress that   *)
(* never goes back, then completion or failure once) takes steps of Next    *)
(* only.  That it does is Pipeline's property KeepsTokenLedger.             *)
(***************************************************************************)
EXTENDS Integers, FiniteSetsExt

CONSTANTS
  Instances,      \* the fleet
  Tokens,         \* identities of dispatch tokens: each is dispatched at most once
  MaxTokens,      \* bound: the largest prediction, and the longest stream
  ExtendTokens    \* AUTO_EXTEND_TOKENS

ASSUME LedgerAssumption ==
  /\ IsFiniteSet(Tokens)
  /\ MaxTokens \in Nat \ {0}
  /\ ExtendTokens \in Nat \ {0}

VARIABLES
  open_tokens,   \* open_tokens[i]: the tokens dispatched to i and not closed
  predicted,     \* predicted_decode_tokens of each token; 0: never dispatched
  produced       \* produced_tokens of each token

vars == <<open_tokens, predicted, produced>>

Open == UNION {open_tokens[i] : i \in Instances}

Remaining(t) == predicted[t] - produced[t]

Init ==
  /\ open_tokens = [i \in Instances |-> {}]
  /\ predicted = [t \in Tokens |-> 0]
  /\ produced = [t \in Tokens |-> 0]

Dispatched(t, i, n) ==
  /\ open_tokens' = [open_tokens EXCEPT ![i] = @ \cup {t}]
  /\ predicted' = [predicted EXCEPT ![t] = n]
  /\ UNCHANGED produced

\* Mutant: the prediction is extended only once the stream has passed it.
ExtendedLate(t, n) == IF n > predicted[t] THEN n + ExtendTokens ELSE predicted[t]

\* Ran past the prediction: extend it.
Extended(t, n) == IF n >= predicted[t] THEN n + ExtendTokens ELSE predicted[t]

Progressed(t, n) ==
  /\ produced' = [produced EXCEPT ![t] = n]
  /\ predicted' = [predicted EXCEPT ![t] = Extended(t, n)]
  /\ UNCHANGED open_tokens

\* record_completion and record_failure both just close the token.
Closed(t, i) ==
  /\ open_tokens' = [open_tokens EXCEPT ![i] = @ \ {t}]
  /\ UNCHANGED <<predicted, produced>>

RecordDispatch(t, i, n) == predicted[t] = 0 /\ n >= 1 /\ Dispatched(t, i, n)

RecordProgress(t, n) == t \in Open /\ n >= produced[t] /\ Progressed(t, n)

Close(t, i) == t \in open_tokens[i] /\ Closed(t, i)

Next ==
  \/ \E t \in Tokens, i \in Instances, n \in 1 .. MaxTokens : RecordDispatch(t, i, n)
  \/ \E t \in Tokens, n \in 0 .. MaxTokens : RecordProgress(t, n)
  \/ \E t \in Tokens, i \in Instances : Close(t, i)

Spec == Init /\ [][Next]_vars

-----------------------------------------------------------------------------
(* _loads *)

InFlight(i) == Cardinality(open_tokens[i])

PendingDecodeTokens(i) == MapThenSumSet(Remaining, open_tokens[i])

-----------------------------------------------------------------------------

TypeOK ==
  /\ open_tokens \in [Instances -> SUBSET Tokens]
  /\ predicted \in [Tokens -> Nat]
  /\ produced \in [Tokens -> Nat]

\* "remaining > 0: record_progress extends before it hits 0": however far a stream runs past its prediction,
\* an open token always has decode work left, so an instance never looks idle while it still streams.
RemainingPositive == \A t \in Open : Remaining(t) >= 1
=============================================================================
