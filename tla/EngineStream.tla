---------------------------- MODULE EngineStream ----------------------------
(***************************************************************************)
(* One call of routebalance/backend.py generate(): the events of a          *)
(* streamed reply, what the client keeps of them, and the result it makes.  *)
(* The engine's side (what it has generated, whether it has finished) is    *)
(* in the same record, for the properties; the client reads the events      *)
(* only.  A text is the number of tokens whose pieces have arrived.         *)
(***************************************************************************)
EXTENDS Integers

CONSTANT MaxReply     \* bound: tokens the engine generates for one request

Unknown == -1         \* output_tokens is None; an event without usage

\* generate() before its first event: nothing posted, no result.
NoStream ==
  [posted |-> FALSE, made |-> 0, ended |-> FALSE,
   text |-> 0, ttft |-> FALSE, output_tokens |-> Unknown, final_usage |-> FALSE, result |-> "none"]

Streaming(s) == s.posted /\ s.result = "none"

\* A failed result: what had arrived goes with it to the client, but nothing reads it.
Failed(result) == [NoStream EXCEPT !.result = result]

\* An event: its choices ("text" with a delta, "bad" with a malformed one, "none" for the empty list), the
\* completion tokens of its usage, or an error.
Event(choices, tokens) == [choices |-> choices, tokens |-> tokens, error |-> FALSE]

\* What vLLM sends next: the role chunk, a text chunk with its continuous usage, the final usage chunk; or what a
\* failing or foreign server may send instead.
NextEvents(s) ==
  IF s.ended THEN {}
  ELSE (IF s.ttft /\ s.made < MaxReply THEN {Event("text", s.made + 1)} ELSE {})
         \cup (IF s.ttft THEN {Event("none", s.made)} ELSE {Event("text", 0)})
         \cup {[choices |-> "none", tokens |-> Unknown, error |-> TRUE]}
         \cup {Event("text", Unknown), Event("text", s.made - 1)}
         \cup (IF s.made < MaxReply THEN {Event("bad", s.made + 1)} ELSE {})

\* The engine has generated what it reports.
Generated(s, e) ==
  [s EXCEPT !.made = IF e.tokens > @ THEN e.tokens ELSE @,
            !.ended = e.choices = "none"]

\* completion_tokens went backwards
Backwards(s, e) == e.tokens # Unknown /\ s.output_tokens # Unknown /\ e.tokens < s.output_tokens

\* Mutant: every count is reported, one that went backwards too.
ReportsAny(s, e) == ~e.error /\ e.tokens # Unknown

\* on_progress is called: more tokens than reported so far, in an event that is no error.
Reports(s, e) == ~e.error /\ ~Backwards(s, e) /\ e.tokens > (IF s.output_tokens = Unknown THEN 0 ELSE s.output_tokens)

Malformed(s, e) == Backwards(s, e) \/ e.choices = "bad" \/ (e.choices # "none" /\ e.tokens = Unknown)

\* One event of the stream.
AfterEvent(s, e) ==
  LET g == Generated(s, e)
      counted == IF e.tokens = Unknown THEN g ELSE [g EXCEPT !.output_tokens = e.tokens]
  IN  IF e.error \/ Malformed(s, e) THEN Failed("failed")
      ELSE IF e.choices = "none" THEN [counted EXCEPT !.final_usage = TRUE]
      ELSE [counted EXCEPT !.ttft = TRUE, !.text = IF e.tokens > 0 THEN @ + 1 ELSE @]

\* Mutant: a stream that broke off after its first token is a reply.
EndedAnyhow(s) == IF s.ttft THEN "ok" ELSE "failed"

\* What the end of the body makes of the stream.
Ended(s) == IF s.ttft /\ s.final_usage THEN "ok" ELSE "failed"

\* The body ended after a complete event, or at once.
AfterBody(s) == IF Ended(s) = "ok" THEN [s EXCEPT !.result = "ok"] ELSE Failed("failed")

\* parser.finish(): the last event came without its blank line.
AfterUnterminated(s, e) ==
  LET g == Generated(s, e)
  IN  IF e.error \/ e.choices # "none" \/ Backwards(s, e) THEN Failed("failed")
      ELSE LET u == [g EXCEPT !.output_tokens = IF e.tokens = Unknown THEN @ ELSE e.tokens,
                              !.final_usage = @ \/ e.tokens # Unknown]
           IN  AfterBody(u)

\* The post fails before a connection; no response, a refusal or an interrupted stream; the request's time is out.
Breaks == {Failed("raised"), Failed("failed"), Failed("timed_out")}

Accepted200 == [NoStream EXCEPT !.posted = TRUE]
=============================================================================
