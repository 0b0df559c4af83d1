----------------------------- MODULE DecisionLog -----------------------------
(***************************************************************************)
(* routebalance/decision_log.py (JsonlLog) as the server runs it: requests  *)
(* write lines into memory, a background task hands them to a worker thread *)
(* that appends them to the file, stop() cancels the task and flushes what  *)
(* is left.  A line is its number: the n-th line the server wrote.          *)
(*                                                                          *)
(* An append may fail (OSError) after some of its lines reached the disk.   *)
(* A job handed to the pool may be cancelled before a worker took it; once  *)
(* taken it runs to its end whatever happens to the task that awaits it.    *)
(***************************************************************************)
EXTENDS Integers, Sequences, Functions

CONSTANT MaxLines      \* bound: lines written in a behaviour

ASSUME LogAssumption == MaxLines \in Nat

Flushes == {"run", "stop"}     \* the flush of the background task, and stop()'s final one

VARIABLES
  logged,    \* history: lines the server has written
  lines,     \* _lines: written, not yet handed to a worker
  writing,   \* _writing: handed over and not yet known to be on disk
  written,   \* written: known to be on disk
  file,      \* the file
  chunk,     \* chunk[w]: the lines of flush w's append
  job,       \* job[w]: "none", "queued", "ok", "failed" or "dropped"
  flusher,   \* the background task: "sleeping", "awaiting", "failed" or "cancelled"
  stopper,   \* stop(): "no", "cancelled", "awaiting" or "stopped"
  evidence_failure   \* Service.evidence_failure is set

vars == <<logged, lines, writing, written, file, chunk, job, flusher, stopper, evidence_failure>>

Buffered == Len(lines) + writing

AllLines == [n \in 1 .. logged |-> n]

-----------------------------------------------------------------------------

Init ==
  /\ logged = 0
  /\ lines = <<>>
  /\ writing = 0
  /\ written = 0
  /\ file = <<>>
  /\ chunk = [w \in Flushes |-> <<>>]
  /\ job = [w \in Flushes |-> "none"]
  /\ flusher = "sleeping"
  /\ stopper = "no"
  /\ evidence_failure = FALSE

\* One decision line of a request (Service._log).  evidence_failure refuses no request (D134).
Write ==
  /\ stopper = "no"
  /\ logged < MaxLines
  /\ logged' = logged + 1
  /\ lines' = Append(lines, logged + 1)
  /\ UNCHANGED <<writing, written, file, chunk, job, flusher, stopper, evidence_failure>>

\* Mutant: the lines in the worker's hands are not counted.
HandOverUncounted(w) ==
  /\ lines' = <<>>
  /\ chunk' = [chunk EXCEPT ![w] = lines]
  /\ job' = [job EXCEPT ![w] = "queued"]
  /\ UNCHANGED <<logged, writing, written, file, evidence_failure>>

\* flush() up to its await.
HandOver(w) ==
  /\ lines' = <<>>
  /\ writing' = writing + Len(lines)
  /\ chunk' = [chunk EXCEPT ![w] = lines]
  /\ job' = [job EXCEPT ![w] = "queued"]
  /\ UNCHANGED <<logged, written, file, evidence_failure>>

\* flush() after its await.
Settle(w) ==
  /\ writing' = writing - Len(chunk[w])
  /\ written' = written + Len(chunk[w])
  /\ chunk' = [chunk EXCEPT ![w] = <<>>]
  /\ job' = [job EXCEPT ![w] = "none"]
  /\ UNCHANGED <<logged, lines, file, evidence_failure>>

\* The worker thread: _append, or its failure after some of the lines.
AppendOk(w) ==
  /\ job[w] = "queued"
  /\ file' = file \o chunk[w]
  /\ job' = [job EXCEPT ![w] = "ok"]
  /\ UNCHANGED <<logged, lines, writing, written, chunk, flusher, stopper, evidence_failure>>

AppendFail(w) ==
  /\ job[w] = "queued"
  /\ \E n \in 0 .. Len(chunk[w]) - 1 : file' = file \o SubSeq(chunk[w], 1, n)
  /\ job' = [job EXCEPT ![w] = "failed"]
  /\ UNCHANGED <<logged, lines, writing, written, chunk, flusher, stopper, evidence_failure>>

-----------------------------------------------------------------------------
(* run() *)

FlushBegin ==
  /\ flusher = "sleeping"
  /\ lines # <<>>
  /\ HandOver("run")
  /\ flusher' = "awaiting"
  /\ UNCHANGED stopper

\* Mutant: the task flushes once.
FlushEndOnce ==
  /\ flusher = "awaiting"
  /\ job["run"] = "ok"
  /\ Settle("run")
  /\ flusher' = "cancelled"
  /\ UNCHANGED stopper

FlushEnd ==
  /\ flusher = "awaiting"
  /\ job["run"] = "ok"
  /\ Settle("run")
  /\ flusher' = "sleeping"
  /\ UNCHANGED stopper

\* Mutant: the lines of a failed append leave the count.
FlushFailUncounted ==
  /\ flusher = "awaiting"
  /\ job["run"] = "failed"
  /\ writing' = writing - Len(chunk["run"])
  /\ flusher' = "failed"
  /\ evidence_failure' = TRUE
  /\ UNCHANGED <<logged, lines, written, file, chunk, job, stopper>>

\* The task dies of the append's error, and Service._watch records it.  The lines stay counted.
FlushFail ==
  /\ flusher = "awaiting"
  /\ job["run"] = "failed"
  /\ flusher' = "failed"
  /\ evidence_failure' = TRUE
  /\ UNCHANGED <<logged, lines, writing, written, file, chunk, job, stopper>>

-----------------------------------------------------------------------------
(* Service.stop() *)

\* The task is cancelled at its await.  The append it awaits is dropped if no worker has taken it; else it
\* runs on, and nobody hears of its end.
StopBegin ==
  /\ stopper = "no"
  /\ stopper' = "cancelled"
  /\ flusher' = IF flusher = "failed" THEN "failed" ELSE "cancelled"
  /\ \/ UNCHANGED job
     \/ flusher = "awaiting" /\ job["run"] = "queued" /\ job' = [job EXCEPT !["run"] = "dropped"]
  /\ UNCHANGED <<logged, lines, writing, written, file, chunk, evidence_failure>>

\* Mutant: stop() cancels the task and leaves the lines in memory.
FinalFlushSkipped ==
  /\ stopper = "cancelled"
  /\ stopper' = "stopped"
  /\ UNCHANGED <<logged, lines, writing, written, file, chunk, job, flusher, evidence_failure>>

FinalFlush ==
  /\ stopper = "cancelled"
  /\ IF lines = <<>>
     THEN /\ stopper' = "stopped"
          /\ UNCHANGED <<logged, lines, writing, written, file, chunk, job, evidence_failure>>
     ELSE /\ stopper' = "awaiting"
          /\ HandOver("stop")
  /\ UNCHANGED flusher

FinalEnd ==
  /\ stopper = "awaiting"
  /\ job["stop"] = "ok"
  /\ Settle("stop")
  /\ stopper' = "stopped"
  /\ UNCHANGED flusher

\* stop() records the error and goes on.
FinalFail ==
  /\ stopper = "awaiting"
  /\ job["stop"] = "failed"
  /\ stopper' = "stopped"
  /\ evidence_failure' = TRUE
  /\ UNCHANGED <<logged, lines, writing, written, file, chunk, job, flusher>>

-----------------------------------------------------------------------------

Worker == \E w \in Flushes : AppendOk(w) \/ AppendFail(w)

Flusher == FlushBegin \/ FlushEnd \/ FlushFail

Stopper == StopBegin \/ FinalFlush \/ FinalEnd \/ FinalFail

Next == Write \/ Worker \/ Flusher \/ Stopper

Spec == Init /\ [][Next]_vars

\* The task wakes every flush_s, a worker ends every append it took, and a stop() once begun goes on.
FairSpec ==
  /\ Spec
  /\ WF_vars(Flusher)
  /\ \A w \in Flushes : WF_vars(AppendOk(w) \/ AppendFail(w))
  /\ WF_vars(FinalFlush \/ FinalEnd \/ FinalFail)

-----------------------------------------------------------------------------

LineSeq == Seq(1 .. logged)

TypeOK ==
  /\ logged \in 0 .. MaxLines
  /\ lines \in LineSeq
  /\ writing \in 0 .. logged
  /\ written \in 0 .. logged
  /\ file \in LineSeq
  /\ chunk \in [Flushes -> LineSeq]
  /\ job \in [Flushes -> {"none", "queued", "ok", "failed", "dropped"}]
  /\ flusher \in {"sleeping", "awaiting", "failed", "cancelled"}
  /\ stopper \in {"no", "cancelled", "awaiting", "stopped"}
  /\ evidence_failure \in BOOLEAN

\* "buffered (0: the file holds every line so far)": when the server reports an empty buffer the file holds
\* every line, in the order the server wrote them, whatever appends failed or were cancelled before.  The cell
\* driver cuts a run's window out of the log on this reading.
BufferedZeroIsComplete == Buffered = 0 => file = AllLines

\* "a failed append leaves its lines counted as buffered for good: the file never looks complete."
FailureNeverLooksComplete ==
  (\E w \in Flushes : job[w] = "failed") => Buffered > 0

Quiet == \A w \in Flushes : job[w] # "queued"

\* A server that stopped with no append failed or dropped has every line in its file once, also those written
\* while the last background append was under way.
StoppedHoldsEveryLine ==
  /\ TypeOK
  /\ stopper = "stopped" /\ Quiet /\ (\A w \in Flushes : job[w] \notin {"failed", "dropped"})
       => Range(file) = 1 .. logged /\ Len(file) = logged

\* While the server serves, a line reaches the file unless an append has failed.
LinesReachTheFile ==
  \A n \in 1 .. MaxLines :
    logged >= n ~> (n \in Range(file) \/ flusher = "failed" \/ stopper # "no")

\* "a failure to write the evidence (decision, latency or lag logs) is recorded here": once the server has
\* stopped, no append has failed unrecorded.
FailuresAreRecorded ==
  stopper = "stopped" /\ (\E w \in Flushes : job[w] = "failed") => evidence_failure
=============================================================================
