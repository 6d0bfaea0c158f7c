----------------------------- MODULE EventsSink ----------------------------
(***************************************************************************)
(* An Events sink (pipeline.cpp): the bounded LineQueue into which the GPU *)
(* thread pushes one line per result, and EventsSinkLoop, the thread that  *)
(* connects to the target, pops the lines and writes them.  A line is its  *)
(* number in push order.  The three targets (tcp, file, stdout) differ     *)
(* only in which of their connects and writes can fail.  InterruptibleSleep*)
(* and Pop's wait are bounded by a timeout: they return at any time.       *)
(***************************************************************************)
EXTENDS Integers, Sequences, FiniteSets

CONSTANTS
  LineCapacity,     \* LineQueue::kCapacity
  MaxLines          \* bound: lines the GPU thread formats

ASSUME EventsSinkAssumption == LineCapacity \in Nat \ {0} /\ MaxLines \in Nat

VARIABLES
  lines,            \* LineQueue::q_
  line_dropped,     \* LineQueue::dropped_
  lines_stopping,   \* LineQueue::stopping_
  sink_stopping,    \* EventsSink::stopping
  spc,              \* where EventsSinkLoop stands (see SinkPcs)
  connected,        \* is_connected()
  line,             \* the line popped last, or 0
  pushed, ignored,  \* lines formatted, and those of them refused after Stop
  written, failed   \* lines written, lines whose write failed (history)

queueLines == <<lines, line_dropped, lines_stopping, pushed, ignored>>
sinkState == <<spc, connected, line, written, failed>>
sinkVars == <<queueLines, sink_stopping, sinkState>>

\* unborn: not spawned; loop: at the loop's condition; connect: in try_connect;
\* backoff: in InterruptibleSleep; pop: in LineQueue::Pop; write; done: returned.
SinkPcs == {"unborn", "loop", "connect", "backoff", "pop", "write", "done"}

SinkTypeOK ==
  /\ lines \in Seq(1..MaxLines) /\ Len(lines) <= LineCapacity
  /\ {line_dropped, pushed, ignored, written, failed} \subseteq 0..MaxLines
  /\ {lines_stopping, sink_stopping, connected} \subseteq BOOLEAN
  /\ spc \in SinkPcs
  /\ line \in 0..MaxLines

SinkInit ==
  /\ lines = <<>> /\ line_dropped = 0 /\ lines_stopping = FALSE
  /\ sink_stopping = FALSE
  /\ spc = "unborn" /\ connected = FALSE /\ line = 0
  /\ pushed = 0 /\ ignored = 0 /\ written = 0 /\ failed = 0

-----------------------------------------------------------------------------
(* LineQueue *)

LinesFull == Len(lines) >= LineCapacity

PushLineUncounted(n) ==                                         \* mutant
  /\ lines' = IF LinesFull THEN Append(Tail(lines), n) ELSE Append(lines, n)
  /\ UNCHANGED line_dropped

\* A full queue evicts its oldest line and counts it.
PushLine(n) ==
  IF LinesFull
  THEN lines' = Append(Tail(lines), n) /\ line_dropped' = line_dropped + 1
  ELSE lines' = Append(lines, n) /\ UNCHANGED line_dropped

\* LineQueue::Push, called by the GPU thread for one result.
FormatLine ==
  /\ pushed < MaxLines
  /\ pushed' = pushed + 1
  /\ IF lines_stopping
     THEN ignored' = ignored + 1 /\ UNCHANGED <<lines, line_dropped>>
     ELSE PushLine(pushed + 1) /\ UNCHANGED ignored
  /\ UNCHANGED <<lines_stopping, sink_stopping, sinkState>>

-----------------------------------------------------------------------------
(* EventsSinkLoop *)

SinkUnchanged == UNCHANGED <<lines_stopping, sink_stopping, pushed, ignored>>

\* The loop's condition; on the way out close_conn().
SinkLoop ==
  /\ spc = "loop"
  /\ IF sink_stopping THEN spc' = "done" /\ connected' = FALSE
     ELSE spc' = (IF connected THEN "pop" ELSE "connect") /\ UNCHANGED connected
  /\ SinkUnchanged
  /\ UNCHANGED <<lines, line_dropped, line, written, failed>>

SinkConnect ==
  /\ spc = "connect"
  /\ \/ connected' = TRUE /\ spc' = "pop"
     \/ UNCHANGED connected /\ spc' = "backoff"
  /\ SinkUnchanged
  /\ UNCHANGED <<lines, line_dropped, line, written, failed>>

AfterBackoff == "loop"

SinkBackoff ==
  /\ spc = "backoff"
  /\ spc' = AfterBackoff
  /\ SinkUnchanged
  /\ UNCHANGED <<lines, line_dropped, connected, line, written, failed>>

\* Pop returns a line when there is one, stopping or not; else it times out, or
\* finds the queue stopped, and the loop's condition is checked again.
SinkPop ==
  /\ spc = "pop"
  /\ IF lines # <<>>
     THEN line' = Head(lines) /\ lines' = Tail(lines) /\ spc' = "write"
     ELSE spc' = "loop" /\ UNCHANGED <<lines, line>>
  /\ SinkUnchanged
  /\ UNCHANGED <<line_dropped, connected, written, failed>>

SinkWriteOk ==
  /\ spc = "write"
  /\ written' = written + 1
  /\ line' = 0
  /\ spc' = "loop"
  /\ SinkUnchanged
  /\ UNCHANGED <<lines, line_dropped, connected, failed>>

FailedLineLost == failed' = failed + 1 /\ UNCHANGED lines

\* Close the connection (stdout stays open); the line popped is not kept.
SinkWriteFails ==
  /\ spc = "write"
  /\ FailedLineLost
  /\ line' = 0
  /\ connected' \in BOOLEAN
  /\ spc' = "loop"
  /\ SinkUnchanged
  /\ UNCHANGED <<line_dropped, written>>

SinkStep ==
  \/ SinkLoop \/ SinkConnect \/ SinkBackoff \/ SinkPop
  \/ SinkWriteOk \/ SinkWriteFails

-----------------------------------------------------------------------------
\* The lines in the queue once the thread has returned: nobody pops them any more.
LostTail == IF spc = "done" THEN Len(lines) ELSE 0

Queued == Len(lines) - LostTail

InHand == IF line # 0 THEN 1 ELSE 0

LinesCounted ==
  pushed = written + failed + line_dropped + ignored + InHand + Queued + LostTail

LinesInOrder ==
  /\ \A i \in DOMAIN lines : lines[i] = pushed - ignored - Len(lines) + i
  /\ line # 0 => line + Len(lines) <= pushed - ignored

\* Every line formatted is written, in hand, queued, evicted and counted by
\* SinkDropped(), refused after Stop, lost with the connection its write failed on,
\* or in the queue when the thread leaves its loop: the loop checks `stopping`
\* before it pops, so a stop loses that tail and no counter tells (Pop's comment
\* says a shutdown flushes it).  The counter misses no eviction, and eviction takes
\* the oldest: what is queued are the newest lines accepted, in order, without a
\* gap, and the line in hand is older than all of them.
LinesAccounted == LinesCounted /\ LinesInOrder
=============================================================================
