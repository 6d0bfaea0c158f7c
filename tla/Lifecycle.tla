----------------------------- MODULE Lifecycle -----------------------------
(***************************************************************************)
(* Start(), Stop() and the destructor of Pipeline (pipeline.cpp), with the *)
(* threads they spawn and join: the GPU thread, which joins the producers  *)
(* itself and stands for them here, and the thread of one Events sink.     *)
(* Stop() is called by several threads at once, each running StopImpl.     *)
(***************************************************************************)
EXTENDS EventsSink

CONSTANTS
  Callers,          \* application threads that may call Stop()
  Destructor        \* the thread that runs ~Impl, as one more caller of StopImpl

ASSUME LifecycleAssumption == IsFiniteSet(Callers) /\ Destructor \notin Callers

Stoppers == Callers \cup {Destructor}

VARIABLES
  stop_requested, stop_seq_started, stop_seq_complete, started, stop,
  start_pc,         \* the thread inside Start() (see StartPcs)
  start_calls,      \* how often Start() was called
  stop_pc,          \* every caller inside StopImpl (see StopPcs)
  gpu,              \* the GPU thread: unborn, running or ended
  joined,           \* the threads that were joined
  raced             \* Start() and Stop() ran at the same time (history)

lifeVars == <<stop_requested, stop_seq_started, stop_seq_complete, started,
              stop, start_pc, start_calls, stop_pc, gpu, joined, raced>>

allVars == <<sinkVars, lifeVars>>

MaxStarts == 2

StartPcs == {"out", "checked", "started", "gpuSpawned"}

\* out: not called; called: about to decide who runs the sequence; waiting: asleep
\* on stop_seq_cv; the steps of the one caller that runs the sequence; returned;
\* for the destructor, freed: Teardown() and the members' destructors have run.
StopPcs == {"out", "called", "waiting", "queue", "sinkFlag", "sinkQueue",
            "flag", "joinGpu", "joinSink", "complete", "returned", "freed"}

TypeOK ==
  /\ SinkTypeOK
  /\ {stop_requested, stop_seq_started, stop_seq_complete, started, stop}
       \subseteq BOOLEAN
  /\ start_pc \in StartPcs /\ start_calls \in 0..MaxStarts
  /\ stop_pc \in [Stoppers -> StopPcs]
  /\ gpu \in {"unborn", "running", "ended"}
  /\ joined \subseteq {"gpu", "sink"} /\ raced \in BOOLEAN

Init ==
  /\ SinkInit
  /\ stop_requested = FALSE /\ stop_seq_started = FALSE
  /\ stop_seq_complete = FALSE /\ started = FALSE /\ stop = FALSE
  /\ start_pc = "out" /\ start_calls = 0
  /\ stop_pc = [c \in Stoppers |-> "out"]
  /\ gpu = "unborn"
  /\ joined = {} /\ raced = FALSE

-----------------------------------------------------------------------------
(* Start *)

InStop(c) == stop_pc[c] \notin {"out", "returned", "freed"}

NoStopRunning == \A c \in Stoppers : ~InStop(c)

\* The destructor runs when no other call is or will be in progress.
Alive == stop_pc[Destructor] = "out"

\* Throws after a Stop(), leaving everything as it is.
StartCalled ==
  /\ Alive
  /\ start_pc = "out" /\ start_calls < MaxStarts
  /\ raced' = (raced \/ ~NoStopRunning)
  /\ start_calls' = start_calls + 1
  /\ start_pc' = IF ~stop_requested THEN "checked" ELSE "out"
  /\ UNCHANGED <<sinkVars, stop_requested, stop_seq_started, stop_seq_complete,
                 started, stop, stop_pc, gpu, joined>>

\* started.exchange(true): throws when Start() was called before.
StartOnce ==
  /\ start_pc = "checked"
  /\ started' = TRUE
  /\ start_pc' = IF started THEN "out" ELSE "started"
  /\ UNCHANGED <<sinkVars, stop_requested, stop_seq_started, stop_seq_complete,
                 stop, start_calls, stop_pc, gpu, joined, raced>>

\* The producers, then the GPU thread.
SpawnGpu ==
  /\ start_pc = "started"
  /\ gpu' = "running"
  /\ start_pc' = "gpuSpawned"
  /\ UNCHANGED <<sinkVars, stop_requested, stop_seq_started, stop_seq_complete,
                 started, stop, start_calls, stop_pc, joined, raced>>

SpawnSink ==
  /\ start_pc = "gpuSpawned"
  /\ spc' = "loop"
  /\ start_pc' = "out"
  /\ UNCHANGED <<queueLines, sink_stopping, connected, line, written, failed>>
  /\ UNCHANGED <<stop_requested, stop_seq_started, stop_seq_complete, started,
                 stop, start_calls, stop_pc, gpu, joined, raced>>

-----------------------------------------------------------------------------
(* The threads *)

\* GpuLoop formats a line for the sink with every result it pushes.
GpuFormats == gpu = "running" /\ FormatLine /\ UNCHANGED lifeVars

\* It ends when all cameras have ended, or, after Stop(), once it has drained.
GpuEnds ==
  /\ gpu = "running"
  /\ gpu' = "ended"
  /\ UNCHANGED <<sinkVars, stop_requested, stop_seq_started, stop_seq_complete,
                 started, stop, start_pc, start_calls, stop_pc, joined, raced>>

SinkRuns == SinkStep /\ UNCHANGED lifeVars

-----------------------------------------------------------------------------
(* StopImpl *)

StopGoTo(c, place) == stop_pc' = [stop_pc EXCEPT ![c] = place]

\* Every call of StopImpl, the destructor's included, first sets stop_requested.
StopCalled(c) ==
  /\ Alive
  /\ ~InStop(c) /\ stop_pc[c] # "freed"
  /\ raced' = (raced \/ start_pc # "out")
  /\ c = Destructor => start_pc = "out" /\ NoStopRunning
  /\ stop_requested' = TRUE
  /\ StopGoTo(c, "called")
  /\ UNCHANGED <<sinkVars, stop_seq_started, stop_seq_complete, started, stop,
                 start_pc, start_calls, gpu, joined>>

LoserReturns(c) == StopGoTo(c, "returned")                      \* mutant

LoserWaits(c) == StopGoTo(c, IF stop_seq_complete THEN "returned" ELSE "waiting")

\* stop_seq_started.exchange(true): one caller runs the sequence, the others wait.
StopElect(c) ==
  /\ stop_pc[c] = "called"
  /\ stop_seq_started' = TRUE
  /\ IF stop_seq_started THEN LoserWaits(c) ELSE StopGoTo(c, "queue")
  /\ UNCHANGED <<sinkVars, stop_requested, stop_seq_complete, started, stop,
                 start_pc, start_calls, gpu, joined, raced>>

\* (a) queue.Stop(): nothing of this module depends on the result queue.
StopQueue(c) ==
  /\ stop_pc[c] = "queue"
  /\ StopGoTo(c, "sinkFlag")
  /\ UNCHANGED <<sinkVars, stop_requested, stop_seq_started, stop_seq_complete,
                 started, stop, start_pc, start_calls, gpu, joined, raced>>

\* (a2) the sink's flag, then its LineQueue.
StopSinkFlag(c) ==
  /\ stop_pc[c] = "sinkFlag"
  /\ sink_stopping' = TRUE
  /\ StopGoTo(c, "sinkQueue")
  /\ UNCHANGED <<queueLines, sinkState>>
  /\ UNCHANGED <<stop_requested, stop_seq_started, stop_seq_complete, started,
                 stop, start_pc, start_calls, gpu, joined, raced>>

StopSinkQueue(c) ==
  /\ stop_pc[c] = "sinkQueue"
  /\ lines_stopping' = TRUE
  /\ StopGoTo(c, "flag")
  /\ UNCHANGED <<lines, line_dropped, pushed, ignored, sink_stopping, sinkState>>
  /\ UNCHANGED <<stop_requested, stop_seq_started, stop_seq_complete, started,
                 stop, start_pc, start_calls, gpu, joined, raced>>

\* (b) producers and batcher are told to stop.
StopFlag(c) ==
  /\ stop_pc[c] = "flag"
  /\ stop' = TRUE
  /\ StopGoTo(c, "joinGpu")
  /\ UNCHANGED <<sinkVars, stop_requested, stop_seq_started, stop_seq_complete,
                 started, start_pc, start_calls, gpu, joined, raced>>

\* (d) join the GPU thread, if there is one to join.
StopJoinGpu(c) ==
  /\ stop_pc[c] = "joinGpu"
  /\ IF started /\ gpu # "unborn" /\ "gpu" \notin joined
     THEN gpu = "ended" /\ joined' = joined \cup {"gpu"}
     ELSE UNCHANGED joined
  /\ StopGoTo(c, "joinSink")
  /\ UNCHANGED <<sinkVars, stop_requested, stop_seq_started, stop_seq_complete,
                 started, stop, start_pc, start_calls, gpu, raced>>

JoinsSink(c) ==
  IF spc # "unborn" /\ "sink" \notin joined
  THEN spc = "done" /\ joined' = joined \cup {"sink"}
  ELSE UNCHANGED joined

\* (d2) and the sink's.
StopJoinSink(c) ==
  /\ stop_pc[c] = "joinSink"
  /\ JoinsSink(c)
  /\ StopGoTo(c, "complete")
  /\ UNCHANGED <<sinkVars, stop_requested, stop_seq_started, stop_seq_complete,
                 started, stop, start_pc, start_calls, gpu, raced>>

CompleteSilently(c) == StopGoTo(c, "returned")                  \* mutant

\* stop_seq_complete and notify_all on stop_seq_cv: everyone returns.
CompleteAndNotify(c) ==
  stop_pc' = [d \in Stoppers |->
                IF d = c \/ stop_pc[d] = "waiting" THEN "returned" ELSE stop_pc[d]]

StopComplete(c) ==
  /\ stop_pc[c] = "complete"
  /\ stop_seq_complete' = TRUE
  /\ CompleteAndNotify(c)
  /\ UNCHANGED <<sinkVars, stop_requested, stop_seq_started, started, stop,
                 start_pc, start_calls, gpu, joined, raced>>

\* ~Impl after its StopImpl(): Teardown(), then the members, std::threads included.
Destroy ==
  /\ stop_pc[Destructor] = "returned"
  /\ StopGoTo(Destructor, "freed")
  /\ UNCHANGED <<sinkVars, stop_requested, stop_seq_started, stop_seq_complete,
                 started, stop, start_pc, start_calls, gpu, joined, raced>>

-----------------------------------------------------------------------------
StartStep == StartOnce \/ SpawnGpu \/ SpawnSink

StopStep(c) ==
  \/ StopElect(c) \/ StopQueue(c) \/ StopSinkFlag(c) \/ StopSinkQueue(c)
  \/ StopFlag(c) \/ StopJoinGpu(c) \/ StopJoinSink(c) \/ StopComplete(c)

Next ==
  \/ StartCalled \/ StartStep
  \/ GpuFormats \/ GpuEnds \/ SinkRuns
  \/ \E c \in Stoppers : StopCalled(c) \/ StopStep(c)
  \/ Destroy

Spec == Init /\ [][Next]_allVars

\* A thread inside Start() or Stop() keeps running, the sink's calls into the
\* network return, and the GPU thread ends once told to stop (StopCompletes of
\* Pipeline); nobody is obliged to call anything.
Fairness ==
  /\ WF_allVars(StartStep)
  /\ \A c \in Stoppers : WF_allVars(StopStep(c))
  /\ WF_allVars(SinkRuns)
  /\ WF_allVars(stop /\ GpuEnds)

FairSpec == Spec /\ Fairness

-----------------------------------------------------------------------------
Joinable ==
  {t \in {"gpu", "sink"} :
     /\ t \notin joined
     /\ IF t = "gpu" THEN gpu # "unborn" ELSE spc # "unborn"}

\* pipeline.h: a caller that gets Stop() back, the one that ran the sequence or
\* one that lost the race to it, finds every thread gone and joined; Stop() before
\* Start() included, since no Start() succeeds after it.  So no joinable
\* std::thread is destroyed, which would terminate the program.  The exception is
\* a Stop() that overlaps Start(): it does not join threads that are not there yet.
StopReturnsQuiet ==
  ~raced /\ (\E c \in Stoppers : stop_pc[c] \in {"returned", "freed"})
    => gpu # "running" /\ spc \in {"unborn", "done"} /\ Joinable = {}

\* Every Stop() returns, whoever else called it and whether or not Start() was,
\* provided the GPU thread ends (Pipeline checks when) and a sink's connects and
\* writes return.
EveryStopReturns == \A c \in Stoppers : InStop(c) ~> ~InStop(c)
=============================================================================
