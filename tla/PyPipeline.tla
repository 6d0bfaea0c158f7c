----------------------------- MODULE PyPipeline -----------------------------
(***************************************************************************)
(* The Python object pycamtrt.Pipeline in the hands of several threads:    *)
(* iterating, stopping, fetching frames, and dropping the last reference.  *)
(* Below it works the ResultQueue of the C++ object.  Python code runs     *)
(* under the GIL; start, poll, stop and fetch_frame give it up while they  *)
(* are in C++, the C++ destructor does not, and the GPU thread needs it to *)
(* run the log callback (bindings.cpp).  hold_frames is on: every          *)
(* FrameResult owns a ring slot of the pipeline that made it, until it is  *)
(* destroyed, and the camera's producer sleeps in AcquireSlot when its     *)
(* next frame maps to a slot that is owned.  Every decoded frame is        *)
(* inferred here, so frame n of a camera uses slot n - 1, modulo Depth.    *)
(***************************************************************************)
EXTENDS ResultQueue

CONSTANTS
  Streams,
  Timer,        \* the threading.Timer that calls pipe.stop
  Nobody,
  Depth,        \* PipelineConfig::ring_depth
  MaxLogs       \* bound on the lines the GPU thread logs

ASSUME ThreadsAssumption == Timer \notin Pollers /\ Nobody \notin Pollers \cup {Timer}
ASSUME FramesAssumption == [stream : Streams, no : 1..MaxPushes] \subseteq Results
ASSUME DepthAssumption == Depth \in Nat /\ Depth >= 2   \* Validate() enforces it
ASSUME MaxLogsAssumption == MaxLogs \in Nat

Threads == Pollers \cup {Timer}

VARIABLES
  started,      \* Pipeline._started
  cpp_started,  \* started of the C++ object
  gpu,          \* the GPU thread: unborn, running, logging (wants the GIL) or ended
  logs,         \* lines it has logged
  sent,         \* the newest frame_no of each stream the GPU thread pushed
  asleep,       \* the streams whose producer sleeps in AcquireSlot
  refs,         \* the threads that hold a reference to the Python object
  object,       \* alive; deleting: in __del__; finalized: __del__ is over but a
                \* fetch_frame had revived it; destroying: in the C++ destructor; gone
  collector,    \* the thread in the C++ destructor, which keeps the GIL
  at,           \* where each thread stands
  r,            \* the loop variable r: the Result the thread holds
  newest        \* max_fno of _b3_droptest.py: the newest frame_no a thread has seen

clientVars == <<started, refs, object, collector, at, r, newest>>

coreVars == <<cpp_started, gpu, logs, sent, asleep>>

pyVars == <<qvars, clientVars, coreVars>>

PyInit ==
  /\ Init
  /\ started = FALSE /\ cpp_started = FALSE
  /\ gpu = "unborn" /\ logs = 0
  /\ sent = [s \in Streams |-> 0]
  /\ asleep = {}
  /\ refs = Threads
  /\ object = "alive" /\ collector = Nobody
  /\ at = [t \in Threads |-> IF t = Timer THEN "armed" ELSE "new"]
  /\ r = [t \in Threads |-> NoResult]
  /\ newest = [t \in Pollers |-> [s \in Streams |-> 0]]

GoTo(t, place) == at' = [at EXCEPT ![t] = place]

\* Thread t runs Python code from place p: it needs the GIL.
Runs(t, p) == at[t] = p /\ collector = Nobody

\* Only the place of a thread changes.
Moves(t, place) ==
  GoTo(t, place) /\ UNCHANGED <<qvars, coreVars, started, refs, object, collector, r, newest>>

-----------------------------------------------------------------------------
(* Start and iteration *)

Iter(t) == Runs(t, "new") /\ Moves(t, IF started THEN "next" ELSE "starting")

ExplicitStart(t) == Runs(t, "new") /\ Moves(t, "starting")

\* Raises after a stop and when called twice.
StartCpp(t) ==
  /\ at[t] = "starting"
  /\ IF q_stopping \/ cpp_started
     THEN GoTo(t, "left") /\ UNCHANGED coreVars
     ELSE GoTo(t, "started") /\ cpp_started' = TRUE /\ gpu' = "running"
            /\ UNCHANGED <<logs, sent, asleep>>
  /\ UNCHANGED <<qvars, started, refs, object, collector, r, newest>>

Started(t) ==
  /\ Runs(t, "started")
  /\ started' = TRUE
  /\ GoTo(t, "next")
  /\ UNCHANGED <<qvars, coreVars, refs, object, collector, r, newest>>

NextCalled(t) == Runs(t, "next") /\ Moves(t, "polling")

\* What poll(500) does to the queue, without the GIL, and where it leads __next__.
PollCalled(t) ==
  /\ at[t] = "polling"
  /\ \/ /\ PollOk(t)
        /\ r' = [r EXCEPT ![t] = Head(q)]
        /\ GoTo(t, "ok")
     \/ PollFinished(t) /\ GoTo(t, "over") /\ UNCHANGED r
     \/ PollTimeout(t) /\ GoTo(t, "late") /\ UNCHANGED r
     \/ PollWait(t) /\ UNCHANGED <<at, r>>
  /\ UNCHANGED <<coreVars, started, refs, object, collector, newest>>

TimesOut(t) == at[t] = "polling" /\ Expire(t) /\ UNCHANGED <<clientVars, coreVars>>

\* A Timeout polls again, Finished raises StopIteration.
Again(t) == Runs(t, "late") /\ Moves(t, "next")

StopIteration(t) == Runs(t, "over") /\ Moves(t, "left")

\* The loop body sees a Result.
Shown(t) ==
  /\ Runs(t, "ok")
  /\ newest' = [newest EXCEPT ![t][r[t].stream] = IF r[t].no > @ THEN r[t].no ELSE @]
  /\ GoTo(t, "body")
  /\ UNCHANGED <<qvars, coreVars, started, refs, object, collector, r>>

LoopsAgain(t) == Runs(t, "body") /\ Moves(t, "next")

Breaks(t) == Runs(t, "body") /\ Moves(t, "left")

-----------------------------------------------------------------------------
(* References *)

\* The last reference is gone: __del__ runs, or, when it has run before, the object
\* is freed at once.
Frees(t) ==
  /\ object' = "destroying" /\ collector' = t
  /\ GoTo(t, "destroying")

LastRefFrees(t) == Frees(t)                                     \* mutant

LastRefDeletes(t) ==
  IF object = "finalized" THEN Frees(t)
  ELSE object' = "deleting" /\ GoTo(t, "deleting") /\ UNCHANGED collector

\* Thread t lets go of its reference and goes on at place.
Drops(t, place) ==
  /\ refs' = refs \ {t}
  /\ IF refs = {t} /\ object # "deleting"
     THEN LastRefDeletes(t)
     ELSE GoTo(t, place) /\ UNCHANGED <<object, collector>>

\* Where a thread without a reference stands: it may still have a Result.
Rest(t) == IF r[t] = NoResult THEN "done" ELSE "kept"

DropPipe(t) ==
  /\ at[t] \in {"left", "stopped"} /\ collector = Nobody
  /\ Drops(t, Rest(t))
  /\ UNCHANGED <<qvars, coreVars, started, r, newest>>

\* fetch_frame has a weak reference to the pipeline and takes a strong one for the
\* copy.
BorrowsWeakly(t) == UNCHANGED refs                              \* mutant

Borrows(t) == refs' = refs \cup {t}

FetchInLoop(t) == Runs(t, "body") /\ Moves(t, "fetching")

FetchInLoopDone(t) == Runs(t, "fetching") /\ Moves(t, "body")

\* fetch_frame of a Result kept after the pipeline was dropped; it raises once the
\* object is gone.
FetchKept(t) ==
  /\ Runs(t, "kept")
  /\ IF object = "gone"
     THEN GoTo(t, "done") /\ UNCHANGED refs
     ELSE GoTo(t, "borrowing") /\ Borrows(t)
  /\ UNCHANGED <<qvars, coreVars, started, object, collector, r, newest>>

\* Bound: a thread fetches its kept frame once.
FetchKeptDone(t) ==
  /\ Runs(t, "borrowing")
  /\ r' = [r EXCEPT ![t] = NoResult]
  /\ Drops(t, "done")
  /\ UNCHANGED <<qvars, coreVars, started, newest>>

-----------------------------------------------------------------------------
(* Stop, __del__ and the destructor *)

\* The end of a with block, also after an exception.
ExitStops(t) == t # Timer /\ Runs(t, "left") /\ Moves(t, "stopping")

TimerFires == Runs(Timer, "armed") /\ Moves(Timer, "stopping")

TimerCancelled == Runs(Timer, "armed") /\ Moves(Timer, "left")

\* Stop, called by stop(), by __del__ or by the destructor.
StopCalled(t) ==
  /\ at[t] \in {"stopping", "deleting", "destroying"}
  /\ QueueStop
  /\ UNCHANGED <<clientVars, coreVars>>

Joined == q_stopping /\ gpu \in {"unborn", "ended"}

StopReturns(t) == Runs(t, "stopping") /\ Joined /\ Moves(t, "stopped")

\* __del__ is over: the object is freed unless a fetch_frame took a reference.
DelReturns(t) ==
  /\ Runs(t, "deleting")
  /\ Joined
  /\ IF refs = {} THEN Frees(t)
     ELSE object' = "finalized" /\ GoTo(t, Rest(t)) /\ UNCHANGED collector
  /\ UNCHANGED <<qvars, coreVars, started, refs, r, newest>>

Destroyed(t) ==
  /\ at[t] = "destroying"
  /\ Joined
  /\ object' = "gone" /\ collector' = Nobody
  /\ GoTo(t, Rest(t))
  /\ UNCHANGED <<qvars, coreVars, started, refs, r, newest>>

-----------------------------------------------------------------------------
(* The GPU thread and the producers it waits for *)

\* The results that own a ring slot: queued, in a blocked Push, or in the hands of a
\* thread.
Owners == ({q[i] : i \in DOMAIN q} \cup {pushing} \cup {r[t] : t \in Threads}) \ {NoResult}

SlotOf(n) == (n - 1) % Depth

\* The slot that the next frame of stream s maps to is owned.
NextSlotOwned(s) ==
  \E o \in Owners : o.stream = s /\ SlotOf(o.no) = SlotOf(sent[s] + 1)

\* AcquireSlot for the next frame; it does not look at Stop.
ProducerSleeps(s) ==
  /\ gpu \in {"running", "logging"}
  /\ s \notin asleep
  /\ NextSlotOwned(s)
  /\ asleep' = asleep \cup {s}
  /\ UNCHANGED <<qvars, clientVars, cpp_started, gpu, logs, sent>>

ProducerWakes(s) ==
  /\ s \in asleep
  /\ ~NextSlotOwned(s)
  /\ asleep' = asleep \ {s}
  /\ UNCHANGED <<qvars, clientVars, cpp_started, gpu, logs, sent>>

\* Push of the next frame of a camera whose producer got a ring slot for it.
GpuPushes ==
  /\ gpu = "running"
  /\ \/ pusher = "woken" /\ Push(pushing) /\ UNCHANGED sent
     \/ /\ pusher = "out"
        /\ \E s \in Streams \ asleep :
             /\ ~NextSlotOwned(s)
             /\ sent' = [sent EXCEPT ![s] = @ + 1]
             /\ Push([stream |-> s, no |-> sent[s] + 1])
  /\ UNCHANGED <<clientVars, cpp_started, gpu, logs, asleep>>

GpuWokenSpuriously == SpuriousPusher /\ UNCHANGED <<clientVars, coreVars>>

\* GpuLoop joins the producers before it returns.
GpuEnds ==
  /\ gpu = "running"
  /\ asleep = {}
  /\ MarkFinished
  /\ gpu' = "ended"
  /\ UNCHANGED <<clientVars, cpp_started, logs, sent, asleep>>

GpuLogs ==
  /\ gpu = "running" /\ pusher = "out"
  /\ logs < MaxLogs
  /\ gpu' = "logging" /\ logs' = logs + 1
  /\ UNCHANGED <<qvars, clientVars, cpp_started, sent, asleep>>

\* The callback takes the GIL, runs, and gives it back.
LogCallback ==
  /\ gpu = "logging" /\ collector = Nobody
  /\ gpu' = "running"
  /\ UNCHANGED <<qvars, clientVars, cpp_started, logs, sent, asleep>>

-----------------------------------------------------------------------------
PollerStep(t) ==
  \/ Iter(t) \/ ExplicitStart(t) \/ StartCpp(t) \/ Started(t)
  \/ NextCalled(t) \/ PollCalled(t) \/ TimesOut(t) \/ Again(t) \/ StopIteration(t)
  \/ Shown(t) \/ LoopsAgain(t) \/ Breaks(t)
  \/ FetchInLoop(t) \/ FetchInLoopDone(t) \/ FetchKeptDone(t)

EitherStep(t) ==
  \/ DropPipe(t) \/ ExitStops(t) \/ StopCalled(t) \/ StopReturns(t)
  \/ DelReturns(t) \/ Destroyed(t)

RingStep == \E s \in Streams : ProducerSleeps(s) \/ ProducerWakes(s)

GpuStep == GpuPushes \/ GpuEnds \/ GpuLogs \/ LogCallback

PyNext ==
  \/ \E t \in Pollers : PollerStep(t) \/ FetchKept(t)
  \/ \E t \in Threads : EitherStep(t)
  \/ TimerFires \/ TimerCancelled
  \/ GpuStep \/ GpuWokenSpuriously
  \/ RingStep

PySpec == PyInit /\ [][PyNext]_pyVars

\* The interpreter and the operating system let every thread run.  Nothing makes
\* the timer fire, the GPU thread wake up without a reason, a producer fall asleep,
\* or a thread do anything with the Result it keeps.
PyFairSpec ==
  /\ PySpec
  /\ WF_pyVars(GpuStep)
  /\ \A s \in Streams : WF_pyVars(ProducerWakes(s))
  /\ \A t \in Pollers : WF_pyVars(PollerStep(t))
  /\ \A t \in Threads : WF_pyVars(EitherStep(t))

-----------------------------------------------------------------------------
\* Every thread that iterates over the pipeline sees each camera's frames climb,
\* whatever the queue evicted: the gate no_stale_delivery of _b3_droptest.py, for
\* any number of iterating threads.
NoStaleDelivery ==
  \A t \in Pollers :
    at[t] = "ok" => r[t].no > newest[t][r[t].stream]

\* The copy that fetch_frame makes without the GIL reads a ring that still exists,
\* although a Result holds the pipeline only weakly: no thread's last reference
\* destroys it under the copy.
FetchReadsLiveRing ==
  \A t \in Pollers :
    at[t] \in {"fetching", "borrowing"} => object \notin {"destroying", "gone"}

\* A producer sleeps on a slot that a Result owns.
Starved == \E s \in asleep : NextSlotOwned(s)

\* Once nobody holds the pipeline it is destroyed, in whatever state it was dropped:
\* never started, with the GPU thread asleep in Push or waiting for the GIL in the
\* log callback (the deadlock __del__ guards against), stopped, or revived.  The one
\* exception is a producer that sleeps for ever on the ring slot of a Result that is
\* kept, or queued and never polled: Stop does not wake it, the GPU thread waits for
\* it, and the stop() of __del__ for the GPU thread.
DroppedIsDestroyed == (refs = {}) ~> (object = "gone" \/ []Starved)

\* What result.h says of a held frame: it "stays live, readable, and safe to hand
\* to another CUDA context" until its FrameResult is destroyed or released.  The
\* code frees the rings with the pipeline, under Results that are still kept or
\* queued.
HeldFramesLive ==
  object = "gone" => q = <<>> /\ \A t \in Pollers : r[t] = NoResult
=============================================================================
