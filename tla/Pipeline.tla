------------------------------ MODULE Pipeline -----------------------------
(***************************************************************************)
(* The data plane of pycamtrt::Pipeline (pipeline.cpp): one producer       *)
(* thread per camera, the GPU thread, a consumer that polls results and    *)
(* may hold their frames, and a thread that calls Stop().  The three       *)
(* shared structures are the modules Batcher, Nv12Ring and ResultQueue;    *)
(* this module is the code between their calls: ProducerLoop, GpuLoop and  *)
(* StopImpl.  An action is one critical section together with the          *)
(* thread-local code up to the next one.                                   *)
(***************************************************************************)
EXTENDS Naturals, Sequences, FiniteSets

CONSTANTS
  Streams,        \* stream ids, naturals
  Bufs, None,     \* batch buffers, nullptr
  MaxBatch,
  Depth,          \* PipelineConfig::ring_depth
  Dims, NoDims,   \* frame sizes
  Capacity, Modes, Pollers,
  HoldFrames,     \* PipelineConfig::hold_frames
  Skip,           \* resolved skip factor
  MaxFrames,      \* PipelineConfig::max_frames
  MayThrow,       \* whether Ensure, or the code from Acquire to MarkReady, may throw
  MayStop         \* whether the application calls Stop()

ASSUME PipelineAssumption ==
  /\ Streams \subseteq Nat /\ IsFiniteSet(Streams) /\ None \notin Streams
  /\ Bufs # {} /\ IsFiniteSet(Bufs) /\ None \notin Bufs
  /\ MaxBatch \in Nat \ {0} /\ Capacity \in Nat \ {0} /\ Modes \subseteq BOOLEAN
  /\ Depth \in Nat /\ Depth >= 2
  /\ Skip \in Nat \ {0}
  /\ MaxFrames \in Nat \ {0}
  /\ HoldFrames \in BOOLEAN /\ MayThrow \in BOOLEAN /\ MayStop \in BOOLEAN

RingSlots == 0..(Depth - 1)
FrameNos == 1..MaxFrames
NoSlot == Depth            \* m.ring == nullptr, or no frame_hold

\* SlotMeta, and what a FrameResult carries of it: the stream, the frame number
\* and the ring slot it still has to release (or hold).
Metas == [stream : Streams, no : FrameNos, slot : RingSlots \cup {NoSlot}]
Abandoned == [stream |-> None, no |-> 0, slot |-> NoSlot]   \* stream_id = -1

VARIABLES
  filling, free_bufs, pending, active_producers, stopping, allocated, ready,
  prod, held, slot, gpu, taken,                           \* Batcher
  in_use, ptr, dims, mem, rpc, want,                      \* Nv12Ring
  q, dropped, drop_oldest, q_stopping, finished, pusher, pushing, poll,
  pushes, popped, discarded,                              \* ResultQueue
  stop,           \* Impl::stop
  stop_pc,        \* the thread inside StopImpl
  ppc,            \* where each producer stands in ProducerLoop
  decoded, inferred,
  copy,           \* the frame number each ring slot holds a copy of; 0: of none
  meta,           \* BatchBuffer::meta
  gi,             \* slots of its batch the GPU thread's push loop, then its
                  \* release loop, have gone through
  kept,           \* results the consumer holds on to
  shown           \* the last frame number each stream delivered (history)

batcherVars == <<filling, free_bufs, pending, active_producers, stopping,
                 allocated, ready, prod, held, slot, gpu, taken>>
ringVars == <<in_use, ptr, dims, mem, rpc, want>>
queueVars == <<q, dropped, drop_oldest, q_stopping, finished, pusher, pushing,
               poll, pushes, popped, discarded>>
producerVars == <<ppc, decoded, inferred, copy>>
stopVars == <<stop, stop_pc>>
consumerVars == <<kept, shown>>

vars == <<batcherVars, ringVars, queueVars, producerVars, meta, gi,
          stopVars, consumerVars>>

B == INSTANCE Batcher WITH Producers <- Streams
R == INSTANCE Nv12Ring WITH AllocFails <- MayThrow
Q == INSTANCE ResultQueue WITH
       Results <- Metas, NoResult <- Abandoned,
       MaxPushes <- Cardinality(Streams) * MaxFrames

Ppcs == {"loop", "ring", "batch", "preprocess", "refused", "done"}
StopPcs == {"no", "queueStopped", "flagSet", "joining", "complete"}

TypeOK ==
  /\ B!TypeOK /\ R!TypeOK /\ Q!TypeOK
  /\ stop \in BOOLEAN /\ stop_pc \in StopPcs
  /\ ppc \in [Streams -> Ppcs]
  /\ decoded \in [Streams -> 0..MaxFrames]
  /\ inferred \in [Streams -> 0..MaxFrames]
  /\ copy \in [Streams -> [RingSlots -> 0..MaxFrames]]
  /\ meta \in [Bufs -> [0..(MaxBatch - 1) -> Metas \cup {Abandoned}]]
  /\ gi \in 0..(2 * MaxBatch)
  /\ kept \in SUBSET Metas
  /\ shown \in [Streams -> 0..MaxFrames]

Init ==
  /\ B!Init /\ R!Init /\ Q!Init
  /\ stop = FALSE /\ stop_pc = "no"
  /\ ppc = [s \in Streams |-> "loop"]
  /\ decoded = [s \in Streams |-> 0]
  /\ inferred = [s \in Streams |-> 0]
  /\ copy = [s \in Streams |-> [k \in RingSlots |-> 0]]
  /\ meta = [b \in Bufs |-> [i \in 0..(MaxBatch - 1) |-> Abandoned]]
  /\ gi = 0
  /\ kept = {}
  /\ shown = [s \in Streams |-> 0]

-----------------------------------------------------------------------------
(* ProducerLoop *)

Wanted(s) == ~stop /\ decoded[s] < MaxFrames

Inferring(s, n) == (n + s) % Skip = 0

MoveTo(s, place) == ppc' = [ppc EXCEPT ![s] = place]

\* PopFrame delivered a frame; a skipped one goes back to the decoder at once.
Decode(s) ==
  /\ ppc[s] = "loop"
  /\ Wanted(s)
  /\ decoded' = [decoded EXCEPT ![s] = @ + 1]
  /\ IF Inferring(s, decoded[s] + 1) THEN MoveTo(s, "ring") ELSE UNCHANGED ppc
  /\ UNCHANGED <<batcherVars, ringVars, queueVars, inferred, copy, meta, gi,
                 stopVars, consumerVars>>

\* The copies die with the memory that Ensure frees.
ForgetCopies(s) == copy' = [copy EXCEPT ![s] = [k \in RingSlots |-> 0]]

\* ring.Ensure, for a frame of any size the camera may have switched to; when it
\* throws the frame is lost and the camera is opened again.
EnsureRing(s) ==
  /\ ppc[s] = "ring"
  /\ \E d \in Dims :
       \/ (R!EnsureFits(s, d) \/ R!EnsureWait(s, d)) /\ UNCHANGED <<ppc, copy>>
       \/ R!EnsureRealloc(s, d) /\ ForgetCopies(s) /\ UNCHANGED ppc
       \/ R!EnsureFails(s, d) /\ ForgetCopies(s) /\ MoveTo(s, "loop")
  /\ UNCHANGED <<batcherVars, queueVars, decoded, inferred, meta, gi,
                 stopVars, consumerVars>>

\* ring.AcquireSlot(inferred), before any batch slot is claimed.
AcquireRing(s) ==
  /\ ppc[s] = "ring"
  /\ \/ R!AcquireSlotWait(s, inferred[s] % Depth) /\ UNCHANGED ppc
     \/ R!AcquireSlot(s, inferred[s] % Depth) /\ MoveTo(s, "batch")
  /\ UNCHANGED <<batcherVars, queueVars, decoded, inferred, copy, meta, gi,
                 stopVars, consumerVars>>

\* batcher.Acquire.
AcquireBatch(s) ==
  /\ ppc[s] = "batch"
  /\ \/ (B!AcquireSlot(s) \/ B!AcquireRotate(s)) /\ MoveTo(s, "preprocess")
     \/ B!AcquireWait(s) /\ UNCHANGED ppc
     \/ B!AcquireRefused(s) /\ MoveTo(s, "refused")
  /\ UNCHANGED <<ringVars, queueVars, decoded, inferred, copy, meta, gi,
                 stopVars, consumerVars>>

\* Acquire returned nullptr: give the ring slot back, leave every loop.
RefusedKeepsSlot(s) == R!PassOn(s)                              \* mutant

RefusedReleases(s) == R!ReleaseOwn(s)

GiveUpRingSlot(s) ==
  /\ ppc[s] = "refused"
  /\ RefusedReleases(s)
  /\ MoveTo(s, "loop")
  /\ UNCHANGED <<batcherVars, queueVars, decoded, inferred, copy, meta, gi,
                 stopVars, consumerVars>>

WriteMeta(s, m) == meta' = [meta EXCEPT ![held[s]][slot[s]] = m]

MetaOf(s) == [stream |-> s, no |-> decoded[s], slot |-> want[s]]

AbandonNothing(s) == UNCHANGED meta                             \* mutant

Abandon(s) == WriteMeta(s, Abandoned)

\* The copy into the ring slot, whose result nobody looks at: without memory behind
\* the ring (Ensure failed before) the slot holds no frame.
CopyFrame(s) ==
  copy' = [copy EXCEPT ![s][want[s]] = IF mem[s] = NoDims THEN 0 ELSE decoded[s]]

\* Letterbox into the batch slot, copy into the ring slot, fill in the
\* SlotMeta, MarkReady.
Preprocess(s) ==
  /\ ppc[s] = "preprocess"
  /\ CopyFrame(s)
  /\ inferred' = [inferred EXCEPT ![s] = @ + 1]
  /\ WriteMeta(s, MetaOf(s))
  /\ B!MarkReady(s)
  /\ R!PassOn(s)
  /\ MoveTo(s, "loop")
  /\ UNCHANGED <<queueVars, decoded, gi, stopVars, consumerVars>>

\* The catch around it: abandon the batch slot, release the ring slot, mark the
\* slot ready all the same.  The exception may come before or after inferred++.
PreprocessThrows(s) ==
  /\ MayThrow
  /\ ppc[s] = "preprocess"
  /\ \E n \in {inferred[s], inferred[s] + 1} : inferred' = [inferred EXCEPT ![s] = n]
  /\ Abandon(s)
  /\ B!MarkReady(s)
  /\ R!ReleaseOwn(s)
  /\ MoveTo(s, "loop")
  /\ UNCHANGED <<queueVars, decoded, copy, gi, stopVars, consumerVars>>

\* Enough frames, Stop(), the end of a file, or a camera silent for too long.
LeaveLoop(s) ==
  /\ ppc[s] = "loop"
  /\ B!ProducerDone(s)
  /\ MoveTo(s, "done")
  /\ UNCHANGED <<ringVars, queueVars, decoded, inferred, copy, meta, gi,
                 stopVars, consumerVars>>

-----------------------------------------------------------------------------
(* GpuLoop *)

Take ==
  /\ B!TakePending \/ B!TakeClose \/ B!TakeStragglers \/ B!TakeNull \/ B!TakeWait
  /\ UNCHANGED <<ringVars, queueVars, producerVars, meta, gi, stopVars,
                 consumerVars>>

\* The ring slots a set of dying results or metas still owns, per stream.
Owned(ms) == [s \in Streams |-> {m.slot : m \in {x \in ms : x.stream = s}} \ {NoSlot}]

Pushing == gpu = "busy" /\ gi < allocated[taken]

Releasing == gpu = "busy" /\ gi \in allocated[taken]..(2 * allocated[taken] - 1)

BatchMeta == meta[taken][gi]

ResultOf(m) == [m EXCEPT !.slot = IF HoldFrames THEN m.slot ELSE NoSlot]

\* With hold_frames the FrameResult takes the ring slot over from the SlotMeta.
HandOver ==
  meta' = IF pusher = "out" /\ HoldFrames
          THEN [meta EXCEPT ![taken][gi].slot = NoSlot] ELSE meta

SkipAbandoned ==
  /\ Pushing
  /\ BatchMeta.stream = None
  /\ gi' = gi + 1
  /\ UNCHANGED <<batcherVars, ringVars, queueVars, producerVars, meta,
                 stopVars, consumerVars>>

\* queue.Push of this slot's FrameResult.  A result that Stop throws away or that
\* DropOldest evicts dies here, and with it the ring slot it holds.
PushResult ==
  /\ Pushing
  /\ BatchMeta.stream # None
  /\ HandOver
  /\ LET r == IF pusher = "out" THEN ResultOf(BatchMeta) ELSE pushing IN
       \/ Q!PushRoom(r) /\ gi' = gi + 1 /\ UNCHANGED ringVars
       \/ Q!PushWait(r) /\ UNCHANGED <<gi, ringVars>>
       \/ Q!PushEvict(r) /\ gi' = gi + 1 /\ R!ReleaseSlots(Owned({Head(q)}))
       \/ Q!PushDiscard(r) /\ gi' = gi + 1 /\ R!ReleaseSlots(Owned({r}))
  /\ UNCHANGED <<batcherVars, producerVars, stopVars, consumerVars>>

\* Release the ring slots nobody took over, one ReleaseSlot each.
ReleaseRing ==
  /\ Releasing
  /\ LET i == gi - allocated[taken] IN
       /\ R!ReleaseSlots(Owned({meta[taken][i]}))
       /\ meta' = [meta EXCEPT ![taken][i].slot = NoSlot]
  /\ gi' = gi + 1
  /\ UNCHANGED <<batcherVars, queueVars, producerVars, stopVars, consumerVars>>

RecycleBatch ==
  /\ gpu = "busy" /\ gi = 2 * allocated[taken]
  /\ B!Recycle
  /\ gi' = 0
  /\ UNCHANGED <<ringVars, queueVars, producerVars, meta, stopVars, consumerVars>>

LoopEnded == gpu = "exit"

\* Take returned nullptr: join the producers, mark the run finished.
FinishRun ==
  /\ LoopEnded
  /\ \A s \in Streams : ppc[s] = "done"
  /\ Q!MarkFinished
  /\ UNCHANGED <<batcherVars, ringVars, producerVars, meta, gi, stopVars,
                 consumerVars>>

-----------------------------------------------------------------------------
(* Consumer *)

\* Poll; an Ok result is shown and, with hold_frames, kept for a while.  A poll
\* that times out and is repeated is one that keeps waiting, so timeouts are left
\* to the queue's own model.
ConsumerPoll(c) ==
  /\ \/ /\ Q!PollOk(c)
        /\ shown' = [shown EXCEPT ![Head(q).stream] = Head(q).no]
        /\ kept' = IF HoldFrames THEN kept \cup {Head(q)} ELSE kept
     \/ /\ Q!PollFinished(c) \/ Q!PollWait(c)
        /\ UNCHANGED consumerVars
  /\ UNCHANGED <<batcherVars, ringVars, producerVars, meta, gi, stopVars>>

\* The last copy of a held result dies, or ReleaseFrame() is called on it.
ReleaseFrame(r) ==
  /\ r \in kept
  /\ kept' = kept \ {r}
  /\ R!ReleaseSlots(Owned({r}))
  /\ UNCHANGED <<batcherVars, queueVars, producerVars, meta, gi, stopVars, shown>>

-----------------------------------------------------------------------------
(* StopImpl, the caller that runs the sequence *)

StopCalled ==
  /\ MayStop
  /\ stop_pc = "no"
  /\ Q!QueueStop
  /\ stop_pc' = "queueStopped"
  /\ UNCHANGED <<batcherVars, ringVars, producerVars, meta, gi, stop,
                 consumerVars>>

StopFlag ==
  /\ stop_pc = "queueStopped"
  /\ stop' = TRUE
  /\ stop_pc' = "flagSet"
  /\ UNCHANGED <<batcherVars, ringVars, queueVars, producerVars, meta, gi,
                 consumerVars>>

StopBatcher ==
  /\ stop_pc = "flagSet"
  /\ B!SetStopping
  /\ stop_pc' = "joining"
  /\ UNCHANGED <<ringVars, queueVars, producerVars, meta, gi, stop, consumerVars>>

GpuThreadEnded == finished

\* gpu_thread.join() returns once GpuLoop has marked the run finished.
StopJoin ==
  /\ stop_pc = "joining"
  /\ GpuThreadEnded
  /\ stop_pc' = "complete"
  /\ UNCHANGED <<batcherVars, ringVars, queueVars, producerVars, meta, gi,
                 stop, consumerVars>>

-----------------------------------------------------------------------------
ProducerStep(s) ==
  \/ Decode(s) \/ EnsureRing(s) \/ AcquireRing(s) \/ AcquireBatch(s)
  \/ GiveUpRingSlot(s) \/ Preprocess(s) \/ PreprocessThrows(s) \/ LeaveLoop(s)

GpuStep ==
  \/ Take \/ SkipAbandoned \/ PushResult \/ ReleaseRing
  \/ RecycleBatch \/ FinishRun

StopStep == StopFlag \/ StopBatcher \/ StopJoin

ConsumerStep == \E c \in Pollers : ConsumerPoll(c)

Next ==
  \/ \E s \in Streams : ProducerStep(s)
  \/ GpuStep
  \/ ConsumerStep
  \/ \E r \in kept : ReleaseFrame(r)
  \/ StopCalled \/ StopStep

Spec == Init /\ [][Next]_vars

\* Producers, the GPU thread and the stopping thread are scheduled whenever they
\* can run: a camera delivers its frames, or ends, within the read timeout.
SystemFairness ==
  /\ \A s \in Streams : WF_vars(ProducerStep(s))
  /\ WF_vars(GpuStep)
  /\ WF_vars(StopStep)

\* A consumer that keeps polling and lets go of what it was given.
ConsumerFairness ==
  /\ WF_vars(ConsumerStep)
  /\ WF_vars(\E r \in kept : ReleaseFrame(r))

\* Nothing is asked of the consumer: it may stop polling and keep its results.
FairSpec == Spec /\ SystemFairness

-----------------------------------------------------------------------------
(* Safety *)

\* The metas of preprocessed frames a batch buffer holds.
ReadySlots == {bi \in Bufs \X (0..(MaxBatch - 1)) :
                 /\ bi[2] < allocated[bi[1]]
                 /\ \A s \in Streams : held[s] = bi[1] => slot[s] # bi[2]}

MetaAt(bi) == meta[bi[1]][bi[2]]

Refers(m, s, k) == m.stream = s /\ m.slot = k

One(cond) == IF cond THEN 1 ELSE 0

Owners(s, k) ==
    One(rpc[s] = "claimed" /\ want[s] = k)
  + Cardinality({bi \in ReadySlots : Refers(MetaAt(bi), s, k)})
  + Cardinality({i \in DOMAIN q : Refers(q[i], s, k)})
  + One(Refers(pushing, s, k))
  + Cardinality({r \in kept : Refers(r, s, k)})

\* Every ring slot in use has exactly one owner that will release it - the
\* producer filling it, a slot of a batch, a queued, blocked or held result - and
\* a free slot has none: no slot leaks, none is released twice, through stops,
\* evictions and abandoned slots alike.
SlotHasOneOwner ==
  \A s \in Streams : \A k \in RingSlots : Owners(s, k) = One(in_use[s][k])

LiveMetas ==
  {MetaAt(bi) : bi \in ReadySlots} \cup {q[i] : i \in DOMAIN q} \cup {pushing} \cup kept

\* A frame copy is neither overwritten nor freed while something can still read it:
\* the ring slot behind a preprocessed, queued or held frame holds that very frame
\* (the silent wrong-frame crops the refcount was introduced for, and the wait of
\* Ensure before it frees the memory).  Exempt are the frames of a ring whose last
\* allocation failed: Ensure leaves (w, h) at the new size and buf dangling, so the
\* next frame of that size takes the fast path and is copied nowhere.
FrameCopyIntact ==
  \A m \in LiveMetas :
    m.slot # NoSlot => copy[m.stream][m.slot] = m.no \/ mem[m.stream] = NoDims

-----------------------------------------------------------------------------
(* Liveness *)

\* Without hold_frames Stop() returns, whatever the consumer does: with a full
\* queue nobody polls, every ring slot in use and every batch buffer taken.
StopCompletes == stop_pc # "no" ~> stop_pc = "complete"
=============================================================================
