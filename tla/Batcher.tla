------------------------------ MODULE Batcher ------------------------------
(***************************************************************************)
(* The batch assembler between the per-camera producer threads and the one *)
(* GPU thread (struct Batcher, pipeline.cpp).  One mutex, two condition    *)
(* variables: producers sleep on cv_space, the GPU thread on cv_ready.     *)
(* Every critical section is one action, so an action may stand for the    *)
(* whole of a call or for the part of it between two waits; who is asleep  *)
(* and who was notified is part of the state, so that a wake-up the code   *)
(* forgets is a reachable state here.  free_bufs is a set: the buffers are *)
(* interchangeable, which one the stack hands out is not told apart.       *)
(***************************************************************************)
EXTENDS Naturals, Sequences, FiniteSets

CONSTANTS
  Producers,    \* producer threads, one per stream
  Bufs,         \* the batch buffers buf[0 .. kNumBufs-1]
  MaxBatch,     \* max_batch, slots per buffer
  None          \* nullptr

ASSUME ProducersAssumption == IsFiniteSet(Producers)
ASSUME BufsAssumption == Bufs # {} /\ IsFiniteSet(Bufs) /\ None \notin Bufs
ASSUME MaxBatchAssumption == MaxBatch \in Nat \ {0}

VARIABLES
  filling,            \* producers' current target, or None
  free_bufs,          \* recycled, empty buffers
  pending,            \* full buffers, FIFO for the GPU thread
  active_producers,
  stopping,
  allocated, ready,   \* the two counters of every BatchBuffer
  prod,               \* where each producer stands (see ProdStates)
  held,               \* the buffer whose slot a producer is writing, or None
  slot,               \* the slot it writes, 0-based
  gpu,                \* where the GPU thread stands (see GpuStates)
  taken               \* the buffer Take() is closing or has returned

bvars == <<filling, free_bufs, pending, active_producers, stopping, allocated,
           ready, prod, held, slot, gpu, taken>>

\* out: not inside Acquire; space: asleep on cv_space; woken: notified, not yet
\* back in the loop; writing: owns an un-ready slot; refused: Acquire returned
\* nullptr; done: ProducerDone was called.
ProdStates == {"out", "space", "woken", "writing", "refused", "done"}

\* take: about to run Take's loop body; asleep: the wait at its end;
\* straggling: asleep waiting for the closed buffer's last slots; recheck:
\* notified in that wait; busy: Take returned a buffer; exit: it returned nullptr.
GpuStates == {"take", "asleep", "straggling", "recheck", "busy", "exit"}

BufOrNone == Bufs \cup {None}

TypeOK ==
  /\ filling \in BufOrNone
  /\ free_bufs \in SUBSET Bufs
  /\ pending \in Seq(Bufs)
  /\ active_producers \in 0..Cardinality(Producers)
  /\ stopping \in BOOLEAN
  /\ allocated \in [Bufs -> 0..MaxBatch]
  /\ ready \in [Bufs -> 0..MaxBatch]
  /\ prod \in [Producers -> ProdStates]
  /\ held \in [Producers -> BufOrNone]
  /\ slot \in [Producers -> 0..(MaxBatch - 1)]
  /\ gpu \in GpuStates
  /\ taken \in BufOrNone

Init ==
  /\ filling \in Bufs
  /\ free_bufs = Bufs \ {filling}
  /\ pending = <<>>
  /\ active_producers = Cardinality(Producers)
  /\ stopping = FALSE
  /\ allocated = [b \in Bufs |-> 0]
  /\ ready = [b \in Bufs |-> 0]
  /\ prod = [p \in Producers |-> "out"]
  /\ held = [p \in Producers |-> None]
  /\ slot = [p \in Producers |-> 0]
  /\ gpu = "take"
  /\ taken = None

-----------------------------------------------------------------------------
(* Notifications.  Only the GPU thread ever waits on cv_ready, so           *)
(* notify_one and notify_all wake the same thread there.                    *)

Notified(g) ==
  CASE g = "asleep"     -> "take"
    [] g = "straggling" -> "recheck"
    [] OTHER            -> g

NotifySpace(p) == IF prod[p] = "space" THEN "woken" ELSE prod[p]

WakeProducers == prod' = [p \in Producers |-> NotifySpace(p)]

-----------------------------------------------------------------------------
(* Producer side *)

HasRoom(b) == b # None /\ allocated[b] < MaxBatch

\* The producer calls Acquire, or comes back to its loop after a wake-up.
InAcquire(p) == prod[p] \in {"out", "woken"}

ClaimAfterReady(p, b, n) ==
  /\ allocated' = [allocated EXCEPT ![b] = n + 1]
  /\ prod' = [prod EXCEPT ![p] = "writing"]
  /\ held' = [held EXCEPT ![p] = b]
  /\ slot' = [slot EXCEPT ![p] = ready[b]]

\* Slot `allocated` of buffer b goes to p.
Claim(p, b, n) ==
  /\ allocated' = [allocated EXCEPT ![b] = n + 1]
  /\ prod' = [prod EXCEPT ![p] = "writing"]
  /\ held' = [held EXCEPT ![p] = b]
  /\ slot' = [slot EXCEPT ![p] = n]

AcquireRefused(p) ==
  /\ InAcquire(p)
  /\ stopping
  /\ prod' = [prod EXCEPT ![p] = "refused"]
  /\ UNCHANGED <<filling, free_bufs, pending, active_producers, stopping,
                 allocated, ready, held, slot, gpu, taken>>

AcquireSlot(p) ==
  /\ InAcquire(p)
  /\ ~stopping
  /\ HasRoom(filling)
  /\ Claim(p, filling, allocated[filling])
  /\ UNCHANGED <<filling, free_bufs, pending, active_producers, stopping,
                 ready, gpu, taken>>

\* The filling buffer is full: queue it for the GPU thread.
QueueFull ==
  IF filling # None
  THEN pending' = Append(pending, filling) /\ gpu' = Notified(gpu)
  ELSE UNCHANGED <<pending, gpu>>

AcquireRotate(p) ==
  /\ InAcquire(p)
  /\ ~stopping
  /\ ~HasRoom(filling)
  /\ QueueFull
  /\ \E b \in free_bufs :
       /\ filling' = b
       /\ free_bufs' = free_bufs \ {b}
       /\ Claim(p, b, allocated[b])
  /\ UNCHANGED <<active_producers, stopping, ready, taken>>

AcquireWait(p) ==
  /\ InAcquire(p)
  /\ ~stopping
  /\ ~HasRoom(filling)
  /\ QueueFull
  /\ free_bufs = {}
  /\ filling' = None
  /\ prod' = [prod EXCEPT ![p] = "space"]
  /\ UNCHANGED <<free_bufs, active_producers, stopping, allocated, ready,
                 held, slot, taken>>

\* cv_space.wait may return without a notification.
SpuriousSpace(p) ==
  /\ prod[p] = "space"
  /\ prod' = [prod EXCEPT ![p] = "woken"]
  /\ UNCHANGED <<filling, free_bufs, pending, active_producers, stopping,
                 allocated, ready, held, slot, gpu, taken>>

WakesGpuOnFirst(b) == ready[b] = 0                             \* mutant

WakesGpu(b) == ready[b] + 1 = 1 \/ ready[b] + 1 = allocated[b]

MarkReady(p) ==
  /\ prod[p] = "writing"
  /\ ready' = [ready EXCEPT ![held[p]] = @ + 1]
  /\ gpu' = IF WakesGpu(held[p]) THEN Notified(gpu) ELSE gpu
  /\ prod' = [prod EXCEPT ![p] = "out"]
  /\ held' = [held EXCEPT ![p] = None]
  /\ slot' = [slot EXCEPT ![p] = 0]
  /\ UNCHANGED <<filling, free_bufs, pending, active_producers, stopping,
                 allocated, taken>>

WakesGpuWhenLast == active_producers = 1

ProducerDone(p) ==
  /\ prod[p] \in {"out", "refused"}
  /\ prod' = [prod EXCEPT ![p] = "done"]
  /\ active_producers' = active_producers - 1
  /\ gpu' = IF WakesGpuWhenLast THEN Notified(gpu) ELSE gpu
  /\ UNCHANGED <<filling, free_bufs, pending, stopping, allocated, ready,
                 held, slot, taken>>

-----------------------------------------------------------------------------
(* GPU side *)

HasReady(b) == ready[b] > 0                                    \* mutant

Complete(b) == ready[b] = allocated[b]

CanTakePending == pending # <<>> /\ Complete(Head(pending))

CanOvertake == filling # None /\ ready[filling] > 0 /\ ~CanTakePending

CanClose == pending = <<>> /\ filling # None /\ ready[filling] > 0

DrainedOrStopped ==                                             \* mutant
  /\ pending = <<>>
  /\ ~CanClose
  /\ active_producers = 0 \/ stopping

Drained ==
  /\ pending = <<>>
  /\ ~CanClose
  /\ active_producers = 0
  /\ filling # None => allocated[filling] = 0

TakePendingKeepsIt ==                                           \* mutant
  /\ gpu = "take"
  /\ CanTakePending
  /\ taken' = Head(pending)
  /\ gpu' = "busy"
  /\ UNCHANGED <<filling, free_bufs, pending, active_producers, stopping,
                 allocated, ready, prod, held, slot>>

TakePending ==
  /\ gpu = "take"
  /\ CanTakePending
  /\ taken' = Head(pending)
  /\ pending' = Tail(pending)
  /\ gpu' = "busy"
  /\ UNCHANGED <<filling, free_bufs, active_producers, stopping, allocated,
                 ready, prod, held, slot>>

TakeClose ==
  /\ gpu = "take"
  /\ CanClose
  /\ taken' = filling
  /\ filling' = None
  /\ gpu' = IF Complete(filling) THEN "busy" ELSE "straggling"
  /\ WakeProducers
  /\ UNCHANGED <<free_bufs, pending, active_producers, stopping, allocated,
                 ready, held, slot>>

TakeStragglers ==
  /\ gpu = "recheck"
  /\ gpu' = IF Complete(taken) THEN "busy" ELSE "straggling"
  /\ UNCHANGED <<filling, free_bufs, pending, active_producers, stopping,
                 allocated, ready, prod, held, slot, taken>>

TakeNull ==
  /\ gpu = "take"
  /\ Drained
  /\ gpu' = "exit"
  /\ UNCHANGED <<filling, free_bufs, pending, active_producers, stopping,
                 allocated, ready, prod, held, slot, taken>>

TakeWait ==
  /\ gpu = "take"
  /\ ~CanTakePending
  /\ ~CanClose
  /\ ~Drained
  /\ gpu' = "asleep"
  /\ UNCHANGED <<filling, free_bufs, pending, active_producers, stopping,
                 allocated, ready, prod, held, slot, taken>>

SpuriousReady ==
  /\ gpu \in {"asleep", "straggling"}
  /\ gpu' = Notified(gpu)
  /\ UNCHANGED <<filling, free_bufs, pending, active_producers, stopping,
                 allocated, ready, prod, held, slot, taken>>

ResetCounters ==
  /\ allocated' = [allocated EXCEPT ![taken] = 0]
  /\ ready' = [ready EXCEPT ![taken] = 0]

Recycle ==
  /\ gpu = "busy"
  /\ ResetCounters
  /\ free_bufs' = free_bufs \cup {taken}
  /\ WakeProducers
  /\ gpu' = "take"
  /\ taken' = None
  /\ UNCHANGED <<filling, pending, active_producers, stopping, held, slot>>

-----------------------------------------------------------------------------
(* Pipeline::Stop *)

SetStopping ==
  /\ ~stopping
  /\ stopping' = TRUE
  /\ WakeProducers
  /\ gpu' = Notified(gpu)
  /\ UNCHANGED <<filling, free_bufs, pending, active_producers, allocated,
                 ready, held, slot, taken>>

-----------------------------------------------------------------------------
ProducerStep(p) ==
  \/ AcquireRefused(p)
  \/ AcquireSlot(p)
  \/ AcquireRotate(p)
  \/ AcquireWait(p)
  \/ MarkReady(p)
  \/ ProducerDone(p)

GpuStep ==
  \/ TakePending
  \/ TakeClose
  \/ TakeStragglers
  \/ TakeNull
  \/ TakeWait
  \/ Recycle

Spurious == SpuriousReady \/ \E p \in Producers : SpuriousSpace(p)

Next ==
  \/ \E p \in Producers : ProducerStep(p)
  \/ GpuStep
  \/ SetStopping
  \/ Spurious

Spec == Init /\ [][Next]_bvars

-----------------------------------------------------------------------------
(* Safety *)

Writers(b) == {p \in Producers : held[p] = b}

\* What each place a thread or a buffer can be in says about the others: a
\* producer writes iff it holds a buffer, and never a free one; free buffers are
\* empty, queued ones full; the GPU thread has a buffer exactly while it waits for
\* its stragglers or works on it; the counter of producers is theirs.
Bookkeeping ==
  /\ \A p \in Producers : prod[p] = "writing" <=> held[p] # None
  /\ \A p \in Producers : held[p] \notin free_bufs
  /\ \A b \in free_bufs : allocated[b] = 0 /\ ready[b] = 0
  /\ \A i \in DOMAIN pending : allocated[pending[i]] = MaxBatch
  /\ taken # None <=> gpu \in {"straggling", "recheck", "busy"}
  /\ gpu \in {"straggling", "recheck"} => allocated[taken] > 0
  /\ active_producers = Cardinality({p \in Producers : prod[p] # "done"})

\* Every batch buffer is in exactly one place: it is the producers' target, or
\* free, or queued once, or with the GPU thread.  A buffer that two of them
\* own would be refilled while it is inferred; one that none owns is lost and
\* the batcher ends up with less than kNumBufs buffers of back-pressure.
InPending == {pending[i] : i \in DOMAIN pending}

BuffersPartitioned ==
  /\ \A i, j \in DOMAIN pending : pending[i] = pending[j] => i = j
  /\ filling # None => filling \notin free_bufs \cup InPending
  /\ free_bufs \cap InPending = {}
  /\ taken # None => taken \notin free_bufs \cup InPending \cup {filling}
  /\ Bufs \subseteq free_bufs \cup InPending \cup {filling, taken}

\* The un-ready slots of a buffer are exactly the slots producers are writing,
\* so waiting for ready == allocated is waiting for all of them and for
\* nothing else.
StragglersAreWriters ==
  \A b \in Bufs : allocated[b] = ready[b] + Cardinality(Writers(b))

\* Two producers never write the same slot of the same buffer, and every slot
\* being written is among the buffer's allocated ones.
SlotsExclusive ==
  /\ \A p, q \in Producers :
       held[p] # None /\ held[p] = held[q] /\ slot[p] = slot[q] => p = q
  /\ \A p \in Producers : held[p] # None => slot[p] < allocated[held[p]]

\* What Take() returns is a batch: at least one frame, every slot preprocessed,
\* no producer still writing into it.
BatchIsComplete ==
  gpu = "busy" => /\ ready[taken] = allocated[taken]
                  /\ allocated[taken] > 0
                  /\ Writers(taken) = {}

\* A thread asleep on a condition variable has nothing to do: whenever the
\* condition it waits for holds, it has been notified.  notify_one on two of the
\* counter values only (MarkReady) is what could break this.
NoMissedWakeup ==
  /\ gpu = "asleep" => ~CanTakePending /\ ~CanClose /\ ~Drained
  /\ gpu = "straggling" => ~Complete(taken)
  /\ \A p \in Producers :
       prod[p] = "space" => ~stopping /\ free_bufs = {} /\ filling = None

\* Nothing is left behind: when the GPU thread leaves its loop every producer
\* has finished and no frame sits in a buffer.
ExitMeansDrained ==
  gpu = "exit" => /\ \A p \in Producers : prod[p] = "done"
                  /\ pending = <<>>
                  /\ \A b \in Bufs : allocated[b] = 0
=============================================================================
