------------------------------ MODULE Nv12Ring -----------------------------
(***************************************************************************)
(* The ring of full-resolution frame copies every producer owns (struct    *)
(* Nv12Ring, pipeline.cpp): a producer makes the ring fit its frame        *)
(* (Ensure), claims the slot its frame counter maps to (AcquireSlot) and   *)
(* somebody else - the GPU thread or the holder of a result - gives it     *)
(* back (ReleaseSlot).  One mutex and one condition variable per ring, the *)
(* only thread that ever waits on it being the ring's producer.            *)
(* A pitch-linear allocation is abstracted to the frame size it was made   *)
(* for; mem is the allocation that really exists, dims what the ring       *)
(* believes (w, h), ptr whether buf is non-null.                           *)
(***************************************************************************)
EXTENDS Naturals

CONSTANTS
  Streams,      \* one ring per stream
  Depth,        \* PipelineConfig::ring_depth
  Dims,         \* frame sizes a camera can send
  NoDims,       \* no size: nothing allocated yet
  AllocFails    \* whether cudaMallocPitch may fail

ASSUME DepthAssumption == Depth \in Nat /\ Depth >= 2   \* Validate() enforces it
ASSUME DimsAssumption == Dims # {} /\ NoDims \notin Dims
ASSUME AllocFailsAssumption == AllocFails \in BOOLEAN

Slots == 0..(Depth - 1)

VARIABLES
  in_use,       \* in_use[s][k]: slot k of stream s is claimed
  ptr,          \* buf # nullptr
  dims,         \* (w, h)
  mem,          \* the size of the live device allocation behind buf
  rpc,          \* where the producer stands inside the ring's functions
  want          \* the argument of the call it is in: a size or a slot

rvars == <<in_use, ptr, dims, mem, rpc, want>>

\* out: in no ring function; ensured: Ensure returned, AcquireSlot comes next;
\* waitAll/waitSlot: asleep in Ensure/AcquireSlot; wokenAll/wokenSlot: notified
\* there; claimed: AcquireSlot returned slot want.
RpcStates == {"out", "waitAll", "wokenAll", "ensured", "waitSlot", "wokenSlot", "claimed"}

TypeOK ==
  /\ in_use \in [Streams -> [Slots -> BOOLEAN]]
  /\ ptr \in [Streams -> BOOLEAN]
  /\ dims \in [Streams -> Dims \cup {NoDims}]
  /\ mem \in [Streams -> Dims \cup {NoDims}]
  /\ rpc \in [Streams -> RpcStates]
  /\ want \in [Streams -> Dims \cup Slots \cup {NoDims}]
  /\ \A s \in Streams :
       CASE rpc[s] = "out" -> want[s] = NoDims
         [] rpc[s] \in {"waitAll", "wokenAll", "ensured"} -> want[s] \in Dims
         [] OTHER -> want[s] \in Slots

Init ==
  /\ in_use = [s \in Streams |-> [k \in Slots |-> FALSE]]
  /\ ptr = [s \in Streams |-> FALSE]
  /\ dims = [s \in Streams |-> NoDims]
  /\ mem = [s \in Streams |-> NoDims]
  /\ rpc = [s \in Streams |-> "out"]
  /\ want = [s \in Streams |-> NoDims]

FreesUnderReaders(s) == TRUE                                    \* mutant

AllFree(s) == \A k \in Slots : ~in_use[s][k]

Fits(s, d) == ptr[s] /\ dims[s] = d

GoTo(s, place, arg) ==
  /\ rpc' = [rpc EXCEPT ![s] = place]
  /\ want' = [want EXCEPT ![s] = arg]

\* Ensure, the fast path: the ring already has this size.
EnsureFits(s, d) ==
  /\ rpc[s] = "out"
  /\ Fits(s, d)
  /\ GoTo(s, "ensured", d)
  /\ UNCHANGED <<in_use, ptr, dims, mem>>

\* Ensure's wait for every slot, first call or after a wake-up.
AtRealloc(s, d) ==
  \/ rpc[s] = "out" /\ ~Fits(s, d)
  \/ rpc[s] = "wokenAll" /\ want[s] = d

EnsureWait(s, d) ==
  /\ AtRealloc(s, d)
  /\ ~AllFree(s)
  /\ GoTo(s, "waitAll", d)
  /\ UNCHANGED <<in_use, ptr, dims, mem>>

\* cudaFree, (w, h) := d, cudaMallocPitch.
EnsureRealloc(s, d) ==
  /\ AtRealloc(s, d)
  /\ AllFree(s)
  /\ ptr' = [ptr EXCEPT ![s] = TRUE]
  /\ dims' = [dims EXCEPT ![s] = d]
  /\ mem' = [mem EXCEPT ![s] = d]
  /\ GoTo(s, "ensured", d)
  /\ UNCHANGED in_use

\* cudaMallocPitch failed: the old memory is freed, buf still points to it and
\* (w, h) already hold the new size; Ensure throws.
EnsureFails(s, d) ==
  /\ AllocFails
  /\ AtRealloc(s, d)
  /\ AllFree(s)
  /\ dims' = [dims EXCEPT ![s] = d]
  /\ mem' = [mem EXCEPT ![s] = NoDims]
  /\ GoTo(s, "out", NoDims)
  /\ UNCHANGED <<in_use, ptr>>

AtAcquire(s, k) ==
  \/ rpc[s] = "ensured"
  \/ rpc[s] = "wokenSlot" /\ want[s] = k

AcquireSlotWait(s, k) ==
  /\ AtAcquire(s, k)
  /\ in_use[s][k]
  /\ GoTo(s, "waitSlot", k)
  /\ UNCHANGED <<in_use, ptr, dims, mem>>

AcquireSlot(s, k) ==
  /\ AtAcquire(s, k)
  /\ ~in_use[s][k]
  /\ in_use' = [in_use EXCEPT ![s][k] = TRUE]
  /\ GoTo(s, "claimed", k)
  /\ UNCHANGED <<ptr, dims, mem>>

\* The producer passes the slot on with the frame it copied there; from here on
\* somebody else releases it.
PassOn(s) ==
  /\ rpc[s] = "claimed"
  /\ GoTo(s, "out", NoDims)
  /\ UNCHANGED <<in_use, ptr, dims, mem>>

\* The producer gives its own claim back (stop while it waits for a batch slot,
\* or an exception while it fills it).
ReleaseOwn(s) ==
  /\ rpc[s] = "claimed"
  /\ in_use' = [in_use EXCEPT ![s][want[s]] = FALSE]
  /\ GoTo(s, "out", NoDims)
  /\ UNCHANGED <<ptr, dims, mem>>

NotifyNobody(r) == r                                            \* mutant

NotifyRing(r) ==
  CASE r = "waitAll"  -> "wokenAll"
    [] r = "waitSlot" -> "wokenSlot"
    [] OTHER          -> r

\* The wake-ups of a thread that releases the slots K of each stream s, K = rel[s].
ReleaseSlots(rel) ==
  /\ in_use' = [s \in Streams |-> [k \in Slots |-> in_use[s][k] /\ k \notin rel[s]]]
  /\ rpc' = [s \in Streams |-> IF rel[s] = {} THEN rpc[s] ELSE NotifyRing(rpc[s])]
  /\ UNCHANGED <<ptr, dims, mem, want>>

ReleaseSlot(s, k) ==
  /\ in_use[s][k]
  /\ ~(rpc[s] = "claimed" /\ want[s] = k)
  /\ ReleaseSlots([t \in Streams |-> IF t = s THEN {k} ELSE {}])

\* A wait may return without a notification.
SpuriousRing(s) ==
  /\ rpc[s] \in {"waitAll", "waitSlot"}
  /\ rpc' = [rpc EXCEPT ![s] = NotifyRing(@)]
  /\ UNCHANGED <<in_use, ptr, dims, mem, want>>

ProducerRingStep(s) ==
  \/ \E d \in Dims : EnsureFits(s, d) \/ EnsureWait(s, d) \/ EnsureRealloc(s, d)
                       \/ EnsureFails(s, d)
  \/ \E k \in Slots : AcquireSlotWait(s, k) \/ AcquireSlot(s, k)
  \/ PassOn(s)
  \/ ReleaseOwn(s)

Next ==
  \E s \in Streams :
     \/ ProducerRingStep(s)
     \/ \E k \in Slots : ReleaseSlot(s, k)
     \/ SpuriousRing(s)

Spec == Init /\ [][Next]_rvars
=============================================================================
