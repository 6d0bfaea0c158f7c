----------------------------- MODULE CameraProofs -----------------------------
(***************************************************************************)
(* Theorems about one camera: its thread, for any ring depth, frame sizes, *)
(* limits and backoffs, and its packet ring with a relay and clips, for    *)
(* any window and any packets.  The invariant of the thread ties together  *)
(* where the loop stands, where it stands inside its ring of frame copies, *)
(* the surfaces that are mapped, and the clocks that decide on giving up.  *)
(* That of the packets (RelayInv) says what the ring keeps, what a relay's *)
(* batch continues, and where the published timeline ends.                 *)
(***************************************************************************)
EXTENDS CameraLoop, StreamRelay, TLAPS, FiniteSetTheorems, WellFoundedInduction

-----------------------------------------------------------------------------
(* The ring of frame copies *)

\* What the producer's argument is, by where it stands in the ring's functions.
WantFits(r, w) ==
  /\ r = "out" => w = NoDims
  /\ r \in {"waitAll", "wokenAll", "ensured"} => w \in Dims
  /\ r \in {"waitSlot", "wokenSlot", "claimed"} => w \in Slots

RingTyped ==
  /\ in_use \in [Streams -> [Slots -> BOOLEAN]]
  /\ ptr \in [Streams -> BOOLEAN]
  /\ dims \in [Streams -> Dims \cup {NoDims}]
  /\ mem \in [Streams -> Dims \cup {NoDims}]
  /\ rpc \in [Streams -> RpcStates]
  /\ want \in [Streams -> Dims \cup Slots \cup {NoDims}]
  /\ \A s \in Streams : WantFits(rpc[s], want[s])

\* The ring's type invariant, without its case distinction.
LEMMA RingTypedIsTypeOK == RingTyped <=> TypeOK
<1>1. rpc \in [Streams -> RpcStates] =>
        \A s \in Streams :
          WantFits(rpc[s], want[s]) <=>
            CASE rpc[s] = "out" -> want[s] = NoDims
              [] rpc[s] \in {"waitAll", "wokenAll", "ensured"} -> want[s] \in Dims
              [] OTHER -> want[s] \in Slots
  <2>1. SUFFICES ASSUME rpc \in [Streams -> RpcStates], NEW s \in Streams
                 PROVE  WantFits(rpc[s], want[s]) <=>
                          CASE rpc[s] = "out" -> want[s] = NoDims
                            [] rpc[s] \in {"waitAll", "wokenAll", "ensured"} -> want[s] \in Dims
                            [] OTHER -> want[s] \in Slots
    BY Zenon
  <2>2. rpc[s] \in RpcStates
    BY <2>1
  <2>3. QED BY <2>2 DEF WantFits, RpcStates
<1>2. QED BY <1>1 DEF RingTyped, TypeOK

\* Moving the producer to a place, with the argument that fits there.
LEMMA GoToTyped ==
  ASSUME RingTyped, NEW s \in Streams, NEW place \in RpcStates,
         NEW arg \in Dims \cup Slots \cup {NoDims}, WantFits(place, arg), GoTo(s, place, arg)
  PROVE  /\ rpc' \in [Streams -> RpcStates]
         /\ want' \in [Streams -> Dims \cup Slots \cup {NoDims}]
         /\ \A t \in Streams : WantFits(rpc'[t], want'[t])
         /\ rpc'[s] = place
<1>1. /\ rpc' = [rpc EXCEPT ![s] = place] /\ want' = [want EXCEPT ![s] = arg]
      /\ rpc \in [Streams -> RpcStates] /\ want \in [Streams -> Dims \cup Slots \cup {NoDims}]
      /\ \A t \in Streams : WantFits(rpc[t], want[t])
  BY DEF GoTo, RingTyped
<1>2. \A t \in Streams : IF t = s THEN rpc'[t] = place /\ want'[t] = arg
                                  ELSE rpc'[t] = rpc[t] /\ want'[t] = want[t]
  BY <1>1
<1>3. \A t \in Streams : WantFits(rpc'[t], want'[t])
  BY <1>1, <1>2
<1>4. QED BY <1>1, <1>2, <1>3

\* Which arguments fit where.
LEMMA Fitting ==
  /\ \A d \in Dims : WantFits("ensured", d) /\ WantFits("waitAll", d)
  /\ \A k \in Slots : WantFits("waitSlot", k) /\ WantFits("claimed", k)
  /\ WantFits("out", NoDims)
  /\ {"out", "waitAll", "wokenAll", "ensured", "waitSlot", "wokenSlot", "claimed"} = RpcStates
BY DEF WantFits, RpcStates

\* The steps in which the producer waits, or has made the ring fit its frame.
LEMMA EnsureTyped ==
  ASSUME RingTyped, NEW s \in Streams, NEW d \in Dims,
         EnsureFits(s, d) \/ EnsureWait(s, d) \/ EnsureRealloc(s, d)
  PROVE  RingTyped' /\ rpc'[s] \in {"ensured", "waitAll"}
<1>1. CASE EnsureFits(s, d)
  <2>1. GoTo(s, "ensured", d) /\ UNCHANGED <<in_use, ptr, dims, mem>>
    BY <1>1 DEF EnsureFits
  <2>2. QED BY <2>1, Fitting, GoToTyped DEF RingTyped
<1>2. CASE EnsureWait(s, d)
  <2>1. GoTo(s, "waitAll", d) /\ UNCHANGED <<in_use, ptr, dims, mem>>
    BY <1>2 DEF EnsureWait
  <2>2. QED BY <2>1, Fitting, GoToTyped DEF RingTyped
<1>3. CASE EnsureRealloc(s, d)
  <2>1. /\ GoTo(s, "ensured", d) /\ in_use' = in_use
        /\ ptr' = [ptr EXCEPT ![s] = TRUE]
        /\ dims' = [dims EXCEPT ![s] = d] /\ mem' = [mem EXCEPT ![s] = d]
    BY <1>3 DEF EnsureRealloc
  <2>2. /\ ptr' \in [Streams -> BOOLEAN] /\ dims' \in [Streams -> Dims \cup {NoDims}]
        /\ mem' \in [Streams -> Dims \cup {NoDims}] /\ in_use' \in [Streams -> [Slots -> BOOLEAN]]
    BY <2>1 DEF RingTyped
  <2>3. QED BY <2>1, <2>2, Fitting, GoToTyped DEF RingTyped
<1>4. QED BY <1>1, <1>2, <1>3

\* Ensure throws.
LEMMA EnsureFailsTyped ==
  ASSUME RingTyped, NEW s \in Streams, NEW d \in Dims, EnsureFails(s, d)
  PROVE  RingTyped' /\ rpc'[s] = "out"
<1>1. /\ GoTo(s, "out", NoDims) /\ UNCHANGED <<in_use, ptr>>
      /\ dims' = [dims EXCEPT ![s] = d] /\ mem' = [mem EXCEPT ![s] = NoDims]
  BY DEF EnsureFails
<1>2. /\ dims' \in [Streams -> Dims \cup {NoDims}] /\ mem' \in [Streams -> Dims \cup {NoDims}]
      /\ in_use' \in [Streams -> [Slots -> BOOLEAN]] /\ ptr' \in [Streams -> BOOLEAN]
  BY <1>1 DEF RingTyped
<1>3. QED BY <1>1, <1>2, Fitting, GoToTyped DEF RingTyped

\* The slot is waited for, or claimed.
LEMMA AcquireTyped ==
  ASSUME RingTyped, NEW s \in Streams, NEW k \in Slots
  PROVE  /\ AcquireSlotWait(s, k) => RingTyped' /\ rpc'[s] = "waitSlot"
         /\ AcquireSlot(s, k) => RingTyped' /\ rpc'[s] = "claimed"
<1>1. ASSUME AcquireSlotWait(s, k) PROVE RingTyped' /\ rpc'[s] = "waitSlot"
  <2>1. GoTo(s, "waitSlot", k) /\ UNCHANGED <<in_use, ptr, dims, mem>>
    BY <1>1 DEF AcquireSlotWait
  <2>2. QED BY <2>1, Fitting, GoToTyped DEF RingTyped
<1>2. ASSUME AcquireSlot(s, k) PROVE RingTyped' /\ rpc'[s] = "claimed"
  <2>1. /\ GoTo(s, "claimed", k) /\ UNCHANGED <<ptr, dims, mem>>
        /\ in_use' = [in_use EXCEPT ![s][k] = TRUE]
    BY <1>2 DEF AcquireSlot
  <2>2. in_use' \in [Streams -> [Slots -> BOOLEAN]]
    BY <2>1 DEF RingTyped
  <2>3. QED BY <2>1, <2>2, Fitting, GoToTyped DEF RingTyped
<1>3. QED BY <1>1, <1>2

\* The slot is passed on, or given back.
LEMMA LeaveTyped ==
  ASSUME RingTyped, NEW s \in Streams, PassOn(s) \/ ReleaseOwn(s)
  PROVE  RingTyped' /\ rpc'[s] = "out"
<1>1. GoTo(s, "out", NoDims) /\ UNCHANGED <<ptr, dims, mem>>
  BY DEF PassOn, ReleaseOwn
<1>2. in_use' \in [Streams -> [Slots -> BOOLEAN]]
  <2>1. CASE in_use' = in_use
    BY <2>1 DEF RingTyped
  <2>2. CASE rpc[s] = "claimed" /\ in_use' = [in_use EXCEPT ![s][want[s]] = FALSE]
    <3>1. want[s] \in Slots
      BY <2>2 DEF RingTyped, WantFits
    <3>2. QED BY <2>2, <3>1 DEF RingTyped
  <2>3. QED BY <2>1, <2>2 DEF PassOn, ReleaseOwn
<1>3. QED BY <1>1, <1>2, Fitting, GoToTyped DEF RingTyped

\* A wake-up, which leaves a producer that does not wait where it is.
LEMMA NotifyTyped ==
  \A r \in RpcStates :
    /\ NotifyRing(r) \in RpcStates
    /\ r \in {"out", "claimed", "ensured"} <=> NotifyRing(r) \in {"out", "claimed", "ensured"}
    /\ r \in {"out", "claimed", "ensured"} => NotifyRing(r) = r
    /\ \A w : WantFits(r, w) => WantFits(NotifyRing(r), w)
BY DEF NotifyRing, RpcStates, WantFits

\* Somebody else gives a slot back, or the producer wakes up by itself.
LEMMA OthersTyped ==
  ASSUME RingTyped, NEW s \in Streams, (\E k \in Slots : ReleaseSlot(s, k)) \/ SpuriousRing(s)
  PROVE  /\ RingTyped'
         /\ \A t \in Streams : rpc'[t] = rpc[t] \/ rpc'[t] = NotifyRing(rpc[t])
<1>1. /\ UNCHANGED <<ptr, dims, mem, want>>
      /\ in_use' \in [Streams -> [Slots -> BOOLEAN]]
      /\ DOMAIN rpc' = Streams /\ rpc' = [t \in Streams |-> rpc'[t]]
      /\ \A t \in Streams : rpc'[t] = rpc[t] \/ rpc'[t] = NotifyRing(rpc[t])
  <2>1. ASSUME NEW k \in Slots, ReleaseSlot(s, k)
        PROVE  /\ UNCHANGED <<ptr, dims, mem, want>>
               /\ in_use' \in [Streams -> [Slots -> BOOLEAN]]
               /\ DOMAIN rpc' = Streams /\ rpc' = [t \in Streams |-> rpc'[t]]
               /\ \A t \in Streams : rpc'[t] = rpc[t] \/ rpc'[t] = NotifyRing(rpc[t])
    <3>1. PICK rel : ReleaseSlots(rel)
      BY Zenon, <2>1 DEF ReleaseSlot
    <3>2. in_use \in [Streams -> [Slots -> BOOLEAN]]
      BY DEF RingTyped
    <3>3. in_use' \in [Streams -> [Slots -> BOOLEAN]]
      BY <3>1, <3>2 DEF ReleaseSlots
    <3>4. QED BY <3>1, <3>3 DEF ReleaseSlots
  <2>2. CASE SpuriousRing(s)
    BY <2>2 DEF SpuriousRing, RingTyped
  <2>3. QED BY <2>1, <2>2
<1>2. \A t \in Streams : rpc[t] \in RpcStates /\ WantFits(rpc[t], want[t])
  BY DEF RingTyped
<1>3. \A t \in Streams : rpc'[t] \in RpcStates /\ WantFits(rpc'[t], want[t])
  BY <1>1, <1>2, NotifyTyped
<1>4. QED BY <1>1, <1>3 DEF RingTyped

-----------------------------------------------------------------------------
(* The loop *)

\* The thread works on a frame it has popped.
Working(place) == place \in {"ring", "batch", "preprocess"}

\* The loop's variables keep their types.
LoopTyped ==
  /\ {file, stop, gave_up} \subseteq BOOLEAN
  /\ lpc \in LoopPcs
  /\ ready_frames \in 0..PacketFrames /\ mapped \in Nat
  /\ decoded \in 0..FrameLimit /\ inferred \in 0..FrameLimit
  /\ backoff \in FirstBackoff..BackoffMax
  /\ silence \in 0..LongestSilence /\ slept \in 0..LongestSilence
  /\ reading \in 0..LongestSilence /\ stalled \in 0..LongestSilence

\* Where the thread stands in its loop and in its ring fit together.
PlacesFit ==
  /\ lpc \in {"batch", "preprocess"} <=> rpc[Cam] = "claimed"
  /\ lpc # "ring" => rpc[Cam] \in {"out", "claimed"}

\* The frame in work is decoded and not yet inferred.
InferredFit == inferred + (IF Working(lpc) THEN 1 ELSE 0) <= decoded

\* The clock that decides on giving up counts sleeps, reads and waits, and it is not reset
\* after the decision.
ClocksFit ==
  /\ silence = slept + reading + stalled
  /\ gave_up => silence > GiveUp /\ lpc = "done"
  /\ BackoffDoubles

CameraInv ==
  /\ RingTyped /\ LoopTyped
  /\ SurfacesOwned /\ PlacesFit /\ InferredFit /\ ClocksFit
  /\ LiveCameraStays

\* The constants, as the proofs use them.
LEMMA CameraConstants ==
  /\ Streams = {Cam} /\ Cam \in Streams
  /\ FrameLimit \in Nat \ {0} /\ PacketFrames \in Nat \ {0}
  /\ FirstBackoff \in Nat \ {0} /\ BackoffMax \in Nat /\ FirstBackoff <= BackoffMax
  /\ GiveUp \in Nat /\ LongestSilence \in Nat /\ LongestSilence = GiveUp + BackoffMax
BY CameraAssumption DEF LongestSilence

\* The invariant holds at first.
LEMMA CameraStarts == CameraInit => CameraInv
<1>. SUFFICES ASSUME CameraInit PROVE CameraInv
  OBVIOUS
<1>1. /\ Init /\ file \in BOOLEAN /\ stop = FALSE /\ lpc = "outer" /\ ready_frames = 0 /\ mapped = 0
      /\ decoded = 0 /\ inferred = 0 /\ backoff = FirstBackoff /\ gave_up = FALSE
      /\ silence = 0 /\ slept = 0 /\ reading = 0 /\ stalled = 0
  BY DEF CameraInit
<1>2. RingTyped
  BY <1>1 DEF Init, RingTyped, RpcStates, WantFits
<1>3. LoopTyped
  <2>1. /\ lpc \in LoopPcs /\ ready_frames \in 0..PacketFrames /\ mapped \in Nat
        /\ decoded \in 0..FrameLimit /\ inferred \in 0..FrameLimit
        /\ backoff \in FirstBackoff..BackoffMax
        /\ silence \in 0..LongestSilence /\ slept \in 0..LongestSilence
        /\ reading \in 0..LongestSilence /\ stalled \in 0..LongestSilence
    BY <1>1, CameraConstants DEF LoopPcs
  <2>2. {file, stop, gave_up} \subseteq BOOLEAN
    BY <1>1
  <2>3. QED BY <2>1, <2>2 DEF LoopTyped
<1>4. SurfacesOwned /\ InferredFit /\ ClocksFit /\ LiveCameraStays
  BY <1>1, CameraConstants
     DEF SurfacesOwned, InferredFit, Working, ClocksFit, BackoffDoubles, LiveCameraStays
<1>5. PlacesFit
  BY <1>1, CameraConstants DEF PlacesFit, Init
<1>6. QED BY <1>2, <1>3, <1>4, <1>5 DEF CameraInv

\* Steps that touch no clock and do not leave the loop for good.
LEMMA ClocksKept ==
  ASSUME CameraInv, UNCHANGED <<file, backoff, gave_up, times>>, lpc # "done", lpc' # "done"
  PROVE  ClocksFit' /\ LiveCameraStays'
BY DEF CameraInv, ClocksFit, BackoffDoubles, times, LiveCameraStays

\* Steps outside of the ring.
LEMMA RingKept ==
  ASSUME CameraInv, UNCHANGED rvars, lpc \notin {"ring", "batch", "preprocess"}, lpc' \notin {"batch", "preprocess"}
  PROVE  RingTyped' /\ PlacesFit'
<1>1. UNCHANGED <<in_use, ptr, dims, mem, rpc, want>>
  BY DEF rvars
<1>2. rpc[Cam] # "claimed" /\ rpc[Cam] \in {"out", "claimed"}
  BY DEF CameraInv, PlacesFit
<1>3. PlacesFit'
  BY <1>1, <1>2 DEF PlacesFit
<1>4. RingTyped'
  BY <1>1 DEF CameraInv, RingTyped
<1>5. QED BY <1>3, <1>4

\* Between two frames the books of surfaces and of frames have nothing to add.
LEMMA NoFrameInWork ==
  ASSUME NEW place, place \notin {"ring", "batch", "preprocess"}
  PROVE  /\ \A a, b \in Nat : a = b =>
              a = b + (IF place \in {"ring", "batch", "preprocess"} THEN 1 ELSE 0)
         /\ \A a, b \in Nat : a <= b =>
              a + (IF place \in {"ring", "batch", "preprocess"} THEN 1 ELSE 0) <= b
<1>1. (IF place \in {"ring", "batch", "preprocess"} THEN 1 ELSE 0) = 0
  BY Zenon
<1>2. \A a, b, c \in Nat : c = 0 => (a = b => a = b + c) /\ (a <= b => a + c <= b)
  OBVIOUS
<1>3. QED BY <1>1, <1>2

\* Opening, demuxing and decoding.
LEMMA ReadingKeeps ==
  ASSUME CameraInv, Outer \/ Open \/ Demux \/ DecodePacket
  PROVE  CameraInv'
<1>1. /\ UNCHANGED rvars /\ UNCHANGED <<file, stop, decoded, inferred, backoff, gave_up, times>>
      /\ lpc \in {"outer", "open", "demux", "decode"}
      /\ lpc' \in {"open", "done", "demux", "caught", "decode", "ended", "pop"}
      /\ lpc' = "done" => ~StillWanted
      /\ \/ UNCHANGED <<ready_frames, mapped>>
         \/ ready_frames' = 0 /\ mapped' = 0
         \/ \E n \in 0..PacketFrames :
              ready_frames + n <= PacketFrames /\ ready_frames' = ready_frames + n /\ mapped' = mapped + n
  BY DEF Outer, Open, Demux, DecodePacket, LeaveTry
<1>2. /\ LoopTyped /\ mapped = ready_frames
      /\ inferred <= decoded
  BY <1>1 DEF CameraInv, SurfacesOwned, InferredFit, Working, LoopTyped
<1>3. /\ ready_frames' \in 0..PacketFrames /\ mapped' \in Nat /\ mapped' = ready_frames'
  BY <1>1, <1>2, CameraConstants DEF LoopTyped
<1>4. LoopTyped'
  BY <1>1, <1>2, <1>3 DEF LoopTyped, LoopPcs, times
<1>5. SurfacesOwned' /\ InferredFit'
  <2>1. lpc' \notin {"ring", "batch", "preprocess"}
    BY <1>1 DEF Working
  <2>2. inferred' <= decoded' /\ inferred' \in Nat /\ decoded' \in Nat
    BY <1>1, <1>2 DEF LoopTyped
  <2>3. SurfacesOwned'
    BY <1>3, <2>1, CameraConstants, NoFrameInWork DEF SurfacesOwned
  <2>4. InferredFit'
    BY <2>1, <2>2, NoFrameInWork DEF InferredFit, Working
  <2>5. QED BY <2>3, <2>4
<1>6. RingTyped' /\ PlacesFit'
  BY <1>1, RingKept
<1>7. ClocksFit' /\ LiveCameraStays'
  <2>1. CASE lpc' # "done"
    BY <1>1, <2>1, ClocksKept
  <2>2. CASE lpc' = "done"
    <3>1. stop \/ decoded = FrameLimit
      BY <1>1, <1>2, <2>2, CameraConstants DEF StillWanted, LoopTyped
    <3>2. ClocksFit /\ ~gave_up
      BY <1>1 DEF CameraInv, ClocksFit
    <3>3. QED BY <1>1, <3>1, <3>2 DEF ClocksFit, BackoffDoubles, times, LiveCameraStays
  <2>3. QED BY <2>1, <2>2
<1>8. QED BY <1>4, <1>5, <1>6, <1>7 DEF CameraInv

\* Popping a frame, or finding that there is none.
LEMMA PoppingKeeps ==
  ASSUME CameraInv, PopFrame \/ NoMoreFrames
  PROVE  CameraInv'
<1>1. /\ UNCHANGED rvars /\ UNCHANGED <<file, stop, inferred, gave_up>> /\ lpc = "pop"
      /\ LoopTyped /\ mapped = ready_frames /\ inferred <= decoded /\ ~gave_up /\ ClocksFit
  BY DEF PopFrame, NoMoreFrames, CameraInv, SurfacesOwned, InferredFit, Working, LoopTyped, ClocksFit
<1>2. RingTyped' /\ PlacesFit'
  <2>1. lpc' \in {"pop", "ring", "demux"}
    BY <1>1 DEF PopFrame, NoMoreFrames
  <2>2. QED BY <1>1, <2>1, RingKept
<1>3. CASE PopFrame
  <2>1. /\ ready_frames > 0 /\ decoded < FrameLimit
        /\ ready_frames' = ready_frames - 1 /\ decoded' = decoded + 1
        /\ backoff' = FirstBackoff
        /\ silence' = 0 /\ slept' = 0 /\ reading' = 0 /\ stalled' = 0
        /\ \/ mapped' = mapped - 1 /\ lpc' = "pop"
           \/ mapped' = mapped /\ lpc' = "ring"
    BY <1>1, <1>3 DEF PopFrame, PopsFrame, StillWanted, RefreshSuccess, ResetBackoff
  <2>2. /\ ready_frames' \in 0..PacketFrames /\ mapped' \in Nat /\ decoded' \in 0..FrameLimit
        /\ backoff' \in FirstBackoff..BackoffMax 
        /\ silence' \in 0..LongestSilence /\ slept' \in 0..LongestSilence
        /\ reading' \in 0..LongestSilence /\ stalled' \in 0..LongestSilence
    BY <1>1, <2>1, CameraConstants DEF LoopTyped
  <2>3. LoopTyped'
    BY <1>1, <2>1, <2>2 DEF LoopTyped, LoopPcs
  <2>4. SurfacesOwned' /\ InferredFit'
    BY <1>1, <2>1 DEF SurfacesOwned, InferredFit, Working, LoopTyped
  <2>5. ClocksFit' /\ LiveCameraStays'
    BY <1>1, <2>1, CameraConstants DEF ClocksFit, BackoffDoubles, LiveCameraStays
  <2>6. QED BY <1>2, <2>3, <2>4, <2>5 DEF CameraInv
<1>4. CASE NoMoreFrames
  <2>1. UNCHANGED <<ready_frames, mapped, decoded, backoff, silence, slept, reading, stalled>> /\ lpc' = "demux"
    BY <1>4 DEF NoMoreFrames, ChecksBeforePop, times
  <2>2. LoopTyped'
    BY <1>1, <2>1 DEF LoopTyped, LoopPcs
  <2>3. SurfacesOwned' /\ InferredFit'
    BY <1>1, <2>1 DEF SurfacesOwned, InferredFit, Working, LoopTyped
  <2>4. ClocksFit' /\ LiveCameraStays'
    BY <1>1, <2>1 DEF ClocksFit, BackoffDoubles, LiveCameraStays
  <2>5. QED BY <1>2, <2>2, <2>3, <2>4 DEF CameraInv
<1>5. QED BY <1>3, <1>4

\* Claiming a ring slot: waiting, failing, or going on with it.
LEMMA RingSlotKeeps ==
  ASSUME CameraInv, ClaimRingSlot
  PROVE  CameraInv'
<1>. DEFINE k == inferred % Depth
<1>1. /\ lpc = "ring" /\ UNCHANGED <<file, stop, decoded, inferred, backoff, gave_up, times>>
      /\ LoopTyped /\ RingTyped /\ mapped = ready_frames + 1 /\ inferred + 1 <= decoded
  BY DEF ClaimRingSlot, CameraInv, SurfacesOwned, InferredFit, Working
<1>2. k \in Slots
  BY <1>1, DepthAssumption DEF LoopTyped, Slots
<1>3. \/ /\ \E d \in Dims : EnsureFits(Cam, d) \/ EnsureWait(Cam, d) \/ EnsureRealloc(Cam, d)
         /\ UNCHANGED <<lpc, ready_frames, mapped>>
      \/ (\E d \in Dims : EnsureFails(Cam, d)) /\ lpc' = "caught" /\ ready_frames' = 0 /\ mapped' = 0
      \/ AcquireSlotWait(Cam, k) /\ UNCHANGED <<lpc, ready_frames, mapped>>
      \/ AcquireSlot(Cam, k) /\ lpc' = "batch" /\ UNCHANGED <<ready_frames, mapped>>
  BY DEF ClaimRingSlot, LeaveTry
<1>. HIDE DEF k
<1>4. /\ RingTyped'
      /\ \/ rpc'[Cam] \in {"ensured", "waitAll", "waitSlot"} /\ UNCHANGED <<lpc, ready_frames, mapped>>
         \/ rpc'[Cam] = "out" /\ lpc' = "caught" /\ ready_frames' = 0 /\ mapped' = 0
         \/ rpc'[Cam] = "claimed" /\ lpc' = "batch" /\ UNCHANGED <<ready_frames, mapped>>
  BY <1>1, <1>2, <1>3, CameraConstants, EnsureTyped, EnsureFailsTyped, AcquireTyped
<1>5. PlacesFit'
  BY <1>1, <1>4 DEF PlacesFit
<1>6. LoopTyped'
  <2>1. ready_frames' \in 0..PacketFrames /\ mapped' \in Nat
    BY <1>1, <1>4, CameraConstants DEF LoopTyped
  <2>2. QED BY <1>1, <1>4, <2>1 DEF LoopTyped, LoopPcs, times
<1>7. SurfacesOwned' /\ InferredFit'
  BY <1>1, <1>4 DEF SurfacesOwned, InferredFit, Working, LoopTyped
<1>8. ClocksFit' /\ LiveCameraStays'
  BY <1>1, <1>4, ClocksKept
<1>9. QED BY <1>4, <1>5, <1>6, <1>7, <1>8 DEF CameraInv

\* The batch slot, and the frame handed over or abandoned.
LEMMA HandingOverKeeps ==
  ASSUME CameraInv, ClaimBatchSlot \/ PreprocessFrame
  PROVE  CameraInv'
<1>1. /\ lpc \in {"batch", "preprocess"}
      /\ UNCHANGED <<file, stop, decoded, backoff, gave_up, times>>
      /\ LoopTyped /\ RingTyped /\ mapped = ready_frames + 1 /\ inferred + 1 <= decoded
      /\ rpc[Cam] = "claimed"
  BY DEF ClaimBatchSlot, PreprocessFrame, CameraInv, SurfacesOwned, InferredFit, Working, PlacesFit
<1>2. \/ UNCHANGED rvars /\ UNCHANGED <<ready_frames, mapped, inferred>> /\ lpc' = "preprocess"
      \/ /\ PassOn(Cam) \/ ReleaseOwn(Cam)
         /\ inferred' \in {inferred, inferred + 1}
         /\ \/ mapped' = mapped - 1 /\ lpc' \in {"ended", "pop"} /\ ready_frames' = ready_frames
            \/ mapped' = 0 /\ ready_frames' = 0 /\ lpc' = "caught"
  BY DEF ClaimBatchSlot, PreprocessFrame, LeaveTry
<1>3. /\ RingTyped'
      /\ \/ rpc'[Cam] = "claimed" /\ UNCHANGED <<ready_frames, mapped, inferred>> /\ lpc' = "preprocess"
         \/ /\ rpc'[Cam] = "out"
            /\ inferred' \in {inferred, inferred + 1}
            /\ \/ mapped' = mapped - 1 /\ lpc' \in {"ended", "pop"} /\ ready_frames' = ready_frames
               \/ mapped' = 0 /\ ready_frames' = 0 /\ lpc' = "caught"
  <2>1. CASE UNCHANGED rvars /\ UNCHANGED <<ready_frames, mapped, inferred>> /\ lpc' = "preprocess"
    BY <1>1, <2>1 DEF rvars, RingTyped
  <2>2. CASE PassOn(Cam) \/ ReleaseOwn(Cam)
    <3>1. RingTyped' /\ rpc'[Cam] = "out"
      BY <1>1, <2>2, CameraConstants, LeaveTyped
    <3>2. rpc'[Cam] # rpc[Cam]
      BY <1>1, <3>1
    <3>3. QED BY <1>2, <3>1, <3>2 DEF rvars
  <2>3. QED BY <1>2, <2>1, <2>2
<1>4. PlacesFit'
  BY <1>3 DEF PlacesFit
<1>5. LoopTyped'
  <2>1. ready_frames' \in 0..PacketFrames /\ mapped' \in Nat /\ inferred' \in 0..FrameLimit
    BY <1>1, <1>3, CameraConstants DEF LoopTyped
  <2>2. QED BY <1>1, <1>3, <2>1 DEF LoopTyped, LoopPcs, times
<1>6. SurfacesOwned' /\ InferredFit'
  BY <1>1, <1>3 DEF SurfacesOwned, InferredFit, Working, LoopTyped
<1>7. ClocksFit' /\ LiveCameraStays'
  BY <1>1, <1>3, ClocksKept
<1>8. QED BY <1>3, <1>4, <1>5, <1>6, <1>7 DEF CameraInv

\* The end of a connection: for good, or until the next try.
LEMMA EndingKeeps ==
  ASSUME CameraInv, Ended \/ GiveUpCamera \/ Retry
  PROVE  CameraInv'
<1>1. /\ UNCHANGED rvars /\ UNCHANGED <<file, stop, decoded, inferred>> /\ lpc \in {"ended", "caught"}
      /\ LoopTyped /\ mapped = ready_frames /\ inferred <= decoded /\ ~gave_up /\ ClocksFit
  BY DEF Ended, GiveUpCamera, Retry, CameraInv, SurfacesOwned, InferredFit, Working, LoopTyped, ClocksFit
<1>2. /\ lpc' \in {"caught", "done", "outer"}
      /\ ready_frames' \in {0, ready_frames} /\ mapped' = ready_frames'
  BY <1>1 DEF Ended, GiveUpCamera, Retry, LeaveTry
<1>3. RingTyped' /\ PlacesFit'
  BY <1>1, <1>2, RingKept
<1>4. SurfacesOwned' /\ InferredFit'
  <2>1. lpc' \notin {"ring", "batch", "preprocess"}
    BY <1>2 DEF Working
  <2>2. inferred' <= decoded' /\ inferred' \in Nat /\ decoded' \in Nat /\ ready_frames' \in Nat
    BY <1>1, <1>2, CameraConstants DEF LoopTyped
  <2>3. SurfacesOwned'
    BY <1>2, <2>1, <2>2, NoFrameInWork DEF SurfacesOwned
  <2>4. InferredFit'
    BY <2>1, <2>2, NoFrameInWork DEF InferredFit, Working
  <2>5. QED BY <2>3, <2>4
<1>5. ready_frames' \in 0..PacketFrames /\ mapped' \in Nat /\ lpc' \in LoopPcs
  BY <1>1, <1>2, CameraConstants DEF LoopTyped, LoopPcs
<1>6. CASE Ended
  <2>1. /\ UNCHANGED <<backoff, gave_up, silence, slept, reading, stalled>>
        /\ lpc' = "done" => ~StillWanted \/ file
    BY <1>6 DEF Ended, LeaveTry, EndsCleanly, times
  <2>2. LoopTyped'
    BY <1>1, <1>5, <2>1 DEF LoopTyped
  <2>3. ClocksFit'
    BY <1>1, <2>1 DEF ClocksFit, BackoffDoubles
  <2>4. LiveCameraStays'
    BY <1>1, <2>1, CameraConstants DEF LiveCameraStays, StillWanted, LoopTyped
  <2>5. QED BY <1>3, <1>4, <2>2, <2>3, <2>4 DEF CameraInv
<1>7. CASE GiveUpCamera
  <2>1. /\ UNCHANGED <<backoff, silence, slept, reading, stalled>>
        /\ gave_up' = TRUE /\ lpc' = "done" /\ silence > GiveUp
    BY <1>7 DEF GiveUpCamera, times
  <2>2. LoopTyped'
    BY <1>1, <1>5, <2>1 DEF LoopTyped
  <2>3. ClocksFit' /\ LiveCameraStays'
    BY <1>1, <2>1 DEF ClocksFit, BackoffDoubles, LiveCameraStays
  <2>4. QED BY <1>3, <1>4, <2>2, <2>3 DEF CameraInv
<1>8. CASE Retry
  <2>1. /\ silence <= GiveUp /\ silence' = silence + backoff /\ slept' = slept + backoff
        /\ UNCHANGED <<reading, stalled>>
        /\ backoff' = (IF backoff * 2 > BackoffMax THEN BackoffMax ELSE backoff * 2)
        /\ lpc' = "outer" /\ gave_up' = gave_up
    BY <1>8 DEF Retry
  <2>2. /\ {silence, slept, reading, stalled, backoff} \subseteq Nat
        /\ backoff \in FirstBackoff..BackoffMax /\ silence = slept + reading + stalled
    BY <1>1, CameraConstants DEF LoopTyped, ClocksFit
  <2>3. /\ backoff' \in FirstBackoff..BackoffMax /\ reading' \in 0..LongestSilence
        /\ stalled' \in 0..LongestSilence
    BY <1>1, <2>1, <2>2, CameraConstants DEF LoopTyped
  <2>4. silence' \in 0..LongestSilence /\ slept' \in 0..LongestSilence /\ silence' = slept' + reading' + stalled'
    BY <2>1, <2>2, CameraConstants
  <2>5. BackoffDoubles'
    BY <1>1, <2>1, <2>2, CameraConstants DEF ClocksFit, BackoffDoubles
  <2>6. LoopTyped'
    BY <1>1, <1>5, <2>1, <2>3, <2>4 DEF LoopTyped
  <2>7. ClocksFit' /\ LiveCameraStays'
    BY <1>1, <2>1, <2>4, <2>5 DEF ClocksFit, LiveCameraStays
  <2>8. QED BY <1>3, <1>4, <2>6, <2>7 DEF CameraInv
<1>9. QED BY <1>6, <1>7, <1>8

\* Time passes.
LEMMA TimeKeeps ==
  ASSUME CameraInv, TimePasses
  PROVE  CameraInv'
<1>1. /\ UNCHANGED <<file, stop, lpc, ready_frames, mapped, decoded, inferred, backoff, gave_up, slept>>
      /\ UNCHANGED <<in_use, ptr, dims, mem, rpc, want>>
      /\ lpc # "done" /\ silence <= GiveUp /\ silence' = silence + 1
      /\ \/ reading' = reading + 1 /\ stalled' = stalled
         \/ reading' = reading /\ stalled' = stalled + 1
  BY DEF TimePasses, rvars
<1>2. LoopTyped /\ ClocksFit /\ ~gave_up
  BY <1>1 DEF CameraInv, ClocksFit, LoopTyped
<1>3. /\ {silence, slept, reading, stalled} \subseteq Nat
      /\ silence = slept + reading + stalled
  BY <1>2 DEF LoopTyped, ClocksFit
<1>4. /\ silence' \in 0..LongestSilence /\ slept' \in 0..LongestSilence
      /\ reading' \in 0..LongestSilence /\ stalled' \in 0..LongestSilence
      /\ silence' = slept' + reading' + stalled'
  BY <1>1, <1>3, CameraConstants
<1>5. LoopTyped' /\ ClocksFit' /\ LiveCameraStays'
  BY <1>1, <1>2, <1>4 DEF LoopTyped, ClocksFit, BackoffDoubles, LiveCameraStays
<1>6. RingTyped' /\ SurfacesOwned' /\ PlacesFit' /\ InferredFit'
  BY <1>1 DEF CameraInv, RingTyped, SurfacesOwned, PlacesFit, InferredFit
<1>7. QED BY <1>5, <1>6 DEF CameraInv

\* Stop(), a slot that somebody gives back, and a spurious wake-up.
LEMMA OthersKeep ==
  ASSUME CameraInv, SetStop \/ (\E k \in Slots : Release(k)) \/ SpuriousWake \/ UNCHANGED cameraVars
  PROVE  CameraInv'
<1>1. CASE SetStop \/ UNCHANGED cameraVars
  <2>1. /\ UNCHANGED <<file, lpc, ready_frames, mapped, decoded, inferred, backoff, silence, slept,
                   reading, stalled, gave_up>>
        /\ UNCHANGED <<in_use, ptr, dims, mem, rpc, want>> /\ stop' \in {stop, TRUE}
    BY <1>1 DEF SetStop, cameraVars, loopVars, rvars, times
  <2>2. LoopTyped'
    BY <2>1 DEF CameraInv, LoopTyped
  <2>3. RingTyped' /\ SurfacesOwned' /\ PlacesFit' /\ InferredFit' /\ ClocksFit'
    BY <2>1 DEF CameraInv, RingTyped, SurfacesOwned, PlacesFit, InferredFit, ClocksFit,
                 BackoffDoubles
  <2>4. LiveCameraStays'
    BY <2>1 DEF CameraInv, LiveCameraStays
  <2>5. QED BY <2>2, <2>3, <2>4 DEF CameraInv
<1>2. CASE (\E k \in Slots : Release(k)) \/ SpuriousWake
  <2>1. UNCHANGED loopVars /\ ((\E k \in Slots : ReleaseSlot(Cam, k)) \/ SpuriousRing(Cam))
    BY <1>2 DEF Release, SpuriousWake
  <2>2. RingTyped /\ rpc[Cam] \in RpcStates
    BY CameraConstants DEF CameraInv, RingTyped
  <2>3. RingTyped' /\ (rpc'[Cam] = rpc[Cam] \/ rpc'[Cam] = NotifyRing(rpc[Cam]))
    BY <2>1, <2>2, CameraConstants, OthersTyped
  <2>4. UNCHANGED <<file, stop, lpc, ready_frames, mapped, decoded, inferred, backoff, silence, slept,
                   reading, stalled, gave_up>>
    BY <2>1 DEF loopVars, times
  <2>5. PlacesFit'
    <3>1. PlacesFit
      BY DEF CameraInv
    <3>2. /\ rpc[Cam] \in {"out", "claimed"} => rpc'[Cam] = rpc[Cam]
          /\ rpc'[Cam] = "claimed" => rpc[Cam] = "claimed"
      BY <2>2, <2>3 DEF NotifyRing, RpcStates
    <3>3. QED BY <2>4, <3>1, <3>2 DEF PlacesFit
  <2>6. LoopTyped' /\ SurfacesOwned' /\ InferredFit' /\ ClocksFit' /\ LiveCameraStays'
    BY <2>4 DEF CameraInv, LoopTyped, SurfacesOwned, InferredFit, ClocksFit, BackoffDoubles,
                LiveCameraStays
  <2>7. QED BY <2>3, <2>5, <2>6 DEF CameraInv
<1>3. QED BY <1>1, <1>2

\* The invariant of a camera's thread.
THEOREM CameraInvariant == CameraSpec => []CameraInv
<1>1. CameraInv /\ [CameraNext]_cameraVars => CameraInv'
  BY ReadingKeeps, PoppingKeeps, RingSlotKeeps, HandingOverKeeps, EndingKeeps, TimeKeeps, OthersKeep
     DEF CameraNext, CameraStep
<1>2. QED BY <1>1, CameraStarts, PTL DEF CameraSpec

\* Every variable of a camera's thread and ring keeps its type: no frame is decoded or
\* inferred past max_frames, no packet's frames outgrow the decoder's queue, and the
\* backoff stays between its bounds.
THEOREM CameraTyped == CameraSpec => []CameraTypeOK
<1>1. CameraInv => CameraTypeOK
  BY RingTypedIsTypeOK DEF CameraInv, LoopTyped, CameraTypeOK
<1>2. QED BY <1>1, CameraInvariant, PTL

\* Every mapped surface is queued in the decoder or belongs to the frame the thread works
\* on, through skips, refusals, exceptions and reconnects.
THEOREM SurfacesAccounted == CameraSpec => []SurfacesOwned
<1>1. CameraInv => SurfacesOwned
  BY DEF CameraInv
<1>2. QED BY <1>1, CameraInvariant, PTL

\* However often a camera flaps: its thread leaves before Stop() and before the last frame
\* only when kGiveUpMs have passed since that frame in backoffs, reads and waits, or at the
\* end of a file, and its backoffs double until a frame is decoded or they reach their bound.
THEOREM CameraIsKept == CameraSpec => []CameraKept
<1>1. CameraInv => CameraKept
  BY DEF CameraInv, CameraKept, ClocksFit, FlappingCameraKept, LoopTyped
<1>2. QED BY <1>1, CameraInvariant, PTL

-----------------------------------------------------------------------------
(* The packet ring *)

\* A packet, for any bounds of the model.
AnyPacket == [seq : Nat \ {0}, pts : Nat \cup {NoPts}, at : Nat, key : BOOLEAN]

\* Packets are numbered as they are pushed and never arrive earlier than the one before.
InPushOrder(h) ==
  /\ h \in Seq(AnyPacket)
  /\ \A i \in 1..Len(h) : h[i].seq = i
  /\ \A i, j \in 1..Len(h) : i <= j => h[i].at <= h[j].at

\* s holds the newest packets of h.
NewestOf(s, h) ==
  /\ s \in Seq(AnyPacket) /\ Len(s) <= Len(h)
  /\ \A i \in 1..Len(s) : s[i] = h[Len(h) - Len(s) + i]

\* What is left of h begins at a keyframe that is old enough.
Anchored(s, h) ==
  \/ Len(s) = Len(h)
  \/ /\ Len(s) > 0 /\ s[1].key
     /\ s[1].at <= h[Len(h)].at - RingSeconds

\* t goes on after packet number last: consecutive packets, all newer, and if some are left
\* out it begins at a keyframe.
Continues(t, last) ==
  /\ t \in Seq(AnyPacket)
  /\ \A i \in 1..Len(t) : t[i].seq = t[1].seq + (i - 1)
  /\ t # <<>> => t[1].seq > last /\ (t[1].seq = last + 1 \/ t[1].key)

RingInv == InPushOrder(history) /\ NewestOf(pkts, history) /\ Anchored(pkts, history)

-----------------------------------------------------------------------------
\* A non-empty set of places has a first one, by the well-foundedness of the strict
\* inclusion of finite sets.
LEMMA FirstPlace ==
  ASSUME NEW n \in Nat, NEW S \in SUBSET (1..n), S # {}
  PROVE  Min(S) \in S /\ \A k \in S : Min(S) <= k
<1> DEFINE upTo(k) == {j \in S : j <= k}
           family == {upTo(k) : k \in S}
<1>1. IsFiniteSet(S)
  <2>1. IsFiniteSet(1..n)
    BY FS_Interval
  <2>2. QED BY <2>1, FS_Subset, Zenon
<1>2. family \subseteq FiniteSubsetsOf(S) /\ family # {}
  <2>1. \A k \in S : upTo(k) \in SUBSET S /\ IsFiniteSet(upTo(k))
    BY <1>1, FS_Subset
  <2>2. QED BY <2>1 DEF FiniteSubsetsOf
<1>3. PICK T \in family : \A U \in family : ~(<<U, T>> \in StrictSubsetOrdering(S))
  BY <1>2, FS_StrictSubsetOrderingWellFounded, WFMin
<1>4. PICK m \in S : T = upTo(m)
  OBVIOUS
<1>5. ASSUME NEW k \in S, ~(m <= k) PROVE FALSE
  <2>1. m <= m /\ \A j \in S : j <= k => j <= m
    BY <1>5
  <2>2. upTo(k) \subseteq upTo(m) /\ m \in upTo(m) /\ m \notin upTo(k)
    BY <1>5, <2>1, Zenon
  <2>3. <<upTo(k), T>> \in StrictSubsetOrdering(S)
    BY <2>2, <1>4 DEF StrictSubsetOrdering
  <2>4. QED BY <2>3, <1>3
<1>6. \E x \in S : \A y \in S : x =< y
  BY <1>5
<1>7. QED BY <1>6 DEF Min

\* The last one, in the mirror.
LEMMA LastPlace ==
  ASSUME NEW n \in Nat, NEW S \in SUBSET (1..n), S # {}
  PROVE  Max(S) \in S /\ \A k \in S : Max(S) >= k
<1> DEFINE mirror == {n + 1 - k : k \in S}
<1>1. mirror \in SUBSET (1..n) /\ mirror # {}
  <2>1. \A k \in 1..n : n + 1 - k \in 1..n
    OBVIOUS
  <2>2. mirror \in SUBSET (1..n)
    BY <2>1
  <2>3. QED BY <2>2
<1>2. PICK m \in mirror : \A k \in mirror : m <= k
  BY <1>1, FirstPlace
<1>3. PICK x \in S : m = n + 1 - x
  OBVIOUS
<1>4. \A y \in S : x >= y
  <2>1. ASSUME NEW y \in S PROVE x >= y
    <3>1. n + 1 - y \in mirror /\ x \in Nat /\ y \in Nat
      OBVIOUS
    <3>2. n + 1 - x <= n + 1 - y
      BY <3>1, <1>2, <1>3
    <3>3. QED BY <3>1, <3>2
  <2>2. QED BY <2>1
<1>5. QED BY <1>4 DEF Max

\* The packets from a place on.
LEMMA FromPlace ==
  ASSUME NEW s \in Seq(AnyPacket), NEW k \in 1..Len(s)
  PROVE  LET t == SubSeq(s, k, Len(s)) IN
         /\ t \in Seq(AnyPacket) /\ Len(t) = Len(s) - k + 1
         /\ \A i \in 1..Len(t) : t[i] = s[k + i - 1]
OBVIOUS

\* They are still the newest packets.
LEMMA FromPlaceNewest ==
  ASSUME NEW h, NEW s, InPushOrder(h), NewestOf(s, h), NEW k \in 1..Len(s)
  PROVE  NewestOf(SubSeq(s, k, Len(s)), h)
<1> DEFINE t == SubSeq(s, k, Len(s))
<1>1. s \in Seq(AnyPacket) /\ h \in Seq(AnyPacket) /\ Len(s) <= Len(h)
  BY DEF NewestOf, InPushOrder
<1>2. t \in Seq(AnyPacket) /\ Len(t) = Len(s) - k + 1 /\ \A i \in 1..Len(t) : t[i] = s[k + i - 1]
  BY <1>1, FromPlace
<1> HIDE DEF t
<1>3. Len(s) \in Nat /\ Len(h) \in Nat /\ k \in 1..Len(s)
  BY <1>1
<1>4. ASSUME NEW i \in 1..Len(t) PROVE t[i] = h[Len(h) - Len(t) + i]
  <2>1. k + i - 1 \in 1..Len(s) /\ Len(h) - Len(s) + (k + i - 1) = Len(h) - Len(t) + i
    BY <1>2, <1>3, SMTT(30)
  <2>2. QED BY <1>2, <2>1 DEF NewestOf
<1>5. Len(t) <= Len(h)
  BY <1>1, <1>2, <1>3
<1>6. QED BY <1>2, <1>4, <1>5 DEF NewestOf, t

\* Trimming leaves the newest packets, from the last keyframe that is old enough.
LEMMA TrimKeeps ==
  ASSUME NEW h, NEW s, InPushOrder(h), NewestOf(s, h), Anchored(s, h), Len(s) > 0
  PROVE  NewestOf(Trim(s), h) /\ Anchored(Trim(s), h)
<1>1. s \in Seq(AnyPacket) /\ h \in Seq(AnyPacket) /\ Len(s) <= Len(h) /\ Len(s) \in Nat /\ Len(h) \in Nat
  BY DEF NewestOf, InPushOrder
<1>2. CASE OldKeys(s) = {}
  BY <1>2, Zenon DEF Trim
<1>3. CASE OldKeys(s) # {}
  <2> DEFINE k == Max(OldKeys(s))
  <2>1. OldKeys(s) \in SUBSET (1..Len(s))
    BY <1>1 DEF OldKeys
  <2>2. k \in OldKeys(s)
    BY <1>1, <1>3, <2>1, LastPlace
  <2>3. k \in 1..Len(s) /\ s[k].key /\ s[k].at <= Last(s).at - RingSeconds
    BY <2>1, <2>2 DEF OldKeys
  <2> HIDE DEF k
  <2>4. Last(s) = h[Len(h)]
    <3>1. Len(s) \in 1..Len(s) /\ Len(h) - Len(s) + Len(s) = Len(h)
      BY <1>1
    <3>2. QED BY <3>1 DEF NewestOf, Last
  <2> DEFINE t == SubSeq(s, k, Len(s))
  <2>5. NewestOf(t, h)
    BY <2>3, FromPlaceNewest
  <2>6. Len(t) = Len(s) - k + 1 /\ \A i \in 1..Len(t) : t[i] = s[k + i - 1]
    BY <1>1, <2>3, FromPlace
  <2> HIDE DEF t
  <2>7. Len(t) > 0 /\ t[1] = s[k]
    <3>1. 1 \in 1..Len(t) /\ k + 1 - 1 = k
      BY <1>1, <2>3, <2>6
    <3>2. QED BY <2>6, <3>1
  <2>8. Trim(s) = t
    BY <1>3, Zenon DEF Trim, t, k
  <2>9. Anchored(t, h)
    BY <2>3, <2>4, <2>7 DEF Anchored
  <2>10. QED BY <2>5, <2>8, <2>9
<1>4. QED BY <1>2, <1>3

\* Later than later.
LEMMA LaterStill ==
  \A a, b, c, r \in Nat :
    /\ a <= b /\ b <= c => a <= c
    /\ a <= b - r /\ b <= c => a <= c - r
OBVIOUS

\* One more packet, for the history and for the ring.
LEMMA PushedInOrder ==
  ASSUME NEW h, NEW s, NEW p \in AnyPacket,
         InPushOrder(h), NewestOf(s, h), Anchored(s, h),
         p.seq = Len(h) + 1, h # <<>> => h[Len(h)].at <= p.at
  PROVE  /\ InPushOrder(Append(h, p)) /\ NewestOf(Append(s, p), Append(h, p))
         /\ Anchored(Append(s, p), Append(h, p)) /\ Len(Append(s, p)) > 0
<1> DEFINE g == Append(h, p)
           t == Append(s, p)
           n == Len(h)
           m == Len(s)
<1>1. /\ g \in Seq(AnyPacket) /\ Len(g) = n + 1 /\ g[n + 1] = p /\ \A i \in 1..n : g[i] = h[i]
      /\ t \in Seq(AnyPacket) /\ Len(t) = m + 1 /\ t[m + 1] = p /\ \A i \in 1..m : t[i] = s[i]
      /\ n \in Nat /\ m \in Nat /\ m <= n
  BY DEF InPushOrder, NewestOf
<1>2. /\ \A i \in 1..n : h[i].seq = i /\ h[i] \in AnyPacket
      /\ \A i, j \in 1..n : i <= j => h[i].at <= h[j].at
      /\ \A i \in 1..m : s[i] = h[n - m + i]
  BY DEF InPushOrder, NewestOf
<1>3. n > 0 => h[n].at <= p.at
  OBVIOUS
<1> HIDE DEF g, t, n, m
<1>4. InPushOrder(g)
  <2>1. \A i \in 1..(n + 1) : g[i].seq = i
    <3>1. \A i \in 1..(n + 1) : i \in 1..n \/ i = n + 1
      BY <1>1
    <3>2. p.seq = n + 1
      BY DEF n
    <3>3. QED BY <1>1, <1>2, <3>1, <3>2, Zenon
  <2>2. ASSUME NEW i \in 1..(n + 1), NEW j \in 1..(n + 1), i <= j
        PROVE  g[i].at <= g[j].at
    <3>1. CASE j \in 1..n
      <4>1. i \in 1..n
        BY <1>1, <2>2, <3>1
      <4>2. QED BY <1>1, <1>2, <2>2, <3>1, <4>1
    <3>2. CASE j = n + 1 /\ i \in 1..n
      <4>1. n \in 1..n /\ n > 0 /\ i <= n
        BY <1>1, <3>2
      <4>2. h[i].at <= h[n].at /\ h[n].at <= p.at
        BY <1>2, <1>3, <3>2, <4>1
      <4>3. h[i].at \in Nat /\ h[n].at \in Nat /\ p.at \in Nat
        BY <1>2, <3>2, <4>1 DEF AnyPacket
      <4>4. g[i] = h[i] /\ g[j] = p
        BY <1>1, <3>2
      <4>5. QED BY <4>2, <4>3, <4>4, LaterStill, Zenon
    <3>3. CASE j = n + 1 /\ i = n + 1
      <4>1. p.at \in Nat
        BY DEF AnyPacket
      <4>2. QED BY <1>1, <3>3, <4>1
    <3>4. QED BY <1>1, <3>1, <3>2, <3>3
  <2>3. QED BY <1>1, <2>1, <2>2 DEF InPushOrder
<1>5. NewestOf(t, g)
  <2>1. ASSUME NEW i \in 1..(m + 1) PROVE t[i] = g[n + 1 - (m + 1) + i]
    <3>1. CASE i \in 1..m
      <4>1. n - m + i \in 1..n /\ n + 1 - (m + 1) + i = n - m + i
        BY <1>1, <3>1
      <4>2. QED BY <1>1, <1>2, <3>1, <4>1
    <3>2. CASE i = m + 1
      <4>1. n + 1 - (m + 1) + i = n + 1
        BY <1>1, <3>2
      <4>2. QED BY <1>1, <3>2, <4>1
    <3>3. QED BY <1>1, <3>1, <3>2
  <2>2. m + 1 <= n + 1
    BY <1>1
  <2>3. QED BY <1>1, <2>1, <2>2 DEF NewestOf
<1>6. Anchored(t, g)
  <2>1. CASE m = n
    BY <1>1, <2>1 DEF Anchored
  <2>2. CASE m > 0 /\ s[1].key /\ s[1].at <= h[n].at - RingSeconds
    <3>1. 1 \in 1..m /\ n \in 1..n /\ n > 0
      BY <1>1, <2>2
    <3>2. t[1] = s[1] /\ g[Len(g)] = p
      BY <1>1, <3>1
    <3>3. h[n].at \in Nat /\ p.at \in Nat /\ s[1].at \in Nat
      <4>1. s[1] \in AnyPacket
        BY <3>1 DEF NewestOf, m
      <4>2. QED BY <1>2, <3>1, <4>1 DEF AnyPacket
    <3>4. s[1].at <= p.at - RingSeconds
      <4>1. RingSeconds \in Nat
        BY PacketRingAssumption
      <4>2. s[1].at <= h[n].at - RingSeconds /\ h[n].at <= p.at
        BY <1>3, <2>2, <3>1
      <4>3. s[1].at <= p.at - RingSeconds
        <5> DEFINE a == s[1].at
                   b == h[n].at
                   c == p.at
        <5>1. a \in Nat /\ b \in Nat /\ c \in Nat /\ a <= b - RingSeconds /\ b <= c
          BY <3>3, <4>2, Zenon
        <5> HIDE DEF a, b, c
        <5>2. a <= c - RingSeconds
          BY <4>1, <5>1
        <5>3. QED BY <5>2 DEF a, c
      <4>4. QED BY <4>3
    <3>5. Len(t) > 0
      BY <1>1
    <3>6. QED BY <2>2, <3>2, <3>4, <3>5 DEF Anchored
  <2>3. QED BY <2>1, <2>2 DEF Anchored, n, m
<1>7. Len(t) > 0
  BY <1>1
<1>8. QED BY <1>4, <1>5, <1>6, <1>7 DEF g, t

\* The ring holds the newest packets, from a keyframe on that is old enough or from the
\* camera's first packet.
LEMMA RingStarts == RingInit => RingInv
<1>1. SUFFICES ASSUME RingInit PROVE RingInv
  OBVIOUS
<1>2. pkts = <<>> /\ history = <<>>
  BY <1>1 DEF RingInit
<1>3. <<>> \in Seq(AnyPacket) /\ Len(<<>>) = 0 /\ 1..0 = {}
  OBVIOUS
<1>4. InPushOrder(<<>>) /\ NewestOf(<<>>, <<>>) /\ Anchored(<<>>, <<>>)
  BY <1>3 DEF InPushOrder, NewestOf, Anchored
<1>5. QED BY <1>2, <1>4 DEF RingInv

\* A push keeps it.
LEMMA PushKeepsRing == RingInv /\ PushPacket => RingInv'
<1>1. SUFFICES ASSUME RingInv, PushPacket PROVE RingInv'
  OBVIOUS
<1>2. InPushOrder(history) /\ NewestOf(pkts, history) /\ Anchored(pkts, history)
  BY <1>1 DEF RingInv
<1>3. history \in Seq(AnyPacket) /\ Len(history) \in Nat
  BY <1>2 DEF InPushOrder
<1>4. PICK gap \in 0..MaxGap, key \in BOOLEAN :
        LET at == IF history = <<>> THEN 0 ELSE Last(history).at + gap IN
        \E pts \in {NoPts, 0, at} :
          LET p == [seq |-> Len(history) + 1, pts |-> pts, at |-> at, key |-> key] IN
          /\ pkts' = Trim(Append(pkts, p))
          /\ history' = Append(history, p)
  BY <1>1, Zenon DEF PushPacket
<1> DEFINE at == IF history = <<>> THEN 0 ELSE Last(history).at + gap
<1>5. PICK pts \in {NoPts, 0, at} :
        LET p == [seq |-> Len(history) + 1, pts |-> pts, at |-> at, key |-> key] IN
        /\ pkts' = Trim(Append(pkts, p))
        /\ history' = Append(history, p)
  BY <1>4, Zenon
<1> DEFINE p == [seq |-> Len(history) + 1, pts |-> pts, at |-> at, key |-> key]
<1>6. at \in Nat /\ (history # <<>> => history[Len(history)].at <= at)
  <2>1. CASE history = <<>>
    BY <2>1
  <2>2. CASE history # <<>>
    <3>1. history[Len(history)] \in AnyPacket
      BY <1>3, <2>2
    <3>2. history[Len(history)].at \in Nat /\ gap \in Nat
      BY <3>1, PacketRingAssumption DEF AnyPacket
    <3>3. at = history[Len(history)].at + gap
      BY <2>2, Zenon DEF Last
    <3>4. QED BY <3>2, <3>3
  <2>3. QED BY <2>1, <2>2
<1> HIDE DEF at
<1>7. p \in AnyPacket /\ p.seq = Len(history) + 1 /\ p.at = at
  BY <1>3, <1>6 DEF AnyPacket, NoPts
<1>8. pkts' = Trim(Append(pkts, p)) /\ history' = Append(history, p)
  BY <1>5
<1> HIDE DEF p
<1>9. /\ InPushOrder(Append(history, p)) /\ NewestOf(Append(pkts, p), Append(history, p))
      /\ Anchored(Append(pkts, p), Append(history, p)) /\ Len(Append(pkts, p)) > 0
  BY <1>2, <1>6, <1>7, PushedInOrder
<1>10. NewestOf(Trim(Append(pkts, p)), Append(history, p)) /\ Anchored(Trim(Append(pkts, p)), Append(history, p))
  BY <1>9, TrimKeeps
<1>11. QED BY <1>8, <1>9, <1>10 DEF RingInv

\* What the ring gives a relay that has sent the packets up to last: consecutive packets,
\* all newer, which continue where the relay was or begin at a keyframe.
LEMMA SnapshotContinues ==
  ASSUME RingInv, NEW last \in Nat
  PROVE  Continues(SnapshotSinceSeq(last), last)
<1> DEFINE n == Len(history)
           m == Len(pkts)
           newer == {i \in DOMAIN pkts : last = 0 \/ pkts[i].seq > last}
           k == Min(newer)
           t == SubSeq(pkts, k, m)
<1>1. pkts \in Seq(AnyPacket) /\ n \in Nat /\ m \in Nat /\ m <= n
  BY DEF RingInv, InPushOrder, NewestOf
<1>2. \A i \in 1..m : pkts[i].seq = n - m + i
  <2>1. \A i \in 1..m : n - m + i \in 1..n
    BY <1>1
  <2>2. QED BY <2>1 DEF RingInv, InPushOrder, NewestOf
<1>3. CASE newer = {}
  <2>1. SnapshotSinceSeq(last) = <<>>
    BY <1>3, Zenon DEF SnapshotSinceSeq
  <2>2. <<>> \in Seq(AnyPacket) /\ Len(<<>>) = 0 /\ 1..0 = {}
    OBVIOUS
  <2>3. QED BY <2>1, <2>2 DEF Continues
<1>4. CASE newer # {}
  <2>1. newer \in SUBSET (1..m)
    BY <1>1
  <2>2. k \in newer /\ \A i \in newer : k <= i
    BY <1>1, <1>4, <2>1, FirstPlace
  <2>3. k \in 1..m /\ (last = 0 \/ pkts[k].seq > last)
    BY <2>1, <2>2
  <2>4. \A i \in 1..m : i < k => last # 0 /\ ~(pkts[i].seq > last)
    BY <1>1, <2>2, <2>3
  <2> HIDE DEF k
  <2>5. t \in Seq(AnyPacket) /\ Len(t) = m - k + 1 /\ \A i \in 1..Len(t) : t[i] = pkts[k + i - 1]
    BY <1>1, <2>3, FromPlace
  <2> HIDE DEF t
  <2>6. \A i \in 1..Len(t) : t[i].seq = n - m + k + (i - 1)
    <3>1. ASSUME NEW i \in 1..Len(t) PROVE k + i - 1 \in 1..m /\ n - m + (k + i - 1) = n - m + k + (i - 1)
      BY <1>1, <2>3, <2>5
    <3>2. QED BY <1>2, <2>5, <3>1
  <2>7. 1 \in 1..Len(t) /\ t[1] = pkts[k] /\ t[1].seq = n - m + k
    <3>1. 1 \in 1..Len(t) /\ k + 1 - 1 = k
      BY <1>1, <2>3, <2>5
    <3>2. QED BY <1>2, <2>3, <2>5, <3>1
  <2>8. t[1].seq > last
    BY <1>1, <2>3, <2>7
  <2>9. t[1].seq = last + 1 \/ t[1].key
    <3>1. CASE k = 1
      <4>1. CASE m = n
        BY <1>1, <2>7, <2>8, <3>1, <4>1
      <4>2. CASE pkts[1].key
        BY <2>7, <3>1, <4>2
      <4>3. QED BY <4>1, <4>2 DEF RingInv, Anchored
    <3>2. CASE k # 1
      <4>1. k - 1 \in 1..m /\ k - 1 < k
        BY <1>1, <2>3, <3>2
      <4>2. pkts[k - 1].seq = n - m + (k - 1) /\ ~(pkts[k - 1].seq > last)
        BY <1>2, <2>4, <4>1
      <4>3. n - m + (k - 1) + 1 = n - m + k /\ n - m + k > last /\ ~(n - m + (k - 1) > last)
        BY <1>1, <2>3, <2>7, <2>8, <4>2
      <4>4. QED BY <1>1, <2>3, <2>7, <4>3
    <3>3. QED BY <3>1, <3>2
  <2>10. Continues(t, last)
    <3>1. \A i \in 1..Len(t) : t[i].seq = t[1].seq + (i - 1)
      BY <2>6, <2>7
    <3>2. QED BY <2>5, <2>8, <2>9, <3>1 DEF Continues
  <2>11. SnapshotSinceSeq(last) = t
    BY <1>4, Zenon DEF SnapshotSinceSeq, t, k
  <2>12. QED BY <2>10, <2>11
<1>5. QED BY <1>3, <1>4

-----------------------------------------------------------------------------
\* A clip begins at one of the ring's keyframes, and at one that is old enough when the
\* ring has one.
LEMMA ClipBegins ==
  ASSUME NEW back \in Nat, pkts \in Seq(AnyPacket)
  PROVE  LET cutoff == Last(pkts).pts - back IN
         /\ Clip(back) # <<>> => Head(Clip(back)).key
         /\ pkts # <<>> /\ KeysUpTo(pkts, cutoff) # {} =>
              /\ Clip(back) # <<>>
              /\ \E i \in KeysUpTo(pkts, cutoff) : Head(Clip(back)) = pkts[i]
<1> DEFINE cutoff == Last(pkts).pts - back
           m == Len(pkts)
           anchor == FindAnchor(pkts, cutoff)
<1>1. KeysOf(pkts) \in SUBSET (1..m) /\ KeysUpTo(pkts, cutoff) \in SUBSET KeysOf(pkts) /\ m \in Nat
  BY DEF KeysOf, KeysUpTo
<1>2. KeysUpTo(pkts, cutoff) # {} => anchor \in KeysUpTo(pkts, cutoff)
  <2>1. ASSUME KeysUpTo(pkts, cutoff) # {} PROVE anchor \in KeysUpTo(pkts, cutoff)
    <3>1. KeysUpTo(pkts, cutoff) \in SUBSET (1..m)
      BY <1>1
    <3>2. Max(KeysUpTo(pkts, cutoff)) \in KeysUpTo(pkts, cutoff)
      BY <1>1, <2>1, <3>1, LastPlace
    <3>3. anchor = Max(KeysUpTo(pkts, cutoff))
      BY <2>1, Zenon DEF FindAnchor
    <3>4. QED BY <3>2, <3>3
  <2>2. QED BY <2>1
<1>3. anchor # 0 => anchor \in KeysOf(pkts)
  <2>1. CASE KeysUpTo(pkts, cutoff) # {}
    BY <1>1, <1>2, <2>1
  <2>2. CASE KeysUpTo(pkts, cutoff) = {} /\ KeysOf(pkts) # {}
    <3>1. Min(KeysOf(pkts)) \in KeysOf(pkts)
      BY <1>1, <2>2, FirstPlace
    <3>2. anchor = Min(KeysOf(pkts))
      BY <2>2, Zenon DEF FindAnchor
    <3>3. QED BY <3>1, <3>2
  <2>3. CASE KeysUpTo(pkts, cutoff) = {} /\ KeysOf(pkts) = {}
    BY <2>3, Zenon DEF FindAnchor
  <2>4. QED BY <2>1, <2>2, <2>3
<1>4. pkts # <<>> /\ anchor # 0 => Clip(back) = SubSeq(pkts, anchor, m)
  BY Zenon DEF Clip
<1>5. Clip(back) # <<>> => pkts # <<>> /\ anchor # 0
  BY Zenon DEF Clip
<1> HIDE DEF anchor
<1>6. ASSUME anchor \in KeysOf(pkts)
      PROVE  SubSeq(pkts, anchor, m) # <<>> /\ Head(SubSeq(pkts, anchor, m)) = pkts[anchor]
  <2> DEFINE t == SubSeq(pkts, anchor, m)
  <2>1. anchor \in 1..m
    BY <1>1, <1>6
  <2>2. t \in Seq(AnyPacket) /\ Len(t) = m - anchor + 1 /\ \A i \in 1..Len(t) : t[i] = pkts[anchor + i - 1]
    BY <2>1, FromPlace
  <2> HIDE DEF t
  <2>3. Len(t) # 0 /\ 1 \in 1..Len(t) /\ anchor + 1 - 1 = anchor
    BY <1>1, <2>1, <2>2
  <2>4. t # <<>> /\ Head(t) = t[1]
    BY <2>2, <2>3
  <2>5. QED BY <2>2, <2>3, <2>4 DEF t
<1>7. Clip(back) # <<>> => Head(Clip(back)).key
  <2>1. SUFFICES ASSUME Clip(back) # <<>> PROVE Head(Clip(back)).key
    OBVIOUS
  <2>2. anchor \in KeysOf(pkts) /\ Clip(back) = SubSeq(pkts, anchor, m)
    BY <1>3, <1>4, <1>5, <2>1
  <2>3. Head(Clip(back)) = pkts[anchor]
    BY <1>6, <2>2
  <2>4. pkts[anchor].key
    BY <2>2 DEF KeysOf
  <2>5. QED BY <2>3, <2>4
<1>8. ASSUME pkts # <<>>, KeysUpTo(pkts, cutoff) # {}
      PROVE  /\ Clip(back) # <<>>
             /\ \E i \in KeysUpTo(pkts, cutoff) : Head(Clip(back)) = pkts[i]
  <2>1. anchor \in KeysUpTo(pkts, cutoff) /\ anchor \in KeysOf(pkts)
    BY <1>1, <1>2, <1>8
  <2>2. anchor # 0
    BY <1>1, <2>1
  <2>3. Clip(back) = SubSeq(pkts, anchor, m)
    BY <1>4, <1>8, <2>2
  <2>4. QED BY <1>6, <2>1, <2>3
<1>9. QED BY <1>7, <1>8

\* On a source with true timestamps the ring still has the keyframe that FindAnchor needs.
LEMMA KeyIsKept ==
  ASSUME RingInv, TruePts, NEW back \in 0..RingSeconds, NEW i \in KeysOf(history),
         history[i].at <= Last(history).at - back
  PROVE  pkts # <<>> /\ Last(pkts).pts = Last(history).at /\ KeysUpTo(pkts, Last(pkts).pts - back) # {}
<1> DEFINE n == Len(history)
           m == Len(pkts)
<1>1. pkts \in Seq(AnyPacket) /\ history \in Seq(AnyPacket) /\ n \in Nat /\ m \in Nat /\ m <= n
  BY DEF RingInv, InPushOrder, NewestOf
<1>2. i \in 1..n /\ history[i].key
  BY <1>1 DEF KeysOf
<1>3. Last(history) = history[n] /\ Last(pkts) = pkts[m]
  BY DEF Last
<1>4. n \in 1..n /\ history[n].at \in Nat /\ history[i].at \in Nat /\ RingSeconds \in Nat /\ back \in Nat /\ back <= RingSeconds
  <2>1. n \in 1..n
    BY <1>1, <1>2
  <2>2. history[n] \in AnyPacket /\ history[i] \in AnyPacket
    BY <1>1, <1>2, <2>1
  <2>3. QED BY <2>1, <2>2, PacketRingAssumption DEF AnyPacket
<1>5. \A j \in 1..m : n - m + j \in 1..n /\ pkts[j] = history[n - m + j]
  <2>1. \A j \in 1..m : n - m + j \in 1..n
    BY <1>1
  <2>2. QED BY <2>1 DEF RingInv, NewestOf
<1>6. \A j \in 1..n : history[j].pts = history[j].at
  BY <1>1 DEF TruePts
<1>7. ASSUME NEW j \in 1..m, pkts[j].key, pkts[j].at <= history[n].at - back
      PROVE  pkts # <<>> /\ Last(pkts).pts = Last(history).at /\ j \in KeysUpTo(pkts, Last(pkts).pts - back)
  <2>1. m \in 1..m /\ n - m + m = n /\ pkts # <<>>
    BY <1>1, <1>7
  <2>2. pkts[m] = history[n] /\ pkts[m].pts = history[n].at
    BY <1>4, <1>5, <1>6, <2>1
  <2>3. pkts[j].pts = pkts[j].at
    BY <1>5, <1>6
  <2>4. pkts[j].at \in Nat
    <3>1. pkts[j] \in AnyPacket
      BY <1>1
    <3>2. QED BY <3>1 DEF AnyPacket
  <2>5. pkts[j].pts >= 0 /\ pkts[j].pts <= pkts[m].pts - back
    BY <1>7, <2>2, <2>3, <2>4
  <2>6. QED BY <1>1, <1>3, <1>7, <2>1, <2>2, <2>5 DEF KeysUpTo, KeysOf
<1>8. CASE i > n - m
  <2>1. i - (n - m) \in 1..m /\ n - m + (i - (n - m)) = i
    BY <1>1, <1>2, <1>8
  <2>2. pkts[i - (n - m)] = history[i]
    BY <1>5, <2>1
  <2>3. QED BY <1>2, <1>3, <1>7, <2>1, <2>2
<1>9. CASE ~(i > n - m)
  <2>1. m # n
    BY <1>1, <1>2, <1>9
  <2>2. m > 0 /\ pkts[1].key /\ pkts[1].at <= history[n].at - RingSeconds
    BY <2>1 DEF RingInv, Anchored
  <2>3. 1 \in 1..m
    BY <1>1, <2>2
  <2>4. pkts[1].at \in Nat
    <3>1. pkts[1] \in AnyPacket
      BY <1>1, <2>3
    <3>2. QED BY <3>1 DEF AnyPacket
  <2>5. pkts[1].at <= history[n].at - back
    BY <1>4, <2>2, <2>4
  <2>6. QED BY <1>7, <2>2, <2>3, <2>5
<1>10. QED BY <1>8, <1>9

\* Clips are decodable and reach back as far as they were asked to, whenever the ring's
\* invariant holds.
LEMMA ClipsFromRing == RingInv => ClipCoversWindow
<1>1. SUFFICES ASSUME RingInv, NEW back \in 0..RingSeconds
      PROVE  /\ Clip(back) # <<>> => Head(Clip(back)).key
             /\ TruePts =>
                  \A i \in KeysOf(history) :
                    history[i].at <= Last(history).at - back
                      => Clip(back) # <<>> /\ Head(Clip(back)).at <= Last(history).at - back
  BY Zenon DEF ClipCoversWindow
<1>2. back \in Nat /\ pkts \in Seq(AnyPacket)
  BY <1>1, PacketRingAssumption DEF RingInv, NewestOf
<1>3. Clip(back) # <<>> => Head(Clip(back)).key
  BY <1>2, ClipBegins
<1>4. ASSUME TruePts, NEW i \in KeysOf(history), history[i].at <= Last(history).at - back
      PROVE  Clip(back) # <<>> /\ Head(Clip(back)).at <= Last(history).at - back
  <2>1. pkts # <<>> /\ Last(pkts).pts = Last(history).at /\ KeysUpTo(pkts, Last(pkts).pts - back) # {}
    BY <1>1, <1>4, KeyIsKept
  <2>2. Clip(back) # <<>> /\ \E j \in KeysUpTo(pkts, Last(pkts).pts - back) : Head(Clip(back)) = pkts[j]
    BY <1>2, <2>1, ClipBegins
  <2>3. PICK j \in KeysUpTo(pkts, Last(pkts).pts - back) : Head(Clip(back)) = pkts[j]
    BY <2>2
  <2>4. j \in 1..Len(pkts) /\ pkts[j].pts <= Last(history).at - back
    BY <1>2, <2>1, <2>3 DEF KeysUpTo, KeysOf
  <2>5. pkts[j].pts = pkts[j].at
    <3>1. Len(history) - Len(pkts) + j \in 1..Len(history) /\ pkts[j] = history[Len(history) - Len(pkts) + j]
      <4>1. Len(pkts) <= Len(history) /\ Len(pkts) \in Nat /\ Len(history) \in Nat
        BY <1>1, <1>2 DEF RingInv, NewestOf, InPushOrder
      <4>2. QED BY <1>1, <2>4, <4>1 DEF RingInv, NewestOf
    <3>2. QED BY <1>4, <3>1 DEF TruePts
  <2>6. QED BY <2>2, <2>3, <2>4, <2>5
<1>5. QED BY <1>3, <1>4

-----------------------------------------------------------------------------
(* The relay *)

\* The timestamps: the output climbs from packet to packet.
TimelineInv ==
  /\ out_offset \in Nat /\ last_out \in Nat \cup {NoPts} /\ last_delta \in Nat \ {0}
  /\ relay_pc = "write" /\ last_out >= 0 => Head(batch).pts + out_offset > last_out

\* The batch goes on where the relay is, and is there only between a poll and its end.
BatchInv ==
  /\ last_sent \in Nat /\ Continues(batch, last_sent)
  /\ batch # <<>> => relay_pc \in {"send", "write"}
  /\ relay_pc = "write" => batch # <<>>

SentPacket == [seq : Nat \ {0}, key : BOOLEAN, out : Nat \cup {NoPts}]

\* What was sent ends with the cursor's packet and the timeline's last output.
SentInv ==
  /\ sent \in Seq(SentPacket)
  /\ last_sent = (IF sent = <<>> THEN 0 ELSE sent[Len(sent)].seq)
  /\ last_out = (IF sent = <<>> THEN NoPts ELSE sent[Len(sent)].out)
  /\ PublishedSeamlessly

RelayInv == RingInv /\ TimelineInv /\ BatchInv /\ SentInv

\* The invariant holds at first.
LEMMA RelayStarts == RelayInit => RelayInv
<1>1. SUFFICES ASSUME RelayInit PROVE RelayInv
  OBVIOUS
<1>2. RingInv
  BY <1>1, RingStarts DEF RelayInit
<1>3. TimelineInv
  BY <1>1, StreamRelayAssumption DEF RelayInit, TimelineInv, NoPts
<1>4. batch = <<>> /\ sent = <<>> /\ last_sent = 0 /\ last_out = NoPts /\ relay_pc = "top"
  BY <1>1 DEF RelayInit
<1>5. <<>> \in Seq(AnyPacket) /\ Len(<<>>) = 0 /\ 1..0 = {}
  OBVIOUS
<1>6. BatchInv
  BY <1>4, <1>5 DEF BatchInv, Continues
<1>7. SentInv
  <2>1. sent \in Seq(SentPacket) /\ DOMAIN sent = {}
    BY <1>4
  <2>2. PublishedSeamlessly
    BY <2>1, Zenon DEF PublishedSeamlessly, SentInOrder, OutputClimbs, GapResumesAtKeyframe
  <2>3. QED BY <1>4, <2>1, <2>2, Zenon DEF SentInv
<1>8. QED BY <1>2, <1>3, <1>6, <1>7 DEF RelayInv

\* The producer's steps leave the relay alone.
LEMMA ProducerKeepsRelay == RelayInv /\ ProducerStep => RelayInv'
<1>1. SUFFICES ASSUME RelayInv, ProducerStep PROVE RelayInv'
  OBVIOUS
<1>2. RingInv'
  <2>1. CASE PushPacket
    BY <1>1, <2>1, PushKeepsRing DEF RelayInv
  <2>2. CASE SetCodecParameters
    BY <1>1, <2>2 DEF RelayInv, RingInv, SetCodecParameters
  <2>3. QED BY <1>1, <2>1, <2>2 DEF ProducerStep
<1>3. UNCHANGED <<relay_stopping, relay_pc, batch, last_sent, out_offset, last_out, last_delta, sent>>
  BY <1>1 DEF ProducerStep, relayState, timeline
<1>4. TimelineInv' /\ BatchInv'
  BY <1>1, <1>3 DEF RelayInv, TimelineInv, BatchInv
<1>5. SentInv'
  BY <1>1, <1>3
     DEF RelayInv, SentInv, PublishedSeamlessly, SentInOrder, OutputClimbs, GapResumesAtKeyframe
<1>6. QED BY <1>2, <1>4, <1>5 DEF RelayInv

\* No packet is left to be sent.
LEMMA NothingContinues == ASSUME NEW last PROVE Continues(<<>>, last)
<1>1. <<>> \in Seq(AnyPacket) /\ Len(<<>>) = 0 /\ 1..0 = {}
  OBVIOUS
<1>2. QED BY <1>1 DEF Continues

\* Neither the ring nor what was sent is touched by the steps around a packet's write.
LEMMA RingAndSentKept ==
  ASSUME RelayInv, UNCHANGED <<opened, pkts, history, last_sent, last_out, sent>>
  PROVE  RingInv' /\ SentInv'
BY DEF RelayInv, RingInv, SentInv, PublishedSeamlessly, SentInOrder, OutputClimbs, GapResumesAtKeyframe

\* Moving on without a packet: connections, polls, sleeps, failures, Stop.
LEMMA MovingKeepsRelay ==
  RelayInv /\ (RelayTop \/ Connect \/ PollRing \/ BatchDone \/ WriteFails \/ Backoff \/ RelayStop) => RelayInv'
<1>1. SUFFICES ASSUME RelayInv, RelayTop \/ Connect \/ PollRing \/ BatchDone \/ WriteFails \/ Backoff \/ RelayStop
      PROVE  RelayInv'
  OBVIOUS
<1>2. UNCHANGED <<opened, pkts, history, last_sent, out_offset, last_out, last_delta, sent>>
  BY <1>1 DEF RelayTop, Connect, PollRing, BatchDone, WriteFails, Backoff, RelayStop, KeepTimeline, timeline, ringState
<1>3. \/ UNCHANGED <<batch, relay_pc>>
      \/ relay_pc' # "write" /\ UNCHANGED batch /\ relay_pc \notin {"send", "write"}
      \/ relay_pc' = "send" /\ batch' = SnapshotSinceSeq(last_sent)
      \/ relay_pc' # "write" /\ batch' = <<>>
  BY <1>1 DEF RelayTop, Connect, PollRing, BatchDone, WriteFails, Backoff, RelayStop
<1>4. RingInv' /\ SentInv'
  BY <1>1, <1>2, RingAndSentKept
<1>5. TimelineInv'
  BY <1>1, <1>2, <1>3, Zenon DEF RelayInv, TimelineInv
<1>6. BatchInv'
  <2>1. last_sent \in Nat /\ last_sent' = last_sent /\ BatchInv
    BY <1>1, <1>2 DEF RelayInv, BatchInv
  <2>2. CASE UNCHANGED <<batch, relay_pc>>
    BY <2>1, <2>2 DEF BatchInv
  <2>3. CASE relay_pc' # "write" /\ UNCHANGED batch /\ relay_pc \notin {"send", "write"}
    BY <2>1, <2>3 DEF BatchInv
  <2>4. CASE relay_pc' = "send" /\ batch' = SnapshotSinceSeq(last_sent)
    <3>1. Continues(batch', last_sent')
      BY <1>1, <2>1, <2>4, SnapshotContinues DEF RelayInv
    <3>2. QED BY <2>1, <2>4, <3>1 DEF BatchInv
  <2>5. CASE relay_pc' # "write" /\ batch' = <<>>
    BY <2>1, <2>5, NothingContinues DEF BatchInv
  <2>6. QED BY <1>3, <2>2, <2>3, <2>4, <2>5
<1>7. QED BY <1>4, <1>5, <1>6 DEF RelayInv

\* The first packet of a batch.
LEMMA HeadOfBatch ==
  ASSUME BatchInv, batch # <<>>
  PROVE  /\ Head(batch) = batch[1] /\ Head(batch) \in AnyPacket
         /\ Head(batch).seq \in Nat \ {0} /\ Head(batch).key \in BOOLEAN
         /\ Head(batch).pts \in Nat \cup {NoPts}
         /\ Head(batch).seq > last_sent /\ (Head(batch).seq = last_sent + 1 \/ Head(batch).key)
<1>1. batch \in Seq(AnyPacket)
  BY DEF BatchInv, Continues
<1>2. Head(batch) = batch[1] /\ Head(batch) \in AnyPacket
  BY <1>1
<1>3. QED BY <1>2 DEF AnyPacket, BatchInv, Continues

\* Rebasing puts the packet after what was published last.
LEMMA BeginKeepsRelay == RelayInv /\ BeginPacket => RelayInv'
<1>1. SUFFICES ASSUME RelayInv, BeginPacket PROVE RelayInv'
  OBVIOUS
<1>2. /\ UNCHANGED <<opened, pkts, history, relay_stopping, batch, last_sent, last_out, last_delta, sent>>
      /\ batch # <<>> /\ relay_pc' = "write" /\ out_offset' = OffsetFor(Head(batch))
  BY <1>1 DEF BeginPacket, ringState
<1>3. RingInv' /\ SentInv'
  BY <1>1, <1>2, RingAndSentKept
<1>4. BatchInv'
  BY <1>1, <1>2 DEF RelayInv, BatchInv
<1>5. TimelineInv'
  <2> DEFINE x == Head(batch).pts
  <2>1. x \in Nat \cup {NoPts}
    BY <1>1, <1>2, HeadOfBatch DEF RelayInv
  <2>2. out_offset \in Nat /\ last_out \in Nat \cup {NoPts} /\ last_delta \in Nat \ {0}
    BY <1>1 DEF RelayInv, TimelineInv
  <2>3. CASE last_out >= 0 /\ x + out_offset <= last_out
    <3>1. out_offset' = last_out + last_delta - x
      BY <1>2, <2>3 DEF OffsetFor, Rebased
    <3> HIDE DEF x
    <3>2. out_offset' \in Nat /\ x + out_offset' > last_out
      BY <2>1, <2>2, <2>3, <3>1 DEF NoPts
    <3>3. QED BY <1>2, <2>2, <3>2 DEF TimelineInv, x
  <2>4. CASE ~(last_out >= 0 /\ x + out_offset <= last_out)
    <3>1. out_offset' = out_offset
      BY <1>2, <2>4 DEF OffsetFor, Rebased
    <3> HIDE DEF x
    <3>2. last_out >= 0 => x + out_offset > last_out
      BY <2>1, <2>2, <2>4 DEF NoPts
    <3>3. QED BY <1>2, <2>2, <3>1, <3>2 DEF TimelineInv, x
  <2>5. QED BY <2>3, <2>4
<1>6. QED BY <1>3, <1>4, <1>5 DEF RelayInv

\* The rest of a batch goes on after its first packet.
LEMMA RestContinues ==
  ASSUME NEW t, NEW last, Continues(t, last), t # <<>>
  PROVE  Continues(Tail(t), Head(t).seq)
<1>1. t \in Seq(AnyPacket) /\ Len(t) \in Nat /\ Len(t) > 0
  BY DEF Continues
<1>2. /\ Tail(t) \in Seq(AnyPacket) /\ Len(Tail(t)) = Len(t) - 1
      /\ \A i \in 1..Len(Tail(t)) : Tail(t)[i] = t[i + 1]
      /\ Head(t) = t[1]
  BY <1>1
<1>3. t[1].seq \in Nat
  <2>1. t[1] \in AnyPacket
    BY <1>1
  <2>2. QED BY <2>1 DEF AnyPacket
<1>4. \A i \in 1..Len(Tail(t)) : Tail(t)[i].seq = Head(t).seq + i
  <2>1. ASSUME NEW i \in 1..Len(Tail(t)) PROVE Tail(t)[i].seq = Head(t).seq + i
    <3>1. i + 1 \in 1..Len(t) /\ i + 1 - 1 = i
      BY <1>1, <1>2
    <3>2. t[i + 1].seq = t[1].seq + (i + 1 - 1)
      BY <3>1 DEF Continues
    <3>3. QED BY <1>2, <3>1, <3>2
  <2>2. QED BY <2>1
<1>5. CASE Tail(t) = <<>>
  BY <1>5, NothingContinues
<1>6. CASE Tail(t) # <<>>
  <2>1. 1 \in 1..Len(Tail(t))
    BY <1>1, <1>2, <1>6
  <2>2. Tail(t)[1].seq = Head(t).seq + 1
    BY <1>4, <2>1
  <2>3. \A i \in 1..Len(Tail(t)) : Tail(t)[i].seq = Tail(t)[1].seq + (i - 1)
    BY <1>2, <1>3, <1>4, <2>2
  <2>4. Tail(t)[1].seq > Head(t).seq
    <3>1. Head(t).seq \in Nat
      BY <1>2, <1>3, Zenon
    <3>2. \A a \in Nat : a + 1 > a
      OBVIOUS
    <3>3. QED BY <2>2, <3>1, <3>2, Zenon
  <2>5. QED BY <1>2, <2>2, <2>3, <2>4 DEF Continues
<1>7. QED BY <1>5, <1>6

\* One more packet is published.
LEMMA PublishedOnwards ==
  ASSUME SentInv, NEW p \in SentPacket,
         p.seq > last_sent, p.seq = last_sent + 1 \/ p.key,
         last_out >= 0 => p.out > last_out,
         sent' = Append(sent, p)
  PROVE  PublishedSeamlessly' /\ sent' \in Seq(SentPacket)
         /\ sent' # <<>> /\ sent'[Len(sent')] = p
<1> DEFINE n == Len(sent)
<1>1. sent \in Seq(SentPacket) /\ n \in Nat
  BY DEF SentInv
<1>2. /\ sent' \in Seq(SentPacket) /\ Len(sent') = n + 1 /\ DOMAIN sent' = 1..(n + 1) /\ DOMAIN sent = 1..n
      /\ sent'[n + 1] = p /\ (\A i \in 1..n : sent'[i] = sent[i])
  BY <1>1
<1>3. \A i \in 1..n : sent[i] \in SentPacket /\ sent[i].seq \in Nat /\ sent[i].out \in Int
  <2>1. ASSUME NEW i \in 1..n PROVE sent[i] \in SentPacket
    BY <1>1
  <2>2. \A x \in SentPacket : x.seq \in Nat /\ x.out \in Int
    BY DEF SentPacket, NoPts
  <2>3. QED BY <2>1, <2>2, Zenon
<1>4. n > 0 => last_sent = sent[n].seq /\ last_out = sent[n].out /\ n \in 1..n
  BY <1>1 DEF SentInv
<1>5. n = 0 => last_sent = 0
  BY <1>1 DEF SentInv
<1>6. p.seq \in Nat /\ p.out \in Int
  BY DEF SentPacket, NoPts
<1> HIDE DEF n
<1>7. \A i \in 1..(n + 1) : i \in 1..n \/ i = n + 1
  BY <1>1
<1>8. ASSUME NEW i \in 1..n PROVE sent[i].seq < p.seq /\ (sent[i].out >= 0 => sent[i].out < p.out)
  <2>1. n > 0 /\ n \in 1..n /\ (i < n \/ i = n)
    BY <1>1
  <2>2. CASE i = n
    BY <1>3, <1>4, <1>6, <2>1, <2>2
  <2>3. CASE i < n
    <3>1. sent[i].seq < sent[n].seq /\ (sent[i].out >= 0 => sent[i].out < sent[n].out)
      BY <1>2, <2>1, <2>3 DEF SentInv, PublishedSeamlessly, SentInOrder, OutputClimbs
    <3>2. sent[n].seq < p.seq
      BY <1>4, <2>1
    <3>3. sent[i].out >= 0 => sent[n].out >= 0 /\ sent[n].out < p.out
      BY <1>3, <1>4, <2>1, <3>1
    <3>4. QED BY <1>3, <1>6, <2>1, <3>1, <3>2, <3>3
  <2>4. QED BY <2>1, <2>2, <2>3
<1>9. ASSUME NEW i \in 1..(n + 1), NEW j \in 1..(n + 1), i < j
      PROVE  /\ sent'[i].seq < sent'[j].seq
             /\ sent'[i].out >= 0 => sent'[i].out < sent'[j].out
  <2>1. i \in 1..n
    BY <1>1, <1>9
  <2>2. CASE j = n + 1
    BY <1>2, <1>8, <2>1, <2>2
  <2>3. CASE j \in 1..n
    <3>1. /\ sent[i].seq < sent[j].seq
          /\ sent[i].out >= 0 => sent[i].out < sent[j].out
      BY <1>2, <1>9, <2>1, <2>3 DEF SentInv, PublishedSeamlessly, SentInOrder, OutputClimbs
    <3>2. QED BY <1>2, <2>1, <2>3, <3>1
  <2>4. QED BY <1>7, <2>2, <2>3
<1>10. ASSUME NEW j \in 1..(n + 1),
              sent'[j].seq # (IF j = 1 THEN 0 ELSE sent'[j - 1].seq) + 1
       PROVE  sent'[j].key
  <2>1. CASE j \in 1..n
    <3>1. j # 1 => j - 1 \in 1..n
      BY <1>1, <2>1
    <3>2. (IF j = 1 THEN 0 ELSE sent'[j - 1].seq) = (IF j = 1 THEN 0 ELSE sent[j - 1].seq)
      BY <1>2, <3>1
    <3>3. sent[j].seq # (IF j = 1 THEN 0 ELSE sent[j - 1].seq) + 1
      BY <1>2, <1>10, <2>1, <3>2
    <3>4. sent[j].key
      BY <1>2, <2>1, <3>3 DEF SentInv, PublishedSeamlessly, GapResumesAtKeyframe
    <3>5. QED BY <1>2, <2>1, <3>4
  <2>2. CASE j = n + 1
    <3>1. (IF j = 1 THEN 0 ELSE sent'[j - 1].seq) = last_sent
      <4>1. CASE n = 0
        BY <1>5, <2>2, <4>1
      <4>2. CASE n > 0
        <5>1. j # 1 /\ j - 1 = n /\ n \in 1..n
          BY <1>1, <2>2, <4>2
        <5>2. sent'[j - 1] = sent[n] /\ last_sent = sent[n].seq
          BY <1>2, <1>4, <4>2, <5>1, Zenon
        <5>3. (IF j = 1 THEN 0 ELSE sent'[j - 1].seq) = sent'[j - 1].seq
          BY <5>1
        <5>4. sent'[j - 1].seq = last_sent
          BY <5>2, Zenon
        <5>5. QED BY <5>3, <5>4, Zenon
      <4>3. n = 0 \/ n > 0
        BY <1>1
      <4>4. QED BY <4>1, <4>2, <4>3, Zenon
    <3>2. p.seq # last_sent + 1
      BY <1>2, <1>10, <2>2, <3>1
    <3>3. QED BY <1>2, <2>2, <3>2
  <2>3. QED BY <1>7, <2>1, <2>2
<1>11. SentInOrder' /\ OutputClimbs'
  BY <1>2, <1>9 DEF SentInOrder, OutputClimbs
<1>12. GapResumesAtKeyframe'
  BY <1>2, <1>10 DEF GapResumesAtKeyframe
<1>13. sent' # <<>>
  BY <1>1, <1>2
<1>14. QED BY <1>2, <1>11, <1>12, <1>13 DEF PublishedSeamlessly

\* A packet is written: cursor, timeline and batch move on together.
LEMMA WriteKeepsRelay == RelayInv /\ WritePacket => RelayInv'
<1>1. SUFFICES ASSUME RelayInv, WritePacket PROVE RelayInv'
  OBVIOUS
<1> DEFINE p == Head(batch)
           out == p.pts + out_offset
           s == [seq |-> p.seq, key |-> p.key, out |-> out]
<1>2. /\ relay_pc = "write" /\ relay_pc' = "send" /\ batch' = Tail(batch)
      /\ last_delta' = (IF last_out >= 0 THEN out - last_out ELSE last_delta)
      /\ last_out' = out /\ last_sent' = p.seq /\ sent' = Append(sent, s)
      /\ UNCHANGED <<opened, pkts, history, out_offset>>
  BY <1>1 DEF WritePacket, ringState
<1>3. RingInv' /\ TimelineInv /\ BatchInv /\ SentInv
  BY <1>1, <1>2 DEF RelayInv, RingInv
<1>4. batch # <<>>
  BY <1>2, <1>3 DEF BatchInv
<1>5. /\ p.seq \in Nat \ {0} /\ p.key \in BOOLEAN /\ p.pts \in Nat \cup {NoPts}
      /\ p.seq > last_sent /\ (p.seq = last_sent + 1 \/ p.key)
  BY <1>3, <1>4, HeadOfBatch
<1>6. /\ out_offset \in Nat /\ last_out \in Nat \cup {NoPts} /\ last_delta \in Nat \ {0}
      /\ last_out >= 0 => out > last_out
  BY <1>2, <1>3 DEF TimelineInv
<1>7. out \in Nat \cup {NoPts}
  <2>1. \A a \in Nat \cup {NoPts}, b \in Nat : a + b \in Nat \cup {NoPts}
    BY DEF NoPts
  <2>2. QED BY <1>5, <1>6, <2>1
<1>8. s \in SentPacket /\ s.seq = p.seq /\ s.key = p.key /\ s.out = out
  BY <1>5, <1>7 DEF SentPacket
<1>9. BatchInv'
  <2>1. Continues(batch', last_sent')
    BY <1>2, <1>3, <1>4, RestContinues DEF BatchInv
  <2>2. QED BY <1>2, <1>5, <2>1 DEF BatchInv
<1> HIDE DEF out, s
<1>10. TimelineInv'
  <2>1. last_delta' \in Nat \ {0}
    BY <1>2, <1>6, <1>7 DEF NoPts
  <2>2. QED BY <1>2, <1>6, <1>7, <2>1 DEF TimelineInv
<1> HIDE DEF p
<1>11. SentInv'
  <2>1. /\ PublishedSeamlessly' /\ sent' \in Seq(SentPacket)
        /\ sent' # <<>> /\ sent'[Len(sent')] = s
    BY <1>2, <1>3, <1>5, <1>6, <1>8, PublishedOnwards
  <2>2. last_sent' = sent'[Len(sent')].seq /\ last_out' = sent'[Len(sent')].out
    BY <1>2, <1>8, <2>1
  <2>3. QED BY <2>1, <2>2, Zenon DEF SentInv
<1>12. QED BY <1>3, <1>9, <1>10, <1>11 DEF RelayInv

\* The ring and the relay keep the invariant, whatever the camera sends and however often the
\* connection is lost.
THEOREM RelayInvariant == RelaySpec => []RelayInv
<1>1. RelayInv /\ UNCHANGED relayVars => RelayInv'
  <2>1. SUFFICES ASSUME RelayInv, UNCHANGED relayVars PROVE RelayInv'
    OBVIOUS
  <2>2. UNCHANGED <<opened, pkts, history, relay_stopping, relay_pc, batch, last_sent, out_offset, last_out, last_delta, sent>>
    BY <2>1 DEF relayVars, relayState, ringState, timeline
  <2>3. RingInv' /\ SentInv'
    BY <2>1, <2>2, RingAndSentKept
  <2>4. TimelineInv' /\ BatchInv'
    BY <2>1, <2>2 DEF RelayInv, TimelineInv, BatchInv
  <2>5. QED BY <2>3, <2>4 DEF RelayInv
<1>2. RelayInv /\ [RelayNext]_relayVars => RelayInv'
  BY <1>1, ProducerKeepsRelay, MovingKeepsRelay, BeginKeepsRelay, WriteKeepsRelay, Zenon DEF RelayNext, RelayStep
<1>3. QED BY <1>2, RelayStarts, PTL DEF RelaySpec

\* PublishedSeamlessly for any window and any packets: over all reconnects a viewer sees one
\* stream, in order, with climbing timestamps, that leaves out whole groups of pictures only.
THEOREM StreamIsSeamless == RelaySpec => []PublishedSeamlessly
<1>1. RelayInv => PublishedSeamlessly
  BY DEF RelayInv, SentInv
<1>2. QED BY <1>1, RelayInvariant, PTL

\* ClipCoversWindow for any window and any packets: trimming never removes the keyframe that
\* a clip within ring_seconds starts at.
THEOREM ClipsReachBack == RelaySpec => []ClipCoversWindow
<1>1. RelayInv => ClipCoversWindow
  BY ClipsFromRing DEF RelayInv
<1>2. QED BY <1>1, RelayInvariant, PTL
=============================================================================
