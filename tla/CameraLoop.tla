----------------------------- MODULE CameraLoop -----------------------------
(***************************************************************************)
(* One producer thread around a camera that fails (ProducerLoop in         *)
(* pipeline.cpp, with the surfaces of NvDecoder.cpp): open, demux, decode, *)
(* pop, and after any error a retry with exponential backoff until the     *)
(* camera has been silent for too long.  Its ring of frame copies is the   *)
(* module Nv12Ring; the slots it passes on are released by others.  The    *)
(* demuxer (FFmpeg) delivers a packet, ends or fails; the batcher gives a  *)
(* slot or, once stopping, refuses.  In keyframe-only mode a packet may be *)
(* dropped before the decoder, which is a demux step like any other.       *)
(* Durations are in units of the first backoff (250 ms in the code).       *)
(***************************************************************************)
EXTENDS Nv12Ring

CONSTANTS
  Cam,              \* the camera, the only stream
  FrameLimit,       \* PipelineConfig::max_frames
  PacketFrames,     \* bound: pictures one packet makes the parser display
  SkipFactor,       \* resolved skip factor
  FirstBackoff, BackoffMax, GiveUp      \* backoff_ms, kBackoffMaxMs, kGiveUpMs

ASSUME CameraAssumption ==
  /\ Streams = {Cam}
  /\ {FrameLimit, PacketFrames, SkipFactor, FirstBackoff} \subseteq Nat \ {0}
  /\ BackoffMax \in Nat /\ BackoffMax >= FirstBackoff
  /\ GiveUp \in Nat

VARIABLES
  file,             \* the source is a file, not an rtsp:// url
  stop,             \* Impl::stop
  lpc,              \* where ProducerLoop stands (see LoopPcs)
  ready_frames,     \* frames decoded and not popped
  mapped,           \* surfaces the decoder has mapped and not unmapped
  decoded, inferred,
  backoff,
  silence,          \* now - last_success
  gave_up,          \* StreamAtomic::failed
  \* Where the time since the last decoded frame went (history):
  slept,            \* in backoffs
  reading,          \* opening the camera and reading from it
  stalled           \* waiting for a ring or a batch slot, that is for the consumers

times == <<silence, slept, reading, stalled>>
loopVars == <<file, stop, lpc, ready_frames, mapped, decoded, inferred, backoff,
              gave_up, times>>
cameraVars == <<rvars, loopVars>>

\* outer: at the reconnect loop's condition; demux, pop: at those of the two inner
\* loops; ended: both left; caught: in the catch block.
LoopPcs == {"outer", "open", "demux", "decode", "pop", "ring", "batch",
            "preprocess", "ended", "caught", "done"}

\* Bound: past GiveUp no more time is counted, but for the backoff that led there.
LongestSilence == GiveUp + BackoffMax

CameraTypeOK ==
  /\ TypeOK
  /\ {file, stop, gave_up} \subseteq BOOLEAN
  /\ lpc \in LoopPcs
  /\ ready_frames \in 0..PacketFrames /\ mapped \in Nat
  /\ {decoded, inferred} \subseteq 0..FrameLimit
  /\ backoff \in FirstBackoff..BackoffMax
  /\ {silence, slept, reading, stalled} \subseteq 0..LongestSilence

CameraInit ==
  /\ Init
  /\ file \in BOOLEAN /\ stop = FALSE
  /\ lpc = "outer"
  /\ ready_frames = 0 /\ mapped = 0
  /\ decoded = 0 /\ inferred = 0
  /\ backoff = FirstBackoff
  /\ gave_up = FALSE
  /\ silence = 0 /\ slept = 0 /\ reading = 0 /\ stalled = 0

-----------------------------------------------------------------------------
StillWanted == ~stop /\ decoded < FrameLimit

\* For stream id 0.
Skipped(n) == n % SkipFactor # 0

\* The end of the try block, by an exception or not: demuxer and decoder are
\* destroyed, and with the decoder every surface it had mapped.
LeaveTry(place) == lpc' = place /\ ready_frames' = 0 /\ mapped' = 0

Outer ==
  /\ lpc = "outer"
  /\ lpc' = IF StillWanted THEN "open" ELSE "done"
  /\ UNCHANGED <<rvars, file, stop, ready_frames, mapped, decoded, inferred,
                 backoff, gave_up, times>>

Open ==
  /\ lpc = "open"
  /\ \/ lpc' = "demux" /\ UNCHANGED <<ready_frames, mapped>>
     \/ LeaveTry("caught")
  /\ UNCHANGED <<rvars, file, stop, decoded, inferred, backoff, gave_up, times>>

\* Demux returns false at the end, on an error and after its read timeout.
Demux ==
  /\ lpc = "demux"
  /\ lpc' \in IF StillWanted THEN {"decode", "ended"} ELSE {"ended"}
  /\ UNCHANGED <<rvars, file, stop, ready_frames, mapped, decoded, inferred,
                 backoff, gave_up, times>>

\* The parser calls back for the pictures to display; each is mapped and queued
\* unless the map fails.
DecodePacket ==
  /\ lpc = "decode"
  /\ \/ \E n \in 0..PacketFrames :
          /\ ready_frames + n <= PacketFrames
          /\ ready_frames' = ready_frames + n
          /\ mapped' = mapped + n
          /\ lpc' = "pop"
     \/ LeaveTry("caught")
  /\ UNCHANGED <<rvars, file, stop, decoded, inferred, backoff, gave_up, times>>

PopsFrame == StillWanted /\ ready_frames > 0

RefreshNothing == UNCHANGED silence                             \* mutant

RefreshSuccess == silence' = 0

ResetBackoff == backoff' = FirstBackoff

\* PopFrame; a skipped frame is released at once.
PopFrame ==
  /\ lpc = "pop"
  /\ PopsFrame
  /\ ready_frames' = ready_frames - 1
  /\ decoded' = decoded + 1
  /\ RefreshSuccess /\ ResetBackoff
  /\ slept' = 0 /\ reading' = 0 /\ stalled' = 0
  /\ IF Skipped(decoded + 1) THEN mapped' = mapped - 1 /\ UNCHANGED lpc
                             ELSE lpc' = "ring" /\ UNCHANGED mapped
  /\ UNCHANGED <<rvars, file, stop, inferred, gave_up>>

PopsBeforeCheck ==                                              \* mutant
  ready_frames' = (IF ready_frames > 0 THEN ready_frames - 1 ELSE 0)

ChecksBeforePop == UNCHANGED ready_frames

NoMoreFrames ==
  /\ lpc = "pop"
  /\ ~PopsFrame
  /\ ChecksBeforePop
  /\ lpc' = "demux"
  /\ UNCHANGED <<rvars, file, stop, mapped, decoded, inferred, backoff, gave_up, times>>

\* Ensure, which may throw, and AcquireSlot; a wait leaves the thread where it is.
ClaimRingSlot ==
  /\ lpc = "ring"
  /\ LET k == inferred % Depth IN
       \/ /\ \E d \in Dims : EnsureFits(Cam, d) \/ EnsureWait(Cam, d) \/ EnsureRealloc(Cam, d)
          /\ UNCHANGED <<lpc, ready_frames, mapped>>
       \/ (\E d \in Dims : EnsureFails(Cam, d)) /\ LeaveTry("caught")
       \/ AcquireSlotWait(Cam, k) /\ UNCHANGED <<lpc, ready_frames, mapped>>
       \/ AcquireSlot(Cam, k) /\ lpc' = "batch" /\ UNCHANGED <<ready_frames, mapped>>
  /\ UNCHANGED <<file, stop, decoded, inferred, backoff, gave_up, times>>

\* Refused: release the ring slot and the surface and leave both loops.
ClaimBatchSlot ==
  /\ lpc = "batch"
  /\ \/ lpc' = "preprocess" /\ UNCHANGED <<rvars, mapped>>
     \/ stop /\ ReleaseOwn(Cam) /\ mapped' = mapped - 1 /\ lpc' = "ended"
  /\ UNCHANGED <<file, stop, ready_frames, decoded, inferred, backoff, gave_up, times>>

\* Letterbox and copy, release the surface, pass the ring slot on.
PreprocessFrame ==
  /\ lpc = "preprocess"
  /\ \/ PassOn(Cam) /\ inferred' = inferred + 1 /\ mapped' = mapped - 1
        /\ lpc' = "pop" /\ UNCHANGED ready_frames
     \/ ReleaseOwn(Cam) /\ LeaveTry("caught") /\ inferred' \in {inferred, inferred + 1}
  /\ UNCHANGED <<file, stop, decoded, backoff, gave_up, times>>

EndsCleanly == file

\* The demuxer has nothing more: an error if frames are still wanted from a
\* camera, the end of a file otherwise.
Ended ==
  /\ lpc = "ended"
  /\ LeaveTry(IF StillWanted /\ ~EndsCleanly THEN "caught" ELSE "done")
  /\ UNCHANGED <<rvars, file, stop, decoded, inferred, backoff, gave_up, times>>

GiveUpCamera ==
  /\ lpc = "caught"
  /\ silence > GiveUp
  /\ gave_up' = TRUE
  /\ lpc' = "done"
  /\ UNCHANGED <<rvars, file, stop, ready_frames, mapped, decoded, inferred, backoff,
                 times>>

\* Sleep for the backoff, double it, start over.
Retry ==
  /\ lpc = "caught"
  /\ silence <= GiveUp
  /\ silence' = silence + backoff /\ slept' = slept + backoff
  /\ backoff' = IF backoff * 2 > BackoffMax THEN BackoffMax ELSE backoff * 2
  /\ lpc' = "outer"
  /\ UNCHANGED <<rvars, file, stop, ready_frames, mapped, decoded, inferred, gave_up,
                 reading, stalled>>

CameraStep ==
  \/ Outer \/ Open \/ Demux \/ DecodePacket \/ PopFrame \/ NoMoreFrames
  \/ ClaimRingSlot \/ ClaimBatchSlot \/ PreprocessFrame
  \/ Ended \/ GiveUpCamera \/ Retry

-----------------------------------------------------------------------------
\* Time passes while the thread opens or reads from the camera, or waits for a
\* ring or a batch slot: the clock of the code does not tell the two apart.
TimePasses ==
  /\ silence <= GiveUp
  /\ silence' = silence + 1
  /\ \/ lpc \in {"open", "demux"} /\ reading' = reading + 1 /\ UNCHANGED stalled
     \/ lpc \in {"ring", "batch"} /\ stalled' = stalled + 1 /\ UNCHANGED reading
  /\ UNCHANGED <<rvars, file, stop, lpc, ready_frames, mapped, decoded, inferred,
                 backoff, gave_up, slept>>

SetStop ==
  /\ ~stop
  /\ stop' = TRUE
  /\ UNCHANGED <<rvars, file, lpc, ready_frames, mapped, decoded, inferred, backoff,
                 gave_up, times>>

Release(k) == ReleaseSlot(Cam, k) /\ UNCHANGED loopVars

SpuriousWake == SpuriousRing(Cam) /\ UNCHANGED loopVars

CameraNext ==
  \/ CameraStep \/ TimePasses \/ SetStop
  \/ \E k \in Slots : Release(k)
  \/ SpuriousWake

\* The thread runs, its reads time out, and whoever has a ring slot releases it.
CameraFairness ==
  /\ WF_cameraVars(CameraStep)
  /\ \A k \in Slots : SF_cameraVars(Release(k))

CameraSpec == CameraInit /\ [][CameraNext]_cameraVars /\ CameraFairness

-----------------------------------------------------------------------------
\* Every mapped surface is queued in the decoder or belongs to the frame the
\* thread is working on: none is popped and forgotten when the run is over, on
\* the skip path or after a refusal (NVDEC has two output surfaces).
SurfacesOwned ==
  mapped = ready_frames + (IF lpc \in {"ring", "batch", "preprocess"} THEN 1 ELSE 0)

\* A producer gives up only when kGiveUpMs have passed since its last frame in
\* backoffs, in opening and reading from the camera and in waits for the consumers:
\* a camera that flaps, however often, keeps its producer as long as nobody holds
\* the thread up.  The last summand is not in the comment ("CONSECUTIVE failure"):
\* a thread that waited for a slot longer than that gives up at the first failure.
FlappingCameraKept == gave_up => slept + reading + stalled > GiveUp

\* The next backoff is as long as all those since the last frame together and the
\* first one again, which is what doubling comes to, up to kBackoffMaxMs: opening
\* the camera does not reset it, only a decoded frame does.
BackoffDoubles ==
  backoff = IF FirstBackoff + slept < BackoffMax THEN FirstBackoff + slept ELSE BackoffMax

\* The producer of a live camera never takes a disconnect for the end of its
\* stream.
LiveCameraStays ==
  lpc = "done" => file \/ stop \/ gave_up \/ decoded = FrameLimit

\* A camera's thread leaves before Stop() and before its last frame only when it
\* had no frame for kGiveUpMs, and backs off the longer the longer that lasts.
CameraKept == FlappingCameraKept /\ BackoffDoubles /\ LiveCameraStays

\* After Stop() the thread reaches ProducerDone from wherever it is, provided the
\* frames it waits for are released.
CameraEnds == stop ~> lpc = "done"
=============================================================================
