------------------------------- MODULE Capacity -------------------------------
(***************************************************************************)
(* pycamtrt.recommend(): does a fleet of cameras hold real time on the     *)
(* measured GPU, what limits it, and which dials to turn if it does not    *)
(* (_capacity.py).                                                         *)
(*                                                                         *)
(* A request is [streams, resolution, fps, skip, decode, key_gop, sahi],   *)
(* where sahi is {} or {[tile, overlap, full_frame, serial]}, overlap in   *)
(* hundredths.  The code divides floating-point rates; here each rate is a *)
(* fraction over the same denominator, kept as its numerator.  GPU time is *)
(* counted in microseconds, frame areas in units of 320 x 720 pixels.      *)
(***************************************************************************)
EXTENDS SahiTiles, FiniteSets

CONSTANT DoubleShort  \* FloatShort of double precision

ASSUME DoubleAssumption ==
  \A p \in DoubleShort :
    p[1] \in Nat \ {0} /\ p[2] \in 0..90 /\ (p[1] * (100 - p[2])) % 100 = 0

CeilDiv(a, b) == (a + b - 1) \div b

-----------------------------------------------------------------------------
(* The measured constants *)

Resolutions == [r720p |-> [w |-> 1280, h |-> 720], r1080p |-> [w |-> 1920, h |-> 1080],
                r1440p |-> [w |-> 2560, h |-> 1440], r4k |-> [w |-> 3840, h |-> 2160]]

BaselineCost == [r720p |-> 1940, r1080p |-> 2050, r1440p |-> 2060, r4k |-> 2090]

\* A fixed part per frame and a part per tile (0.4963 ms for pooled, cut to microseconds).
SahiModel == [pooled |-> [fixed |-> 305, tile |-> 496], serial |-> [fixed |-> 998, tile |-> 490],
              key |-> [fixed |-> 3185, tile |-> 482]]

Pixels(res) == (Resolutions[res].w * Resolutions[res].h) \div (320 * 720)

GpuBudget == 1000000                    \* microseconds per second

NvdecBudget == 42 * 30 * 4 + 15 * 4     \* 42.5 streams of 720p at 30 frames per second

DecodeKinds == {"all", "key"}

\* What recommend() answers with a ValueError.
Refused(q) ==
  \/ q.resolution \notin DOMAIN Resolutions
  \/ q.decode \notin DecodeKinds
  \/ q.streams < 1
  \/ q.skip < 1

-----------------------------------------------------------------------------
(* Tiles, counted without laying them out *)

TileOffsetsLate(frame, tile, stride) ==                          \* mutant
  IF frame <= tile THEN 1 ELSE (frame - tile) \div stride + 2

\* Length of _tile_offsets_1d: every o = 0, stride, .. whose tile ends before the frame
\* does, and one flush with the edge.
TileOffsets(frame, tile, stride) ==
  IF frame <= tile THEN 1 ELSE CeilDiv(frame - tile, stride) + 1

\* The stride as Python computes it.
PredictedStride(s) == CutShare(s.tile, s.overlap, DoubleShort)

SahiTileCount(resolution, s) ==
  LET r      == Resolutions[resolution]
      stride == PredictedStride(s)
  IN  TileOffsets(r.w, s.tile, stride) * TileOffsets(r.h, s.tile, stride)
        + (IF s.full_frame THEN 1 ELSE 0)

-----------------------------------------------------------------------------
(* The cost of a frame, the load, the capacity *)

Regime(q, s) ==
  IF q.decode = "key" THEN "key" ELSE IF s.serial THEN "serial" ELSE "pooled"

Tiled(q) == q.sahi # {}

\* predicted_gpu_ms_per_frame
Cost(q) ==
  IF ~Tiled(q) THEN BaselineCost[q.resolution]
  ELSE LET s == CHOOSE s \in q.sahi : TRUE
           m == SahiModel[Regime(q, s)]
       IN  m.fixed + m.tile * SahiTileCount(q.resolution, s)

\* One frame in so many is decoded.
Every(q) == IF q.decode = "key" THEN q.key_gop ELSE 1

\* gpu_ratio = GpuLoad / GpuRoom, nvdec_ratio = NvdecLoad / NvdecRoom
GpuLoad(q) == q.streams * q.fps * Cost(q)
GpuRoom(q) == GpuBudget * Every(q) * q.skip
NvdecLoad(q) == q.streams * q.fps * Pixels(q.resolution)
NvdecRoom(q) == NvdecBudget * Every(q)

GpuHolds(q) == GpuLoad(q) <= GpuRoom(q)
NvdecHolds(q) == NvdecLoad(q) <= NvdecRoom(q)

\* holds_realtime
Holds(q) == GpuHolds(q) /\ NvdecHolds(q)

GpuDominatesUnskipped(q) ==                                      \* mutant
  Cost(q) * (NvdecBudget \div 100) >= Pixels(q.resolution) * (GpuBudget \div 100)

\* gpu_ratio >= nvdec_ratio, with what both have in common divided out.
GpuDominates(q) ==
  Cost(q) * (NvdecBudget \div 100) >= Pixels(q.resolution) * (GpuBudget \div 100) * q.skip

\* binding_resource; below half of either budget nothing binds.
Binding(q) ==
  IF 2 * GpuLoad(q) < GpuRoom(q) /\ 2 * NvdecLoad(q) < NvdecRoom(q) THEN "none"
  ELSE IF GpuDominates(q) THEN "gpu-inference" ELSE "nvdec"

-----------------------------------------------------------------------------
(* The dials of a suggestion *)

RoundedSkip(q) ==                                                \* mutant
  Larger(1, (2 * GpuLoad(q) + GpuBudget * Every(q)) \div (2 * GpuBudget * Every(q)))

\* ceil(skip * gpu_ratio)
NeededSkip(q) == CeilDiv(GpuLoad(q), GpuBudget * Every(q))

\* max(1, floor(streams / nvdec_ratio))
NeededStreams(q) == Larger(1, NvdecRoom(q) \div (q.fps * Pixels(q.resolution)))

\* Every numbered dial of the suggestion, turned.
Turned(q) ==
  [q EXCEPT !.skip    = IF GpuHolds(q) THEN @ ELSE NeededSkip(q),
            !.streams = IF NvdecHolds(q) THEN @ ELSE NeededStreams(q)]

\* The other two: decode="key", and bigger tiles.
KeyOnly(q) == [q EXCEPT !.decode = "key"]

BiggerTiles(q) == [q EXCEPT !.sahi = {[s EXCEPT !.tile = 1280] : s \in @}]

Alternatives(q) ==
       (IF q.decode # "key" THEN {KeyOnly(q)} ELSE {})
  \cup (IF ~GpuHolds(q) /\ \E s \in q.sahi : s.tile < 1280 THEN {BiggerTiles(q)} ELSE {})

\* A single camera of this resolution and rate is more than NVDEC decodes.
OneIsTooMany(q) == q.streams = 1 /\ ~NvdecHolds(q)
=============================================================================
