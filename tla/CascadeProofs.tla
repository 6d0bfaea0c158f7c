---------------------------- MODULE CascadeProofs ----------------------------
(***************************************************************************)
(* Theorems about what the package makes of a program, Validate of a       *)
(* graph, GpuLoop of a batch, and a Result of what GpuLoop found.          *)
(*                                                                         *)
(* The tile grid, for frames, tiles and overlaps of any size, and the      *)
(* promises of recommend(), for every request: it counts the tiles of that *)
(* very grid, turning the dials it names is enough, and the resource it    *)
(* calls binding is overcommitted.                                         *)
(*                                                                         *)
(* Validate, for every configuration: what it accepts is what the trees of *)
(* depth two are, wire by wire.  Line and Back are recursive functions;    *)
(* what is known of them is argued by induction over places, a lemma here  *)
(* (UpTo).                                                                 *)
(*                                                                         *)
(* The executor, for any number of detections, slots, child layers and     *)
(* chunks and any pace of the CUDA streams.  CascadeInv says what a stream *)
(* holds while work is queued on it (StreamRight): the operations left are *)
(* the last ones of those queued, and what the ones before did is in the   *)
(* buffers, row by row.  From it the host knows at every join what is in   *)
(* front of it, and the outputs hold the rows decoded so far (OutRight).   *)
(*                                                                         *)
(* The compiler, for every program: after n steps, listed in whatever      *)
(* layers, the graph is the first n objects of the listing, every wire the *)
(* last listing of the object referred to (Compiled).  From there a        *)
(* running program's outputs are followed back, from the name to the       *)
(* child, its steps, their objects and what these were to say.             *)
(***************************************************************************)
EXTENDS Cascade, Application, TLAPS, FiniteSetTheorems, WellFoundedInduction

-----------------------------------------------------------------------------
(* Arithmetic *)

\* A product of naturals is a natural.
LEMMA ProductType ==
  ASSUME NEW a \in Nat, NEW b \in Nat
  PROVE  a * b \in Nat
OBVIOUS

\* A product grows with its first factor.
LEMMA ProductGrows ==
  ASSUME NEW a \in Nat, NEW b \in Nat, NEW c \in Nat, a <= b
  PROVE  a * c <= b * c
OBVIOUS

\* The ceiling of a quotient, multiplied back, is no less.
LEMMA CeilDivCovers ==
  ASSUME NEW a \in Nat, NEW b \in Nat \ {0}
  PROVE  CeilDiv(a, b) \in Nat /\ a <= b * CeilDiv(a, b)
<1> DEFINE n == a + b - 1
<1> DEFINE k == n \div b
<1>1. n \in Nat
  OBVIOUS
<1>2. n = b * k + (n % b) /\ n % b \in 0..(b - 1)
  BY <1>1
<1>3. k \in Nat
  BY <1>1
<1>4. b * k \in Nat
  BY <1>3
<1>5. CeilDiv(a, b) = k
  BY DEF CeilDiv
<1> HIDE DEF k
<1> QED
  BY <1>2, <1>3, <1>4, <1>5

\* The floor of a quotient, multiplied back, is no more.
LEMMA FloorDivFits ==
  ASSUME NEW a \in Nat, NEW b \in Nat \ {0}
  PROVE  a \div b \in Nat /\ (a \div b) * b <= a /\ a < (a \div b) * b + b
<1> DEFINE k == a \div b
<1>1. a = b * k + (a % b) /\ a % b \in 0..(b - 1)
  OBVIOUS
<1>2. k \in Nat
  OBVIOUS
<1>3. b * k \in Nat /\ k * b = b * k
  BY <1>2
<1> HIDE DEF k
<1>4. k \in Nat /\ k * b <= a /\ a < k * b + b
  BY <1>1, <1>2, <1>3
<1> QED
  BY <1>4 DEF k

-----------------------------------------------------------------------------
(* The tile grid *)

\* Between x - stride and x there is a multiple of stride.
LEMMA Multiple ==
  ASSUME NEW x \in Nat, NEW stride \in Nat \ {0}
  PROVE  \E k \in 0..x : k * stride <= x /\ x < k * stride + stride
<1> DEFINE k == x \div stride
<1>1. x = stride * k + (x % stride)
  OBVIOUS
<1>2. x % stride \in 0..(stride - 1)
  OBVIOUS
<1>3. k \in Nat
  OBVIOUS
<1>4. k <= x
  OBVIOUS
<1>5. k * stride = stride * k
  BY <1>3
<1> HIDE DEF k
<1>6. stride * k \in Nat
  BY <1>3
<1>7. k * stride <= x /\ x < k * stride + stride
  BY <1>1, <1>2, <1>5, <1>6
<1> QED
  BY <1>3, <1>4, <1>7

\* An object no longer than the overlap of two tiles (plus one pixel) lies in one
\* of the tiles of its axis.
LEMMA AxisCovered ==
  ASSUME NEW frame \in Nat \ {0}, NEW tile \in Nat \ {0}, NEW stride \in 1..tile,
         NEW x \in Nat, NEW len \in Nat,
         x + len <= frame, len <= tile - stride + 1
  PROVE  \E o \in TileOffsets1D(frame, tile, stride) :
            o <= x /\ x + len <= o + Smaller(tile, frame)
<1>1. CASE frame <= tile
  BY <1>1 DEF TileOffsets1D, Smaller
<1>2. CASE frame > tile
  <2>0. stride \in Nat \ {0}
    OBVIOUS
  <2>1. PICK k \in 0..x : k * stride <= x /\ x < k * stride + stride
    BY <2>0, Multiple
  <2>2. k * stride \in Int
    BY <2>1
  <2>3. Smaller(tile, frame) = tile
    BY <1>2 DEF Smaller
  <2>4. CASE k * stride + tile < frame
    <3>1. k \in 0..frame
      BY <2>1
    <3>2. k * stride \in TileOffsets1D(frame, tile, stride)
      BY <1>2, <2>4, <3>1 DEF TileOffsets1D, FrameSteps
    <3> QED
      BY <2>1, <2>2, <2>3, <3>2
  <2>5. CASE k * stride + tile >= frame
    <3>1. frame - tile \in TileOffsets1D(frame, tile, stride)
      BY <1>2 DEF TileOffsets1D
    <3>2. frame - tile <= x /\ x + len <= (frame - tile) + tile
      BY <2>1, <2>2, <2>5
    <3> QED
      BY <2>3, <3>1, <3>2
  <2> QED
    BY <2>2, <2>4, <2>5
<1> QED
  BY <1>1, <1>2

\* Every offset keeps its tile within the frame.
LEMMA AxisInside ==
  ASSUME NEW frame \in Nat \ {0}, NEW tile \in Nat \ {0}, NEW stride \in Nat \ {0},
         NEW o \in TileOffsets1D(frame, tile, stride)
  PROVE  o \in Nat /\ o + Smaller(tile, frame) <= frame
<1>1. CASE frame <= tile
  BY <1>1 DEF TileOffsets1D, Smaller
<1>2. CASE frame > tile
  <2>1. \A k \in 0..frame : k * stride \in Nat
    OBVIOUS
  <2>2. CASE o \in FrameSteps(frame, tile, stride)
    BY <1>2, <2>1, <2>2 DEF FrameSteps, Smaller
  <2>3. CASE o = frame - tile
    BY <1>2, <2>3 DEF Smaller
  <2> QED
    BY <1>2, <2>2, <2>3 DEF TileOffsets1D
<1> QED
  BY <1>1, <1>2

\* Dividing undoes multiplying.
LEMMA DivExact ==
  ASSUME NEW m \in Nat, NEW s \in Nat \ {0}
  PROVE  (m * s) \div s = m
OBVIOUS

\* Both strides are between one pixel and the tile, whatever overlap is configured and
\* whichever products a precision cuts short.
LEMMA CutShareBounds ==
  ASSUME NEW tile \in Nat \ {0}, NEW overlap \in Int, NEW short
  PROVE  CutShare(tile, overlap, short) \in 1..tile
<1> DEFINE share == Smaller(Larger(overlap, 0), 90)
           part == tile * (100 - share)
           less == IF <<tile, share>> \in short THEN 1 ELSE 0
<1>1. share \in 0..90
  BY DEF Smaller, Larger
<1>2. CutShare(tile, overlap, short) = Larger(1, part \div 100 - less)
  BY DEF CutShare
<1>3. less \in 0..1
  OBVIOUS
<1> HIDE DEF share, less
<1>4. part \in 0..(tile * 100)
  BY <1>1
<1> HIDE DEF part
<1>5. part \div 100 \in 0..tile
  BY <1>4
<1> QED
  BY <1>2, <1>3, <1>5 DEF Larger

\* In particular that of the grid.
LEMMA StrideBounds ==
  ASSUME NEW tile \in Nat \ {0}, NEW overlap \in Int
  PROVE  Stride(tile, overlap) \in 1..tile
BY CutShareBounds DEF Stride

\* So it is positive.
LEMMA StridePositive ==
  ASSUME NEW tile \in Nat \ {0}, NEW overlap \in Int
  PROVE  Stride(tile, overlap) \in Nat \ {0}
<1>1. Stride(tile, overlap) \in 1..tile
  BY StrideBounds
<1> QED
  BY <1>1

\* And the one the prediction steps by.
LEMMA PredictedStridePositive ==
  ASSUME NEW s, s.tile \in Nat \ {0}, s.overlap \in Int
  PROVE  PredictedStride(s) \in Nat \ {0}
<1>1. PredictedStride(s) \in 1..s.tile
  BY CutShareBounds DEF PredictedStride
<1> QED
  BY <1>1

Rects == [x : Nat, y : Nat, w : Nat, h : Nat]

\* An object of the frame that is not larger than what two neighbouring tiles share
\* (plus one pixel) lies whole in some tile, however frame, tile and overlap are
\* chosen: slicing the frame cuts no small object (sahi_tiles.h, "never leaving
\* uncovered pixels").
THEOREM TilesCoverObjects ==
  ASSUME NEW w \in Nat \ {0}, NEW h \in Nat \ {0},
         NEW tile \in Nat \ {0}, NEW overlap \in Int,
         NEW obj \in Rects, Within(obj, Rect(0, 0, w, h)),
         obj.w <= tile - Stride(tile, overlap) + 1,
         obj.h <= tile - Stride(tile, overlap) + 1
  PROVE  \E r \in MakeTileGrid(w, h, tile, overlap) : Within(obj, r)
<1> DEFINE stride == Stride(tile, overlap)
<1>1. stride \in 1..tile
  BY StrideBounds
<1>2. /\ obj.x \in Nat /\ obj.y \in Nat /\ obj.w \in Nat /\ obj.h \in Nat
      /\ obj.x + obj.w <= w /\ obj.y + obj.h <= h
  BY DEF Within, Rect, Rects
<1> HIDE DEF stride
<1>3. obj.w <= tile - stride + 1 /\ obj.h <= tile - stride + 1
  BY DEF stride
<1>4. PICK ox \in TileOffsets1D(w, tile, stride) :
         ox <= obj.x /\ obj.x + obj.w <= ox + Smaller(tile, w)
  BY <1>1, <1>2, <1>3, AxisCovered
<1>5. PICK oy \in TileOffsets1D(h, tile, stride) :
         oy <= obj.y /\ obj.y + obj.h <= oy + Smaller(tile, h)
  BY <1>1, <1>2, <1>3, AxisCovered
<1> DEFINE r == Rect(ox, oy, Smaller(tile, w), Smaller(tile, h))
<1>6. r \in MakeTileGrid(w, h, tile, overlap)
  <2>1. <<ox, oy>> \in TileOffsets1D(w, tile, stride) \X TileOffsets1D(h, tile, stride)
    BY <1>4, <1>5
  <2> QED
    BY <2>1 DEF MakeTileGrid, stride
<1>7. Within(obj, r)
  BY <1>4, <1>5 DEF Within, Rect
<1> QED
  BY <1>6, <1>7

\* No tile hangs over the edge of its frame.
THEOREM TilesInsideFrame ==
  ASSUME NEW w \in Nat \ {0}, NEW h \in Nat \ {0},
         NEW tile \in Nat \ {0}, NEW overlap \in Int,
         NEW r \in MakeTileGrid(w, h, tile, overlap)
  PROVE  Within(r, Rect(0, 0, w, h))
<1> DEFINE stride == Stride(tile, overlap)
<1>0. stride \in 1..tile
  BY StrideBounds
<1> HIDE DEF stride
<1>1. stride \in Nat \ {0}
  BY <1>0
<1>2. PICK o \in TileOffsets1D(w, tile, stride) \X TileOffsets1D(h, tile, stride) :
         r = Rect(o[1], o[2], Smaller(tile, w), Smaller(tile, h))
  BY DEF MakeTileGrid, stride
<1>3. o[1] \in Nat /\ o[1] + Smaller(tile, w) <= w
  BY <1>1, <1>2, AxisInside
<1>4. o[2] \in Nat /\ o[2] + Smaller(tile, h) <= h
  BY <1>1, <1>2, AxisInside
<1> QED
  BY <1>2, <1>3, <1>4 DEF Within, Rect

\* A box found in a square tile comes back exactly as it was, for any object that lies
\* whole in the tile: on squares the stretch of the crop kernel and the letterbox
\* the decoder undoes are the same map.
THEOREM SquareTilesExact ==
  ASSUME NEW side \in Nat \ {0}, NEW m \in Nat \ {0}, NEW r \in Rects,
         r.w = side, r.h = side, NEW box \in Rects, Within(box, r)
  PROVE  Decoded(Stretched(box, r, m * side), r, m * side) = box
<1> DEFINE net == m * side
<1>1. net \div side = m
  BY DivExact
<1>2. Letterbox(r.w, r.h, net) = [scale |-> m, pad_x |-> 0, pad_y |-> 0]
  <2>1. Larger(r.w, r.h) = side
    BY DEF Larger
  <2>2. net - side * m = 0
    OBVIOUS
  <2> QED
    BY <1>1, <2>1, <2>2 DEF Letterbox
<1>3. Stretched(box, r, net) =
        Rect((box.x - r.x) * m, (box.y - r.y) * m, box.w * m, box.h * m)
  BY <1>1 DEF Stretched
<1>4. /\ box.x - r.x \in Nat /\ box.y - r.y \in Nat
      /\ box.w \in Nat /\ box.h \in Nat
      /\ box.x - r.x + box.w <= side /\ box.y - r.y + box.h <= side
  BY DEF Within, Rects
<1>5. \A v \in Nat : (v * m) \div m = v
  BY DivExact
<1> HIDE DEF net
<1> DEFINE dx == box.x - r.x
           dy == box.y - r.y
<1>6. Decoded(Stretched(box, r, net), r, net) =
        Rect(Larger(dx, 0) + r.x, Larger(dy, 0) + r.y,
             Larger(Smaller(dx + box.w, r.w) - Larger(dx, 0), 0),
             Larger(Smaller(dy + box.h, r.h) - Larger(dy, 0), 0))
  <2>1. ((dx * m) - 0) \div m = dx /\ ((dy * m) - 0) \div m = dy
    BY <1>4, <1>5
  <2>2. (box.w * m) \div m = box.w /\ (box.h * m) \div m = box.h
    BY <1>4, <1>5
  <2> QED
    BY <1>2, <1>3, <2>1, <2>2 DEF Decoded, Rect
<1>7. Rect(Larger(dx, 0) + r.x, Larger(dy, 0) + r.y,
           Larger(Smaller(dx + box.w, r.w) - Larger(dx, 0), 0),
           Larger(Smaller(dy + box.h, r.h) - Larger(dy, 0), 0))
        = Rect(box.x, box.y, box.w, box.h)
  BY <1>4 DEF Larger, Smaller, Rects
<1>8. Rect(box.x, box.y, box.w, box.h) = box
  BY DEF Rect, Rects
<1> QED
  BY <1>6, <1>7, <1>8 DEF net

-----------------------------------------------------------------------------
(* Types *)

\* The invariant: a request that has not been settled is a request.
Typed == request = Settled \/ request \in Request

\* What recommend() does not refuse.
Accepted(q) == q \in Request /\ ~Refused(q)

\* The number of offsets of an axis is a natural.
LEMMA OffsetsType ==
  ASSUME NEW frame \in Nat, NEW tile \in Nat \ {0}, NEW stride \in Nat \ {0}
  PROVE  TileOffsets(frame, tile, stride) \in Nat
<1>1. CASE frame <= tile
  BY <1>1 DEF TileOffsets
<1>2. CASE frame > tile
  <2>1. frame - tile \in Nat
    BY <1>2
  <2>2. CeilDiv(frame - tile, stride) \in Nat
    BY <2>1, CeilDivCovers
  <2> QED
    BY <1>2, <2>2 DEF TileOffsets
<1> QED
  BY <1>1, <1>2

\* The side of a frame is a natural, its area positive.
LEMMA ResolutionType ==
  ASSUME NEW res \in DOMAIN Resolutions
  PROVE  /\ Resolutions[res].w \in Nat \ {0} /\ Resolutions[res].h \in Nat \ {0}
         /\ Pixels(res) \in Nat \ {0}
         /\ BaselineCost[res] \in Nat
<1>1. res \in {"r720p", "r1080p", "r1440p", "r4k"}
  BY DEF Resolutions
<1>2. CASE res = "r720p"
  BY <1>2 DEF Resolutions, Pixels, BaselineCost
<1>3. CASE res = "r1080p"
  BY <1>3 DEF Resolutions, Pixels, BaselineCost
<1>4. CASE res = "r1440p"
  BY <1>4 DEF Resolutions, Pixels, BaselineCost
<1>5. CASE res = "r4k"
  BY <1>5 DEF Resolutions, Pixels, BaselineCost
<1> QED
  BY <1>1, <1>2, <1>3, <1>4, <1>5

\* What a frame costs is a natural.
LEMMA CostType ==
  ASSUME NEW q, Accepted(q)
  PROVE  Cost(q) \in Nat
<1>1. q \in Request /\ q.resolution \in DOMAIN Resolutions
  BY DEF Accepted, Refused
<1>2. CASE ~Tiled(q)
  BY <1>1, <1>2, ResolutionType DEF Cost
<1>3. CASE Tiled(q)
  <2> DEFINE s == CHOOSE s \in q.sahi : TRUE
  <2> DEFINE m == SahiModel[Regime(q, s)]
  <2> DEFINE r == Resolutions[q.resolution]
  <2> DEFINE stride == PredictedStride(s)
  <2>1. s \in q.sahi
    BY <1>3 DEF Tiled
  <2>2. /\ s.tile \in Nat \ {0} /\ s.overlap \in Int /\ s.full_frame \in BOOLEAN
        /\ s.serial \in BOOLEAN
    BY <1>1, <2>1 DEF Request
  <2>3. m.fixed \in Nat /\ m.tile \in Nat
    BY <2>2 DEF Regime, SahiModel
  <2>4. stride \in Nat \ {0}
    BY <2>2, PredictedStridePositive
  <2>5. r.w \in Nat /\ r.h \in Nat
    BY <1>1, ResolutionType
  <2>6. SahiTileCount(q.resolution, s)
          = TileOffsets(r.w, s.tile, stride) * TileOffsets(r.h, s.tile, stride)
              + (IF s.full_frame THEN 1 ELSE 0)
    BY DEF SahiTileCount
  <2>7. Cost(q) = m.fixed + m.tile * SahiTileCount(q.resolution, s)
    BY <1>3 DEF Cost
  <2> HIDE DEF s, m, r, stride
  <2>8. /\ TileOffsets(r.w, s.tile, stride) \in Nat
        /\ TileOffsets(r.h, s.tile, stride) \in Nat
    BY <2>2, <2>4, <2>5, OffsetsType
  <2>9. SahiTileCount(q.resolution, s) \in Nat
    BY <2>6, <2>8, ProductType
  <2>10. m.tile * SahiTileCount(q.resolution, s) \in Nat
    BY <2>3, <2>9, ProductType
  <2> QED
    BY <2>3, <2>7, <2>10
<1> QED
  BY <1>2, <1>3

\* The fields of a request that is not refused, and what is computed from them.
LEMMA AcceptedType ==
  ASSUME NEW q, Accepted(q)
  PROVE  /\ q.streams \in Nat \ {0} /\ q.fps \in Nat \ {0} /\ q.skip \in Nat \ {0}
         /\ Pixels(q.resolution) \in Nat \ {0}
         /\ Cost(q) \in Nat /\ Every(q) \in Nat \ {0}
<1>1. /\ q \in Request /\ q.resolution \in DOMAIN Resolutions
      /\ ~(q.streams < 1) /\ ~(q.skip < 1)
  BY DEF Accepted, Refused
<1>2. q.streams \in Nat \ {0} /\ q.fps \in Nat \ {0} /\ q.skip \in Nat \ {0}
  BY <1>1 DEF Request
<1>3. Every(q) \in Nat \ {0}
  BY <1>1 DEF Request, Every
<1> QED
  BY <1>1, <1>2, <1>3, ResolutionType, CostType

-----------------------------------------------------------------------------
(* Turning the dials *)

\* The suggested number of streams is at least one, no more than asked, and fits the
\* decoder unless it is one.
LEMMA SuggestedStreams ==
  ASSUME NEW q, Accepted(q), ~NvdecHolds(q)
  PROVE  /\ NeededStreams(q) \in Nat \ {0} /\ NeededStreams(q) <= q.streams
         /\ \/ NeededStreams(q) * q.fps * Pixels(q.resolution) <= NvdecRoom(q)
            \/ NeededStreams(q) = 1
<1> DEFINE n == q.streams
<1> DEFINE f == q.fps
<1> DEFINE p == Pixels(q.resolution)
<1> DEFINE u == f * p
<1> DEFINE R == NvdecRoom(q)
<1> DEFINE k == R \div u
<1>1. n \in Nat \ {0} /\ f \in Nat \ {0} /\ p \in Nat \ {0} /\ Every(q) \in Nat \ {0}
  BY AcceptedType
<1>2. R \in Nat
  BY <1>1 DEF NvdecRoom, NvdecBudget
<1>3. u \in Nat \ {0}
  BY <1>1
<1>4. n * f * p > R
  BY <1>1, <1>2 DEF NvdecHolds, NvdecLoad
<1>5. NeededStreams(q) = Larger(1, k)
  BY DEF NeededStreams
<1> HIDE DEF n, f, p, R
<1>6. n * f * p = n * u
  BY <1>1
<1> HIDE DEF u
<1>7. k \in Nat /\ k * u <= R
  BY <1>2, <1>3, FloorDivFits
<1> HIDE DEF k
<1>8. k <= n
  <2>1. SUFFICES ASSUME k >= n PROVE k * u >= n * u
    BY <1>1, <1>2, <1>3, <1>4, <1>6, <1>7
  <2> QED
    BY <1>1, <1>3, <1>7, <2>1, ProductGrows
<1>9. k * f * p = k * u
  BY <1>1, <1>7 DEF u
<1>10. NeededStreams(q) = k \/ NeededStreams(q) = 1
  BY <1>5, <1>7 DEF Larger
<1>11. NeededStreams(q) \in Nat \ {0} /\ NeededStreams(q) <= n
  BY <1>1, <1>5, <1>7, <1>8 DEF Larger
<1>12. k * f * p <= R
  BY <1>7, <1>9
<1>13. NeededStreams(q) * f * p <= R \/ NeededStreams(q) = 1
  BY <1>10, <1>12
<1> QED
  BY <1>11, <1>13 DEF n, f, p, R

\* A request with another skip and another number of streams.
Dialled(q, a, b) == [q EXCEPT !.skip = a, !.streams = b]

\* It is a request.
LEMMA OtherDials ==
  ASSUME NEW q \in Request, NEW a \in Nat, NEW b \in Nat
  PROVE  LET t == Dialled(q, a, b)
         IN  /\ t \in Request /\ t.skip = a /\ t.streams = b
             /\ t.fps = q.fps /\ t.resolution = q.resolution /\ t.decode = q.decode
             /\ t.key_gop = q.key_gop /\ t.sahi = q.sahi
<1> DEFINE u == [q EXCEPT !.skip = a]
<1>1. /\ u \in Request /\ u.skip = a
      /\ u.fps = q.fps /\ u.resolution = q.resolution /\ u.decode = q.decode
      /\ u.key_gop = q.key_gop /\ u.sahi = q.sahi
  BY DEF Request
<1>2. Dialled(q, a, b) = [u EXCEPT !.streams = b]
  BY Zenon DEF Dialled
<1> HIDE DEF u
<1>3. /\ [u EXCEPT !.streams = b] \in Request
      /\ [u EXCEPT !.streams = b].streams = b
      /\ [u EXCEPT !.streams = b].skip = u.skip
      /\ [u EXCEPT !.streams = b].fps = u.fps
      /\ [u EXCEPT !.streams = b].resolution = u.resolution
      /\ [u EXCEPT !.streams = b].decode = u.decode
      /\ [u EXCEPT !.streams = b].key_gop = u.key_gop
      /\ [u EXCEPT !.streams = b].sahi = u.sahi
  BY <1>1 DEF Request
<1> QED
  BY <1>1, <1>2, <1>3

\* Turning the dials of a request leaves a request that costs as much per frame.
LEMMA TurnedKeeps ==
  ASSUME NEW q, Accepted(q)
  PROVE  /\ Accepted(Turned(q))
         /\ Turned(q).streams <= q.streams
         /\ Cost(Turned(q)) = Cost(q) /\ Every(Turned(q)) = Every(q)
         /\ Turned(q).fps = q.fps /\ Turned(q).resolution = q.resolution
<1> DEFINE t == Turned(q)
<1> DEFINE a == IF GpuHolds(q) THEN q.skip ELSE NeededSkip(q)
<1> DEFINE b == IF NvdecHolds(q) THEN q.streams ELSE NeededStreams(q)
<1>1. q \in Request /\ ~Refused(q)
  BY DEF Accepted
<1>2. q.streams \in Nat \ {0} /\ q.skip \in Nat \ {0}
  BY AcceptedType
<1>3. t = Dialled(q, a, b)
  BY Zenon DEF Turned, Dialled
<1>4. b \in Nat \ {0} /\ b <= q.streams
  BY <1>2, SuggestedStreams
<1>5. a \in Nat \ {0}
  <2>1. CASE GpuHolds(q)
    BY <1>2, <2>1
  <2>2. CASE ~GpuHolds(q)
    <3> DEFINE L == GpuLoad(q)
    <3> DEFINE B == GpuBudget * Every(q)
    <3>1. /\ q.streams \in Nat \ {0} /\ q.fps \in Nat \ {0} /\ Cost(q) \in Nat
          /\ Every(q) \in Nat \ {0}
      BY AcceptedType
    <3>2. B \in Nat \ {0}
      BY <3>1 DEF GpuBudget
    <3>3. q.streams * q.fps \in Nat
      BY <3>1, ProductType
    <3>4. L \in Nat
      BY <3>1, <3>3, ProductType DEF GpuLoad
    <3>5. GpuRoom(q) = B * q.skip
      BY <3>1 DEF GpuRoom
    <3>6. NeededSkip(q) = CeilDiv(L, B)
      BY DEF NeededSkip
    <3>7. ~(L <= B * q.skip)
      BY <2>2, <3>5 DEF GpuHolds
    <3> HIDE DEF L, B
    <3>8. CeilDiv(L, B) \in Nat /\ L <= B * CeilDiv(L, B)
      BY <3>2, <3>4, CeilDivCovers
    <3>9. CeilDiv(L, B) # 0
      BY <1>2, <3>2, <3>4, <3>7, <3>8, ProductType
    <3> QED
      BY <2>2, <3>6, <3>8, <3>9
  <2> QED
    BY <2>1, <2>2
<1> HIDE DEF t, a, b
<1>6. /\ t \in Request /\ t.skip = a /\ t.streams = b
      /\ t.fps = q.fps /\ t.resolution = q.resolution /\ t.decode = q.decode
      /\ t.key_gop = q.key_gop /\ t.sahi = q.sahi
  <2>1. a \in Nat /\ b \in Nat
    BY <1>4, <1>5
  <2> QED
    BY <1>1, <1>3, <2>1, OtherDials
<1>7. Accepted(t)
  BY <1>1, <1>4, <1>5, <1>6 DEF Accepted, Refused
<1>8. Cost(t) = Cost(q)
  BY <1>6 DEF Cost, Tiled, Regime
<1>9. Every(t) = Every(q)
  BY <1>6 DEF Every
<1> QED
  BY <1>4, <1>6, <1>7, <1>8, <1>9 DEF t

\* Once the dials are turned the GPU holds.
LEMMA TurnedGpuHolds ==
  ASSUME NEW q, Accepted(q)
  PROVE  GpuHolds(Turned(q))
<1> DEFINE t == Turned(q)
<1> DEFINE f == q.fps
<1> DEFINE c == Cost(q)
<1> DEFINE B == GpuBudget * Every(q)
<1>1. /\ q.streams \in Nat \ {0} /\ f \in Nat \ {0} /\ c \in Nat /\ Every(q) \in Nat \ {0}
      /\ q.skip \in Nat \ {0}
  BY AcceptedType
<1>2. /\ Accepted(t) /\ t.streams <= q.streams /\ Cost(t) = c /\ Every(t) = Every(q)
      /\ t.fps = f
  BY TurnedKeeps
<1>3. t.streams \in Nat \ {0} /\ t.skip \in Nat \ {0}
  BY <1>2, AcceptedType
<1>4. B \in Nat \ {0}
  BY <1>1 DEF GpuBudget
<1>5. GpuLoad(t) = t.streams * f * c /\ GpuLoad(q) = q.streams * f * c
  BY <1>2 DEF GpuLoad
<1>6. GpuRoom(t) = B * t.skip /\ GpuRoom(q) = B * q.skip
  BY <1>2 DEF GpuRoom
<1>7. t.skip = IF GpuHolds(q) THEN q.skip ELSE CeilDiv(GpuLoad(q), B)
  BY DEF Turned, NeededSkip, Accepted, Request
<1> HIDE DEF t, f, c, B
<1>8. t.streams * f \in Nat /\ q.streams * f \in Nat /\ t.streams * f <= q.streams * f
  BY <1>1, <1>2, <1>3, ProductType, ProductGrows
<1>9. GpuLoad(t) \in Nat /\ GpuLoad(q) \in Nat /\ GpuLoad(t) <= GpuLoad(q)
  BY <1>1, <1>5, <1>8, ProductType, ProductGrows
<1>10. GpuLoad(q) <= B * t.skip
  <2>1. CASE GpuHolds(q)
    BY <1>6, <1>7, <2>1 DEF GpuHolds
  <2>2. CASE ~GpuHolds(q)
    BY <1>4, <1>7, <1>9, <2>2, CeilDivCovers
  <2> QED
    BY <2>1, <2>2
<1>11. B * t.skip \in Nat
  BY <1>3, <1>4, ProductType
<1>12. GpuLoad(t) <= GpuRoom(t)
  BY <1>6, <1>9, <1>10, <1>11
<1> QED
  BY <1>12 DEF GpuHolds, t

\* Once the dials are turned the decoder holds, or one stream is too many for it.
LEMMA TurnedNvdecHolds ==
  ASSUME NEW q, Accepted(q)
  PROVE  NvdecHolds(Turned(q)) \/ OneIsTooMany(Turned(q))
<1> DEFINE t == Turned(q)
<1>1. /\ t.fps = q.fps /\ t.resolution = q.resolution /\ Every(t) = Every(q)
  BY TurnedKeeps
<1>2. t.streams = IF NvdecHolds(q) THEN q.streams ELSE NeededStreams(q)
  BY DEF Turned, Accepted, Request
<1> HIDE DEF t
<1>3. NvdecRoom(t) = NvdecRoom(q)
  BY <1>1 DEF NvdecRoom
<1>4. NvdecLoad(t) = t.streams * q.fps * Pixels(q.resolution)
  BY <1>1 DEF NvdecLoad
<1>5. CASE NvdecHolds(q)
  BY <1>2, <1>3, <1>4, <1>5 DEF NvdecHolds, NvdecLoad, t
<1>6. CASE ~NvdecHolds(q)
  <2>1. CASE NeededStreams(q) * q.fps * Pixels(q.resolution) <= NvdecRoom(q)
    BY <1>2, <1>3, <1>4, <1>6, <2>1 DEF NvdecHolds, t
  <2>2. CASE NeededStreams(q) = 1
    BY <1>2, <1>6, <2>2 DEF OneIsTooMany, t
  <2> QED
    BY <1>6, <2>1, <2>2, SuggestedStreams
<1> QED
  BY <1>5, <1>6 DEF t

\* What has not been settled stays a request.
LEMMA RequestStaysTyped ==
  SizingSpec => []Typed
<1>1. SizingInit => Typed
  BY RequestsAssumption DEF SizingInit, Typed
<1>2. Typed /\ [SizingNext]_request => Typed'
  <2> SUFFICES ASSUME Typed, [SizingNext]_request PROVE Typed'
    OBVIOUS
  <2>1. CASE UNCHANGED request
    BY <2>1 DEF Typed
  <2>2. CASE TurnDials
    <3>1. Accepted(request)
      BY <2>2 DEF TurnDials, Asked, Typed, Accepted
    <3>2. request' = Turned(request)
      BY <2>2 DEF TurnDials
    <3> QED
      BY <3>1, <3>2, TurnedKeeps DEF Accepted, Typed
  <2>3. CASE TakeAlternative
    <3> DEFINE q == request
    <3>1. q \in Request /\ q' \in Alternatives(q)
      BY <2>3 DEF TakeAlternative, Asked, Typed
    <3>2. CASE q' = KeyOnly(q)
      <4>1. "key" \in Names
        BY DEF Names, DecodeKinds
      <4> QED
        BY <3>1, <3>2, <4>1 DEF KeyOnly, Request, Typed
    <3>3. CASE q' = BiggerTiles(q)
      <4>1. /\ q.sahi \in SUBSET [tile : Nat \ {0}, overlap : Int, full_frame : BOOLEAN,
                                  serial : BOOLEAN]
        BY <3>1 DEF Request
      <4>2. \A s \in q.sahi :
              [s EXCEPT !.tile = 1280] \in [tile : Nat \ {0}, overlap : Int,
                                            full_frame : BOOLEAN, serial : BOOLEAN]
        BY <4>1
      <4>3. {[s EXCEPT !.tile = 1280] : s \in q.sahi}
              \in SUBSET [tile : Nat \ {0}, overlap : Int, full_frame : BOOLEAN,
                          serial : BOOLEAN]
        BY <4>2
      <4> QED
        BY <3>1, <3>3, <4>3 DEF BiggerTiles, Request, Typed
    <3> QED
      BY <3>1, <3>2, <3>3 DEF Alternatives
  <2>4. CASE Settle
    BY <2>4 DEF Settle, Typed
  <2> QED
    BY <2>1, <2>2, <2>3, <2>4 DEF SizingNext
<1> QED
  BY <1>1, <1>2, PTL DEF SizingSpec

\* DialsSuffice for every fleet and every rate: after the numbered dials of a suggestion
\* are turned, real time is held, unless one camera is more than the decoder takes.
THEOREM SuggestionSuffices == SizingSpec => DialsSuffice
<1>1. Typed /\ [SizingNext]_request
        => [TurnDials => Holds(request') \/ OneIsTooMany(request')]_request
  <2> SUFFICES ASSUME Typed, TurnDials
               PROVE  Holds(request') \/ OneIsTooMany(request')
    OBVIOUS
  <2>1. Accepted(request)
    BY DEF TurnDials, Asked, Typed, Accepted
  <2>2. request' = Turned(request)
    BY DEF TurnDials
  <2>3. GpuHolds(request')
    BY <2>1, <2>2, TurnedGpuHolds
  <2>4. NvdecHolds(request') \/ OneIsTooMany(request')
    BY <2>1, <2>2, TurnedNvdecHolds
  <2> QED
    BY <2>3, <2>4 DEF Holds
<1> QED
  BY <1>1, RequestStaysTyped, PTL DEF SizingSpec, DialsSuffice

-----------------------------------------------------------------------------
(* The binding resource *)

\* Where the GPU dominates, a decoder that does not hold means a GPU that does not: here
\* v is streams times rate, p the area, c the cost, e the decoded share and k the skip.
LEMMA DominatingGpuFails ==
  ASSUME NEW v \in Nat, NEW p \in Nat, NEW c \in Nat, NEW e \in Nat, NEW k \in Nat \ {0},
         c * 51 >= p * 10000 * k, v * p > 5100 * e
  PROVE  v * c > 1000000 * e * k
<1>1. v * p \in Nat /\ v * c \in Nat /\ c * 51 \in Nat /\ p * 10000 * k \in Nat /\ e * k \in Nat
  OBVIOUS
<1>2. (c * 51) * v >= (p * 10000 * k) * v
  BY <1>1, ProductGrows
<1>3. (c * 51) * v = 51 * (v * c) /\ (p * 10000 * k) * v = 10000 * ((v * p) * k)
  OBVIOUS
<1>4. (5100 * e + 1) * k <= (v * p) * k
  <2>1. 5100 * e + 1 \in Nat /\ k \in Nat /\ 5100 * e + 1 <= v * p
    BY <1>1
  <2> QED
    BY <1>1, <2>1, ProductGrows
<1>5. (5100 * e + 1) * k = 5100 * (e * k) + k
  OBVIOUS
<1>6. 1000000 * e * k = 1000000 * (e * k)
  OBVIOUS
<1>7. (v * p) * k \in Nat
  BY <1>1, ProductType
<1> QED
  BY <1>1, <1>2, <1>3, <1>4, <1>5, <1>6, <1>7

\* Where it does not, a GPU that does not hold means a decoder that does not.
LEMMA DominatedGpuFails ==
  ASSUME NEW v \in Nat, NEW p \in Nat, NEW c \in Nat, NEW e \in Nat, NEW k \in Nat \ {0},
         c * 51 < p * 10000 * k, v * c > 1000000 * e * k
  PROVE  v * p > 5100 * e
<1>1. v * p \in Nat /\ v * c \in Nat /\ c * 51 \in Nat /\ p * 10000 * k \in Nat /\ e * k \in Nat
  OBVIOUS
<1>2. (c * 51) * v <= (p * 10000 * k) * v
  <2>1. c * 51 <= p * 10000 * k
    BY <1>1
  <2> QED
    BY <1>1, <2>1, ProductGrows
<1>3. (c * 51) * v = 51 * (v * c) /\ (p * 10000 * k) * v = 10000 * ((v * p) * k)
  OBVIOUS
<1>4. 1000000 * e * k = 1000000 * (e * k)
  OBVIOUS
<1>5. SUFFICES ASSUME v * p <= 5100 * e PROVE FALSE
  BY <1>1
<1>6. (v * p) * k <= (5100 * e) * k
  BY <1>1, <1>5, ProductGrows
<1>7. (5100 * e) * k = 5100 * (e * k)
  OBVIOUS
<1>8. (v * p) * k \in Nat
  BY <1>1, ProductType
<1> QED
  BY <1>1, <1>2, <1>3, <1>4, <1>6, <1>7, <1>8

\* A smaller fleet of the same cameras costs as much per frame.
LEMMA FewerKeeps ==
  ASSUME NEW q \in Request, NEW n \in Nat
  PROVE  LET t == Fewer(q, n)
         IN  /\ t.streams = n /\ t.fps = q.fps /\ t.skip = q.skip
             /\ t.resolution = q.resolution
             /\ Cost(t) = Cost(q) /\ Every(t) = Every(q)
<1> DEFINE t == Fewer(q, n)
<1>1. /\ t.streams = n /\ t.fps = q.fps /\ t.skip = q.skip
      /\ t.resolution = q.resolution /\ t.decode = q.decode
      /\ t.key_gop = q.key_gop /\ t.sahi = q.sahi
  BY DEF Fewer, Request
<1> HIDE DEF t
<1>2. Cost(t) = Cost(q)
  BY <1>1 DEF Cost, Tiled, Regime
<1>3. Every(t) = Every(q)
  BY <1>1 DEF Every
<1> QED
  BY <1>1, <1>2, <1>3 DEF t

\* BindingIsTheLimit for every request: when real time is not held, the resource that
\* recommend() calls binding is overcommitted, and stays so in every smaller fleet in
\* which the other one is.
THEOREM BindingIsOvercommitted == SizingSpec => []BindingIsTheLimit
<1>1. Typed => BindingIsTheLimit
  <2> SUFFICES ASSUME Typed, Asked, ~Holds(request), NEW n \in 1..request.streams,
                      ~Holds(Fewer(request, n))
               PROVE  \/ Binding(request) = "gpu-inference" /\ ~GpuHolds(Fewer(request, n))
                      \/ Binding(request) = "nvdec" /\ ~NvdecHolds(Fewer(request, n))
    BY DEF BindingIsTheLimit
  <2> DEFINE q == request
  <2> DEFINE t == Fewer(q, n)
  <2> DEFINE v == q.streams * q.fps
  <2> DEFINE u == n * q.fps
  <2> DEFINE p == Pixels(q.resolution)
  <2> DEFINE c == Cost(q)
  <2> DEFINE e == Every(q)
  <2> DEFINE k == q.skip
  <2>1. Accepted(q) /\ q \in Request
    BY DEF Asked, Typed, Accepted
  <2>2. /\ q.streams \in Nat /\ q.fps \in Nat /\ k \in Nat \ {0} /\ p \in Nat /\ c \in Nat
        /\ e \in Nat /\ n \in Nat
    BY <2>1, AcceptedType
  <2>3. v \in Nat /\ u \in Nat
    BY <2>2, ProductType
  <2>4. GpuLoad(q) = v * c /\ GpuRoom(q) = 1000000 * e * k
    BY DEF GpuLoad, GpuRoom, GpuBudget
  <2>5. NvdecLoad(q) = v * p /\ NvdecRoom(q) = 5100 * e
    BY DEF NvdecLoad, NvdecRoom, NvdecBudget
  <2>6. GpuDominates(q) <=> c * 51 >= p * 10000 * k
    BY DEF GpuDominates, NvdecBudget, GpuBudget
  <2>7. GpuLoad(t) = u * c /\ GpuRoom(t) = 1000000 * e * k
    BY <2>1, <2>2, FewerKeeps DEF GpuLoad, GpuRoom, GpuBudget
  <2>8. NvdecLoad(t) = u * p /\ NvdecRoom(t) = 5100 * e
    BY <2>1, <2>2, FewerKeeps DEF NvdecLoad, NvdecRoom, NvdecBudget
  <2>9. ~GpuHolds(q) \/ ~NvdecHolds(q)
    BY DEF Holds
  <2>10. ~GpuHolds(t) \/ ~NvdecHolds(t)
    BY DEF Holds
  <2> HIDE DEF v, u, p, c, e, k, t, q
  <2>11. /\ v * c \in Nat /\ v * p \in Nat /\ 1000000 * e * k \in Nat /\ 5100 * e \in Nat
         /\ c * 51 \in Nat /\ p * 10000 * k \in Nat /\ u * c \in Nat /\ u * p \in Nat
    BY <2>2, <2>3
  <2>12. GpuHolds(t) <=> ~(u * c > 1000000 * e * k)
    BY <2>7, <2>11 DEF GpuHolds
  <2>13. NvdecHolds(t) <=> ~(u * p > 5100 * e)
    BY <2>8, <2>11 DEF NvdecHolds
  <2>14. ~(2 * GpuLoad(q) < GpuRoom(q) /\ 2 * NvdecLoad(q) < NvdecRoom(q))
    BY <2>4, <2>5, <2>9, <2>11 DEF GpuHolds, NvdecHolds
  <2>15. Binding(q) = IF GpuDominates(q) THEN "gpu-inference" ELSE "nvdec"
    BY <2>14 DEF Binding
  <2>16. CASE GpuDominates(q)
    <3>1. u * p > 5100 * e => u * c > 1000000 * e * k
      BY <2>2, <2>3, <2>6, <2>16, DominatingGpuFails
    <3>2. Binding(q) = "gpu-inference" /\ ~GpuHolds(t)
      BY <2>10, <2>12, <2>13, <2>15, <2>16, <3>1
    <3> QED
      BY <3>2 DEF t, q
  <2>17. CASE ~GpuDominates(q)
    <3>1. c * 51 < p * 10000 * k
      BY <2>6, <2>11, <2>17
    <3>2. u * c > 1000000 * e * k => u * p > 5100 * e
      BY <2>2, <2>3, <3>1, DominatedGpuFails
    <3>3. Binding(q) = "nvdec" /\ ~NvdecHolds(t)
      BY <2>10, <2>12, <2>13, <2>15, <2>17, <3>2
    <3> QED
      BY <3>3 DEF t, q
  <2> QED
    BY <2>16, <2>17
<1> QED
  BY <1>1, RequestStaysTyped, PTL

-----------------------------------------------------------------------------
(* The number of tiles *)

\* Two sets that a one-to-one correspondence f connects have the same size.
LEMMA SameSize ==
  ASSUME NEW S, IsFiniteSet(S), NEW T, NEW f \in [S -> T],
         \A a, b \in S : f[a] = f[b] => a = b,
         \A t \in T : \E s \in S : f[s] = t
  PROVE  IsFiniteSet(T) /\ Cardinality(T) = Cardinality(S)
<1>1. f \in Surjection(S, T)
  BY DEF Surjection
<1>2. f \in Injection(S, T)
  BY DEF Injection, IsInjective
<1> QED
  BY <1>1, <1>2, FS_Surjection

\* The multiples of the stride below a limit, and how many there are.
LEMMA StepsBelow ==
  ASSUME NEW limit \in Nat \ {0}, NEW stride \in Nat \ {0}
  PROVE  \A k \in Nat : k * stride < limit <=> k < CeilDiv(limit, stride)
<1> DEFINE n == CeilDiv(limit, stride)
<1>1. n \in Nat /\ limit <= stride * n
  BY CeilDivCovers
<1>2. (n - 1) * stride < limit
  <2> DEFINE a == limit + stride - 1
             c == a \div stride
  <2>1. a \in Nat
    OBVIOUS
  <2>2. c \in Nat /\ c * stride <= a
    BY <2>1, FloorDivFits
  <2>3. n = c
    BY DEF CeilDiv
  <2> HIDE DEF n, c
  <2>4. (c - 1) * stride = c * stride - stride
    BY <2>2
  <2>5. c * stride \in Nat
    BY <2>2
  <2> QED
    BY <2>2, <2>3, <2>4, <2>5
<1> HIDE DEF n
<1>3. ASSUME NEW k \in Nat, k < n PROVE k * stride < limit
  <2>1. n - 1 \in Nat /\ k <= n - 1
    BY <1>1, <1>3
  <2>2. k * stride <= (n - 1) * stride /\ k * stride \in Nat /\ (n - 1) * stride \in Nat
    BY <2>1, ProductGrows
  <2> QED
    BY <1>2, <2>2
<1>4. ASSUME NEW k \in Nat, k >= n PROVE ~(k * stride < limit)
  <2>1. n * stride <= k * stride /\ n * stride = stride * n
    BY <1>1, <1>4, ProductGrows
  <2>2. n * stride \in Nat /\ k * stride \in Nat
    BY <1>1
  <2> QED
    BY <1>1, <2>1, <2>2
<1>5. \A k \in Nat : k < n \/ k >= n
  BY <1>1
<1> QED
  BY <1>3, <1>4, <1>5 DEF n

\* A product is that of one pair of factors only.
LEMMA StepsDiffer ==
  ASSUME NEW a \in Nat, NEW b \in Nat, NEW stride \in Nat \ {0}, a * stride = b * stride
  PROVE  a = b
<1>1. ASSUME NEW c \in Nat, NEW d \in Nat, c < d PROVE c * stride < d * stride
  <2>1. (c + 1) * stride <= d * stride
    BY <1>1, ProductGrows
  <2>2. (c + 1) * stride = c * stride + stride
    OBVIOUS
  <2>3. c * stride \in Nat /\ d * stride \in Nat
    OBVIOUS
  <2> QED
    BY <2>1, <2>2, <2>3
<1>2. ~(a < b) /\ ~(b < a)
  BY <1>1
<1> QED
  BY <1>2

\* An axis has as many offsets as _tile_offsets_1d counts.
LEMMA AxisCount ==
  ASSUME NEW frame \in Nat \ {0}, NEW tile \in Nat \ {0}, NEW stride \in Nat \ {0}
  PROVE  /\ IsFiniteSet(TileOffsets1D(frame, tile, stride))
         /\ Cardinality(TileOffsets1D(frame, tile, stride)) = TileOffsets(frame, tile, stride)
<1>1. CASE frame <= tile
  BY <1>1, FS_Singleton DEF TileOffsets1D, TileOffsets
<1>2. CASE frame > tile
  <2> DEFINE last == frame - tile
             n == CeilDiv(last, stride)
             steps == FrameSteps(frame, tile, stride)
             f == [k \in 0..(n - 1) |-> k * stride]
  <2>1. last \in Nat \ {0} /\ last <= frame
    BY <1>2
  <2>2. n \in Nat
    BY <2>1, CeilDivCovers
  <2>3. \A k \in Nat : k * stride < last <=> k < n
    BY <2>1, StepsBelow
  <2> HIDE DEF n
  <2>4. \A k \in Nat : k * stride \in Nat /\ (k * stride + tile < frame <=> k * stride < last)
    BY <1>2
  <2>5. \A k \in 0..(n - 1) : f[k] \in steps
    <3> SUFFICES ASSUME NEW k \in 0..(n - 1) PROVE k * stride \in steps
      OBVIOUS
    <3>1. k \in Nat /\ k < n
      BY <2>2
    <3>2. k * stride + tile < frame /\ k * stride < last
      BY <2>3, <2>4, <3>1
    <3>3. k <= k * stride
      BY <3>1
    <3>4. k \in 0..frame
      BY <2>1, <2>4, <3>1, <3>2, <3>3
    <3> QED
      BY <3>2, <3>4 DEF FrameSteps
  <2>6. \A o \in steps : \E k \in 0..(n - 1) : f[k] = o
    <3> SUFFICES ASSUME NEW o \in steps PROVE \E k \in 0..(n - 1) : k * stride = o
      OBVIOUS
    <3>1. PICK k \in 0..frame : k * stride = o /\ o + tile < frame
      BY DEF FrameSteps
    <3>2. k \in Nat
      BY <3>1
    <3>3. k * stride < last
      BY <2>4, <3>1, <3>2
    <3>4. k < n
      BY <2>3, <3>2, <3>3
    <3>5. k \in 0..(n - 1)
      BY <2>2, <3>2, <3>4
    <3> QED
      BY <3>1, <3>5, Zenon
  <2>7. IsFiniteSet(0..(n - 1)) /\ Cardinality(0..(n - 1)) = n
    BY <2>2, FS_Interval
  <2>8. \A a, b \in 0..(n - 1) : f[a] = f[b] => a = b
    <3> SUFFICES ASSUME NEW a \in 0..(n - 1), NEW b \in 0..(n - 1), a * stride = b * stride PROVE a = b
      OBVIOUS
    <3>1. a \in Nat /\ b \in Nat
      OBVIOUS
    <3> QED
      BY <3>1, StepsDiffer
  <2>9. f \in [0..(n - 1) -> steps]
    BY <2>5
  <2> HIDE DEF f, steps
  <2>10. IsFiniteSet(steps) /\ Cardinality(steps) = n
    <3> DEFINE ks == 0..(n - 1)
    <3>1. /\ IsFiniteSet(ks) /\ Cardinality(ks) = n /\ f \in [ks -> steps]
          /\ \A a, b \in ks : f[a] = f[b] => a = b
          /\ \A o \in steps : \E k \in ks : f[k] = o
      BY <2>6, <2>7, <2>8, <2>9
    <3> HIDE DEF ks
    <3> QED
      BY <3>1, SameSize
  <2>11. last \notin steps
    BY <2>1 DEF steps, FrameSteps
  <2>12. IsFiniteSet(steps \cup {last}) /\ Cardinality(steps \cup {last}) = n + 1
    BY <2>10, <2>11, FS_AddElement
  <2> HIDE DEF last
  <2>13. TileOffsets1D(frame, tile, stride) = steps \cup {last} /\ TileOffsets(frame, tile, stride) = n + 1
    BY <1>2 DEF TileOffsets1D, TileOffsets, steps, last, n
  <2> QED
    BY <2>12, <2>13
<1> QED
  BY <1>1, <1>2

\* The grid has as many tiles as the product of its axes' offsets.
LEMMA GridCount ==
  ASSUME NEW w \in Nat \ {0}, NEW h \in Nat \ {0}, NEW tile \in Nat \ {0}, NEW overlap \in Int
  PROVE  Cardinality(MakeTileGrid(w, h, tile, overlap))
           = TileOffsets(w, tile, Stride(tile, overlap)) * TileOffsets(h, tile, Stride(tile, overlap))
<1> DEFINE stride == Stride(tile, overlap)
           X == TileOffsets1D(w, tile, stride)
           Y == TileOffsets1D(h, tile, stride)
           grid == MakeTileGrid(w, h, tile, overlap)
           f == [o \in X \X Y |-> Rect(o[1], o[2], Smaller(tile, w), Smaller(tile, h))]
<1>1. stride \in Nat \ {0}
  BY StridePositive
<1>2. grid = {Rect(o[1], o[2], Smaller(tile, w), Smaller(tile, h)) : o \in X \X Y}
  BY DEF MakeTileGrid
<1> HIDE DEF stride
<1>3. /\ IsFiniteSet(X) /\ Cardinality(X) = TileOffsets(w, tile, stride)
      /\ IsFiniteSet(Y) /\ Cardinality(Y) = TileOffsets(h, tile, stride)
  BY <1>1, AxisCount
<1> HIDE DEF X, Y, grid
<1>4. IsFiniteSet(X \X Y) /\ Cardinality(X \X Y) = Cardinality(X) * Cardinality(Y)
  BY <1>3, FS_Product
<1>5. f \in [X \X Y -> grid] /\ \A r \in grid : \E o \in X \X Y : f[o] = r
  BY <1>2
<1>6. ASSUME NEW a \in X \X Y, NEW b \in X \X Y, f[a] = f[b] PROVE a = b
  <2>1. a[1] = b[1] /\ a[2] = b[2]
    BY <1>6 DEF Rect
  <2> QED
    BY <2>1
<1> HIDE DEF f
<1>7. Cardinality(grid) = Cardinality(X \X Y)
  BY <1>4, <1>5, <1>6, SameSize
<1> QED
  BY <1>3, <1>4, <1>7 DEF grid, stride

\* TilesAsPredicted for every tile and overlap, at the four resolutions recommend() knows:
\* where the two precisions cut the same stride, sahi_tile_count counts the tiles of the
\* grid that MakeTileGrid lays out.
THEOREM TileCountIsExact == SizingSpec => []TilesAsPredicted
<1>1. Typed => TilesAsPredicted
  <2> SUFFICES ASSUME Typed, Asked, NEW s \in request.sahi,
                      PredictedStride(s) = Stride(s.tile, s.overlap)
               PROVE  SahiTileCount(request.resolution, [s EXCEPT !.full_frame = FALSE])
                        = Cardinality(MakeTileGrid(Resolutions[request.resolution].w,
                                                   Resolutions[request.resolution].h, s.tile, s.overlap))
    BY DEF TilesAsPredicted
  <2> DEFINE r == Resolutions[request.resolution]
             t == [s EXCEPT !.full_frame = FALSE]
  <2>1. request \in Request /\ request.resolution \in DOMAIN Resolutions
    BY DEF Asked, Typed, Refused
  <2>2. s \in [tile : Nat \ {0}, overlap : Int, full_frame : BOOLEAN, serial : BOOLEAN]
    BY <2>1 DEF Request
  <2>3. s.tile \in Nat \ {0} /\ s.overlap \in Int
    BY <2>2
  <2>4. t.tile = s.tile /\ t.overlap = s.overlap /\ t.full_frame = FALSE
    BY <2>2
  <2>5. r.w \in Nat \ {0} /\ r.h \in Nat \ {0}
    BY <2>1, ResolutionType
  <2> DEFINE across == TileOffsets(r.w, s.tile, Stride(s.tile, s.overlap))
             down == TileOffsets(r.h, s.tile, Stride(s.tile, s.overlap))
  <2>6. SahiTileCount(request.resolution, t) = across * down + 0
    <3>1. PredictedStride(t) = PredictedStride(s)
      BY <2>4 DEF PredictedStride
    <3> QED
      BY <2>4, <3>1 DEF SahiTileCount
  <2>7. across \in Nat /\ down \in Nat
    BY <2>3, <2>5, StridePositive, OffsetsType
  <2>8. Cardinality(MakeTileGrid(r.w, r.h, s.tile, s.overlap)) = across * down
    BY <2>3, <2>5, GridCount
  <2> HIDE DEF across, down
  <2>9. across * down + 0 = across * down
    BY <2>7
  <2> QED
    BY <2>6, <2>8, <2>9
<1> QED
  BY <1>1, RequestStaysTyped, PTL

-----------------------------------------------------------------------------
(* Induction over places, and the recursive functions on them *)

\* A set that holds 0 and, with a place before n, the next one, holds every place up to n:
\* of the places it lacked one would be the first, by the well-foundedness of the strict
\* inclusion of finite sets.
LEMMA UpTo ==
  ASSUME NEW n \in Nat, NEW G, 0 \in G, \A m \in 0..(n - 1) : m \in G => m + 1 \in G
  PROVE  \A m \in 0..n : m \in G
<1> DEFINE lacked == {m \in 0..n : m \notin G}
           upTo(k) == {j \in lacked : j <= k}
           family == {upTo(k) : k \in lacked}
<1>1. SUFFICES ASSUME lacked # {} PROVE FALSE
  OBVIOUS
<1>2. IsFiniteSet(lacked)
  <2>1. IsFiniteSet(0..n) /\ lacked \subseteq 0..n
    BY FS_Interval
  <2> HIDE DEF lacked
  <2>2. QED BY <2>1, FS_Subset, Zenon
<1>3. family \subseteq FiniteSubsetsOf(lacked) /\ family # {}
  <2>1. \A k \in lacked : upTo(k) \in SUBSET lacked /\ IsFiniteSet(upTo(k))
    BY <1>2, FS_Subset
  <2>2. QED BY <1>1, <2>1 DEF FiniteSubsetsOf
<1>4. PICK T \in family : \A U \in family : ~(<<U, T>> \in StrictSubsetOrdering(lacked))
  BY <1>3, FS_StrictSubsetOrderingWellFounded, WFMin
<1>5. PICK k \in lacked : T = upTo(k)
  OBVIOUS
<1>6. k \in 0..n /\ k # 0 /\ k \in Nat
  OBVIOUS
<1>7. k - 1 \in lacked
  <2>1. k - 1 \in 0..(n - 1) /\ (k - 1) + 1 = k
    BY <1>6
  <2>2. k \notin G /\ k - 1 \in 0..n
    BY <2>1
  <2>3. QED BY <2>1, <2>2
<1>8. upTo(k - 1) \subseteq upTo(k) /\ k \in upTo(k) /\ k \notin upTo(k - 1)
  BY <1>6
<1>9. <<upTo(k - 1), T>> \in StrictSubsetOrdering(lacked)
  BY <1>5, <1>8 DEF StrictSubsetOrdering
<1>10. QED BY <1>4, <1>7, <1>9

\* Something is a sequence, whatever it holds.
IsASeq(s) == Len(s) \in Nat /\ s = [i \in 1..Len(s) |-> s[i]]

\* A sequence over some set is one.
LEMMA SeqIsASeq ==
  ASSUME NEW S, NEW s \in Seq(S)
  PROVE  IsASeq(s) /\ \A i \in 1..Len(s) : s[i] \in S
BY DEF IsASeq

\* It is one over the set of its own elements.
LEMMA IsASeqOver ==
  ASSUME NEW s, IsASeq(s)
  PROVE  /\ DOMAIN s = 1..Len(s) /\ Len(s) \in Nat
         /\ \A S : (\A i \in 1..Len(s) : s[i] \in S) => s \in Seq(S)
<1>1. DOMAIN s = 1..Len(s)
  BY DEF IsASeq
<1>2. ASSUME NEW S, \A i \in 1..Len(s) : s[i] \in S PROVE s \in Seq(S)
  <2>1. [i \in 1..Len(s) |-> s[i]] \in [1..Len(s) -> S] /\ Len(s) \in Nat
    BY <1>2 DEF IsASeq
  <2>2. QED BY <2>1 DEF IsASeq
<1>3. QED BY <1>1, <1>2 DEF IsASeq

\* What is listed place by place.
LEMMA ListIsASeq ==
  ASSUME NEW n \in Nat, NEW s, s = [i \in 1..n |-> s[i]]
  PROVE  IsASeq(s) /\ Len(s) = n
<1>1. s \in [1..n -> {s[i] : i \in 1..n}]
  <2> DEFINE S == {s[i] : i \in 1..n}
  <2>1. \A i \in 1..n : s[i] \in S
    OBVIOUS
  <2> HIDE DEF S
  <2>2. [i \in 1..n |-> s[i]] \in [1..n -> S]
    BY <2>1
  <2>3. QED BY <2>2, Zenon DEF S
<1>2. Len(s) = n
  BY <1>1
<1>3. QED BY <1>2 DEF IsASeq

\* Two sequences one after the other.
LEMMA ConcatFacts ==
  ASSUME NEW s, NEW t, IsASeq(s), IsASeq(t)
  PROVE  /\ IsASeq(s \o t) /\ Len(s \o t) = Len(s) + Len(t)
         /\ \A i \in 1..Len(s) : (s \o t)[i] = s[i]
         /\ \A i \in 1..Len(t) : (s \o t)[Len(s) + i] = t[i]
<1> DEFINE S == {s[i] : i \in 1..Len(s)} \cup {t[i] : i \in 1..Len(t)}
<1>1. (\A i \in 1..Len(s) : s[i] \in S) /\ (\A i \in 1..Len(t) : t[i] \in S)
  OBVIOUS
<1> HIDE DEF S
<1>2. s \in Seq(S) /\ t \in Seq(S)
  BY <1>1, IsASeqOver
<1>3. s \o t \in Seq(S)
  BY <1>2
<1>4. IsASeq(s \o t)
  BY <1>3, SeqIsASeq, Zenon
<1>5. QED BY <1>2, <1>4

\* u is s and then t.
Joined(u, s, t) ==
  /\ IsASeq(u) /\ Len(u) = Len(s) + Len(t)
  /\ \A i \in 1..Len(s) : u[i] = s[i]
  /\ \A i \in 1..Len(t) : u[Len(s) + i] = t[i]

\* Concatenation joins two sequences.
LEMMA ConcatJoins ==
  ASSUME NEW s, NEW t, IsASeq(s), IsASeq(t)
  PROVE  Joined(s \o t, s, t)
BY ConcatFacts DEF Joined

-----------------------------------------------------------------------------
(* Flattening *)

\* What FlattenSeq computes on the way to place m: the first i sequences one after the other.
Flattening(ss, m, f) ==
  \A i \in 1..m : f[i] = IF i = 1 THEN ss[i] ELSE f[i - 1] \o ss[i]

\* One sequence more.
LEMMA FlatteningGrows ==
  ASSUME NEW ss, NEW m \in Nat, NEW f, Flattening(ss, m, f)
  PROVE  \E g : Flattening(ss, m + 1, g)
<1> DEFINE last == IF m = 0 THEN ss[1] ELSE f[m] \o ss[m + 1]
           g == [i \in 1..(m + 1) |-> IF i = m + 1 THEN last ELSE f[i]]
<1>1. g[m + 1] = last /\ \A i \in 1..m : g[i] = f[i]
  <2>1. m + 1 \in 1..(m + 1) /\ \A i \in 1..m : i \in 1..(m + 1) /\ i # m + 1
    OBVIOUS
  <2> HIDE DEF last
  <2>2. QED BY <2>1, Zenon
<1> HIDE DEF g
<1>2. ASSUME NEW i \in 1..(m + 1) PROVE g[i] = IF i = 1 THEN ss[i] ELSE g[i - 1] \o ss[i]
  <2>1. CASE i = m + 1
    <3>1. i # 1 => m \in 1..m /\ i - 1 = m /\ m # 0
      BY <2>1
    <3>2. i = 1 => m = 0
      BY <2>1
    <3>3. QED BY <1>1, <2>1, <3>1, <3>2
  <2>2. CASE i # m + 1
    <3>1. i \in 1..m /\ (i # 1 => i - 1 \in 1..m)
      BY <2>2
    <3>2. f[i] = IF i = 1 THEN ss[i] ELSE f[i - 1] \o ss[i]
      BY <3>1, Zenon DEF Flattening
    <3>3. QED BY <1>1, <3>1, <3>2, Zenon
  <2>3. QED BY <2>1, <2>2
<1>3. QED BY <1>2, Zenon DEF Flattening

\* The recursive function in FlattenSeq exists.
LEMMA FlatteningExists ==
  ASSUME NEW ss, IsASeq(ss), Len(ss) # 0
  PROVE  \E f : Flattening(ss, Len(ss), f) /\ FlattenSeq(ss) = f[Len(ss)]
<1> DEFINE n == Len(ss)
           G == {m \in Nat : \E f : Flattening(ss, m, f)}
           Rec(f) == f = [i \in 1..n |-> IF i = 1 THEN ss[i] ELSE f[i - 1] \o ss[i]]
<1>1. n \in Nat
  BY DEF IsASeq
<1>2. 0 \in G
  BY DEF Flattening
<1>3. \A m \in 0..(n - 1) : m \in G => m + 1 \in G
  <2>1. SUFFICES ASSUME NEW m \in Nat, m \in G PROVE m + 1 \in G
    OBVIOUS
  <2>2. m + 1 \in Nat
    OBVIOUS
  <2>3. QED BY <2>1, <2>2, FlatteningGrows, Zenon
<1> HIDE DEF G
<1>4. n \in G
  <2>1. \A m \in 0..n : m \in G
    BY <1>1, <1>2, <1>3, UpTo, Zenon
  <2>2. QED BY <1>1, <2>1
<1>5. PICK f : Flattening(ss, n, f)
  BY <1>4 DEF G
<1> DEFINE r == [i \in 1..n |-> f[i]]
<1>6. \A i \in 1..n : r[i] = f[i] /\ (i # 1 => i - 1 \in 1..n)
  BY <1>1
<1>7. r = [i \in 1..n |-> IF i = 1 THEN ss[i] ELSE r[i - 1] \o ss[i]]
  <2>1. \A i \in 1..n : f[i] = IF i = 1 THEN ss[i] ELSE r[i - 1] \o ss[i]
    BY <1>5, <1>6, Zenon DEF Flattening
  <2>2. QED BY <2>1, Zenon
<1>8. \E x : Rec(x)
  BY <1>7, Zenon
<1> DEFINE c == CHOOSE x : Rec(x)
<1>9. Rec(c)
  BY <1>8, Zenon
<1>10. FlattenSeq(ss) = c[n]
  BY Zenon DEF FlattenSeq
<1> HIDE DEF c
<1>11. Flattening(ss, n, c)
  <2>1. ASSUME NEW i \in 1..n PROVE c[i] = IF i = 1 THEN ss[i] ELSE c[i - 1] \o ss[i]
    BY <1>9, Zenon
  <2>2. QED BY <2>1, Zenon DEF Flattening
<1>12. QED BY <1>10, <1>11, Zenon

\* A sequence of sequences.
IsSeqs(ss) == IsASeq(ss) /\ \A i \in 1..Len(ss) : IsASeq(ss[i])

\* s is a sequence that holds what the first m sequences hold, and nothing else.
HoldsTheFirst(s, ss, m) ==
  /\ IsASeq(s)
  /\ \A p \in 1..Len(s) : \E i \in 1..m : \E k \in 1..Len(ss[i]) : s[p] = ss[i][k]
  /\ \A i \in 1..m : \A k \in 1..Len(ss[i]) : \E p \in 1..Len(s) : s[p] = ss[i][k]

\* One sequence more.
LEMMA HoldsOneMore ==
  ASSUME NEW ss, NEW m \in Nat, NEW s, HoldsTheFirst(s, ss, m), IsASeq(ss[m + 1])
  PROVE  HoldsTheFirst(s \o ss[m + 1], ss, m + 1)
<1> DEFINE t == ss[m + 1]
           u == s \o t
<1>1. /\ IsASeq(u) /\ Len(u) = Len(s) + Len(t)
      /\ \A p \in 1..Len(s) : u[p] = s[p]
      /\ \A p \in 1..Len(t) : u[Len(s) + p] = t[p]
  BY ConcatFacts DEF HoldsTheFirst
<1>2. Len(s) \in Nat /\ Len(t) \in Nat /\ m + 1 \in 1..(m + 1)
  BY DEF IsASeq, HoldsTheFirst
<1> HIDE DEF t, u
<1>3. ASSUME NEW p \in 1..Len(u)
      PROVE  \E i \in 1..(m + 1) : \E k \in 1..Len(ss[i]) : u[p] = ss[i][k]
  <2>1. CASE p <= Len(s)
    <3>1. p \in 1..Len(s)
      BY <1>2, <2>1
    <3>2. PICK i \in 1..m : \E k \in 1..Len(ss[i]) : s[p] = ss[i][k]
      BY <3>1 DEF HoldsTheFirst
    <3>3. i \in 1..(m + 1)
      OBVIOUS
    <3>4. QED BY <1>1, <3>1, <3>2, <3>3, Zenon
  <2>2. CASE p > Len(s)
    <3>1. p - Len(s) \in 1..Len(t) /\ p = Len(s) + (p - Len(s))
      BY <1>1, <1>2, <2>2
    <3>2. u[p] = ss[m + 1][p - Len(s)]
      BY <1>1, <3>1, Zenon DEF t
    <3>3. QED BY <1>2, <3>1, <3>2, Zenon DEF t
  <2>3. QED BY <1>2, <2>1, <2>2
<1>4. ASSUME NEW i \in 1..(m + 1), NEW k \in 1..Len(ss[i])
      PROVE  \E p \in 1..Len(u) : u[p] = ss[i][k]
  <2>1. CASE i \in 1..m
    <3>1. PICK p \in 1..Len(s) : s[p] = ss[i][k]
      BY <2>1 DEF HoldsTheFirst
    <3>2. p \in 1..Len(u)
      BY <1>1, <1>2
    <3>3. QED BY <1>1, <3>1, <3>2, Zenon
  <2>2. CASE i = m + 1
    <3>1. k \in 1..Len(t)
      BY <2>2 DEF t
    <3>2. Len(s) + k \in 1..Len(u)
      BY <1>1, <1>2, <3>1
    <3>3. u[Len(s) + k] = ss[i][k]
      BY <1>1, <2>2, <3>1, Zenon DEF t
    <3>4. QED BY <3>2, <3>3, Zenon
  <2>3. QED BY <2>1, <2>2
<1>5. QED BY <1>1, <1>3, <1>4, Zenon DEF HoldsTheFirst, t, u

\* FlattenSeq gives a sequence that holds what the sequences hold, and nothing else.
LEMMA FlattenFacts ==
  ASSUME NEW ss, IsSeqs(ss)
  PROVE  HoldsTheFirst(FlattenSeq(ss), ss, Len(ss))
<1>1. CASE Len(ss) = 0
  <2>1. FlattenSeq(ss) = ss
    BY <1>1 DEF FlattenSeq
  <2>2. IsASeq(ss)
    BY DEF IsSeqs
  <2>3. QED BY <1>1, <2>1, <2>2 DEF HoldsTheFirst
<1>2. CASE Len(ss) # 0
  <2> DEFINE n == Len(ss)
  <2>1. PICK f : Flattening(ss, n, f) /\ FlattenSeq(ss) = f[n]
    BY <1>2, FlatteningExists DEF IsSeqs
  <2> DEFINE G == {m \in Nat : m = 0 \/ HoldsTheFirst(f[m], ss, m)}
  <2>2. n \in Nat
    BY DEF IsSeqs, IsASeq
  <2>3. 0 \in G
    OBVIOUS
  <2>4. \A m \in 0..(n - 1) : m \in G => m + 1 \in G
    <3> SUFFICES ASSUME NEW m \in 0..(n - 1), m \in G PROVE m + 1 \in G
      OBVIOUS
    <3>1. m + 1 \in 1..n /\ m \in Nat /\ m + 1 \in Nat /\ (m + 1) - 1 = m /\ (m + 1 = 1 <=> m = 0)
      BY <2>2
    <3>2. IsASeq(ss[m + 1])
      BY <3>1 DEF IsSeqs
    <3>3. f[m + 1] = IF m = 0 THEN ss[m + 1] ELSE f[m] \o ss[m + 1]
      BY <2>1, <3>1, Zenon DEF Flattening
    <3>4. CASE m = 0
      <4>1. f[1] = ss[1] /\ \A i \in 1..1 : i = 1
        BY <3>3, <3>4
      <4>2. IsASeq(ss[1]) /\ 1 \in 1..1 /\ m + 1 = 1
        BY <3>2, <3>4
      <4>3. HoldsTheFirst(ss[1], ss, 1)
        BY <4>1, <4>2, Zenon DEF HoldsTheFirst
      <4>4. QED BY <3>1, <4>1, <4>2, <4>3, Zenon
    <3>5. CASE m # 0
      <4>1. HoldsTheFirst(f[m], ss, m)
        BY <3>5
      <4>2. HoldsTheFirst(f[m + 1], ss, m + 1)
        BY <3>1, <3>2, <3>3, <3>5, <4>1, HoldsOneMore, Zenon
      <4>3. QED BY <3>1, <4>2
    <3>6. QED BY <3>4, <3>5
  <2> HIDE DEF G
  <2>5. n \in G
    <3>1. \A m \in 0..n : m \in G
      BY <2>2, <2>3, <2>4, UpTo, Zenon
    <3>2. QED BY <2>2, <3>1
  <2>6. QED BY <1>2, <2>1, <2>5 DEF G
<1>3. QED BY <1>1, <1>2

-----------------------------------------------------------------------------
(* Lines of steps *)

\* What Validate is handed, whether or not it makes sense.
GraphTyped(c) ==
  /\ IsASeq(c.steps) /\ \A i \in 1..Len(c.steps) : c.steps[i].input \in Int
  /\ IsASeq(c.layers)
  /\ \A j \in 1..Len(c.layers) :
       IsASeq(c.layers[j].steps) /\ \A k \in 1..Len(c.layers[j].steps) : c.layers[j].steps[k] \in Int

\* A step's number is its place, counted from 0.
LEMMA StepFacts ==
  ASSUME NEW c, GraphTyped(c)
  PROVE  /\ Len(c.steps) \in Nat
         /\ \A i \in StepIds(c) : i \in 0..(Len(c.steps) - 1) /\ i \in Nat /\ StepAt(c, i).input \in Int
<1>1. Len(c.steps) \in Nat
  BY DEF GraphTyped, IsASeq
<1>2. ASSUME NEW i \in StepIds(c)
      PROVE  i \in 0..(Len(c.steps) - 1) /\ i \in Nat /\ StepAt(c, i).input \in Int
  <2>1. i \in 0..(Len(c.steps) - 1)
    BY DEF StepIds
  <2>2. i + 1 \in 1..Len(c.steps) /\ i \in Nat
    BY <1>1, <2>1
  <2>3. StepAt(c, i).input \in Int
    BY <2>2, Zenon DEF StepAt, GraphTyped
  <2>4. QED BY <2>1, <2>2, <2>3
<1>3. QED BY <1>1, <1>2

\* One step further back, unless the camera is reached.
Back(c, line) ==
  IF StepAt(c, Head(line)).input < 0 THEN line ELSE <<StepAt(c, Head(line)).input>> \o line

\* What Line computes on the way.
Backing(c, i, m, f) == f[0] = <<i>> /\ \A n \in 1..m : f[n] = Back(c, f[n - 1])

\* One step further back.
LEMMA BackingGrows ==
  ASSUME NEW c, NEW i, NEW m \in Nat, NEW f, Backing(c, i, m, f)
  PROVE  \E g : Backing(c, i, m + 1, g)
<1> DEFINE last == Back(c, f[m])
           g == [n \in 0..(m + 1) |-> IF n = m + 1 THEN last ELSE f[n]]
<1>1. g[m + 1] = last /\ \A n \in 0..m : g[n] = f[n]
  <2>1. m + 1 \in 0..(m + 1) /\ \A n \in 0..m : n \in 0..(m + 1) /\ n # m + 1
    OBVIOUS
  <2> HIDE DEF last
  <2>2. QED BY <2>1, Zenon
<1> HIDE DEF g
<1>2. ASSUME NEW n \in 1..(m + 1) PROVE g[n] = Back(c, g[n - 1])
  <2>1. CASE n = m + 1
    <3>1. n - 1 = m /\ m \in 0..m
      BY <2>1
    <3>2. QED BY <1>1, <2>1, <3>1, Zenon
  <2>2. CASE n # m + 1
    <3>1. n \in 1..m /\ n \in 0..m /\ n - 1 \in 0..m
      BY <2>2
    <3>2. QED BY <1>1, <3>1, Zenon DEF Backing
  <2>3. QED BY <2>1, <2>2
<1>3. g[0] = <<i>>
  <2>1. 0 \in 0..m
    OBVIOUS
  <2>2. QED BY <1>1, <2>1, Zenon DEF Backing
<1>4. QED BY <1>2, <1>3, Zenon DEF Backing

\* The recursive function in Line exists.
LEMMA BackingExists ==
  ASSUME NEW c, Len(c.steps) \in Nat, NEW i
  PROVE  \E f : /\ Backing(c, i, Len(c.steps), f)
                /\ Line(c, i) = IF Len(f[Len(c.steps)]) > Len(c.steps) THEN <<>> ELSE f[Len(c.steps)]
<1> DEFINE n == Len(c.steps)
           G == {m \in Nat : \E f : Backing(c, i, m, f)}
           Rec(f) == f = [m \in 0..n |->
                            IF m = 0 THEN <<i>>
                            ELSE IF StepAt(c, Head(f[m - 1])).input < 0 THEN f[m - 1]
                                 ELSE <<StepAt(c, Head(f[m - 1])).input>> \o f[m - 1]]
<1>1. 0 \in G
  <2>1. Backing(c, i, 0, [m \in {0} |-> <<i>>])
    BY DEF Backing
  <2>2. QED BY <2>1
<1>2. \A m \in 0..(n - 1) : m \in G => m + 1 \in G
  <2>1. SUFFICES ASSUME NEW m \in Nat, m \in G PROVE m + 1 \in G
    OBVIOUS
  <2>2. m + 1 \in Nat
    OBVIOUS
  <2>3. QED BY <2>1, <2>2, BackingGrows, Zenon
<1> HIDE DEF G
<1>3. n \in G
  <2>1. \A m \in 0..n : m \in G
    BY <1>1, <1>2, UpTo, Zenon
  <2>2. QED BY <2>1
<1>4. PICK f : Backing(c, i, n, f)
  BY <1>3 DEF G
<1> DEFINE r == [m \in 0..n |-> f[m]]
<1>5. \A m \in 0..n : r[m] = f[m] /\ (m # 0 => m \in 1..n /\ m - 1 \in 0..n)
  OBVIOUS
<1>6. Rec(r)
  <2>1. \A m \in 0..n : f[m] = IF m = 0 THEN <<i>>
                               ELSE IF StepAt(c, Head(r[m - 1])).input < 0 THEN r[m - 1]
                                    ELSE <<StepAt(c, Head(r[m - 1])).input>> \o r[m - 1]
    BY <1>4, <1>5, Zenon DEF Backing, Back
  <2>2. QED BY <2>1, Zenon
<1> DEFINE b == CHOOSE x : Rec(x)
<1>7. Rec(b)
  BY <1>6, Zenon
<1>8. Line(c, i) = IF Len(b[n]) > n THEN <<>> ELSE b[n]
  BY Zenon DEF Line
<1> HIDE DEF b
<1>9. Backing(c, i, n, b)
  <2>1. \A m \in 1..n : m \in 0..n /\ m # 0
    OBVIOUS
  <2>2. ASSUME NEW m \in 1..n PROVE b[m] = Back(c, b[m - 1])
    BY <1>7, <2>1, Zenon DEF Back
  <2>3. 0 \in 0..n
    OBVIOUS
  <2>4. b[0] = <<i>>
    BY <1>7, <2>3, Zenon
  <2>5. QED BY <2>2, <2>4, Zenon DEF Backing
<1>10. QED BY <1>8, <1>9, Zenon

\* Steps wired one to the next.
Chain(c, line) ==
  /\ IsASeq(line) /\ Len(line) # 0
  /\ \A j \in 1..Len(line) : line[j] \in StepIds(c)
  /\ \A j \in 1..Len(line) : j # 1 => StepAt(c, line[j]).input = line[j - 1]

\* The first of them reads no other step.
Rooted(c, line) == Chain(c, line) /\ StepAt(c, line[1]).input < 0

\* One element before a sequence.
LEMMA PutBefore ==
  ASSUME NEW x, NEW s, IsASeq(s)
  PROVE  /\ IsASeq(<<x>> \o s) /\ Len(<<x>> \o s) = Len(s) + 1
         /\ (<<x>> \o s)[1] = x /\ \A j \in 1..Len(s) : (<<x>> \o s)[j + 1] = s[j]
<1>1. IsASeq(<<x>>) /\ Len(<<x>>) = 1 /\ <<x>>[1] = x
  BY DEF IsASeq
<1>2. /\ IsASeq(<<x>> \o s) /\ Len(<<x>> \o s) = Len(<<x>>) + Len(s)
      /\ \A j \in 1..Len(<<x>>) : (<<x>> \o s)[j] = <<x>>[j]
      /\ \A j \in 1..Len(s) : (<<x>> \o s)[Len(<<x>>) + j] = s[j]
  <2> DEFINE one == <<x>>
  <2>1. IsASeq(one)
    BY <1>1
  <2> HIDE DEF one
  <2>2. /\ IsASeq(one \o s) /\ Len(one \o s) = Len(one) + Len(s)
        /\ \A j \in 1..Len(one) : (one \o s)[j] = one[j]
        /\ \A j \in 1..Len(s) : (one \o s)[Len(one) + j] = s[j]
    BY <2>1, ConcatFacts
  <2>3. QED BY <2>2, Zenon DEF one
<1>3. Len(s) \in Nat
  BY DEF IsASeq
<1> DEFINE u == <<x>> \o s
<1>4. u[1] = x
  <2>1. 1 \in 1..Len(<<x>>)
    BY <1>1
  <2>2. QED BY <1>1, <1>2, <2>1, Zenon
<1>5. \A j \in 1..Len(s) : u[j + 1] = s[j]
  <2> HIDE DEF u
  <2>1. \A j \in 1..Len(s) : u[1 + j] = s[j]
    BY <1>1, <1>2, Zenon DEF u
  <2>2. \A j \in 1..Len(s) : 1 + j = j + 1
    BY <1>3
  <2>3. QED BY <2>1, <2>2, Zenon
<1>6. Len(u) = Len(s) + 1
  <2> HIDE DEF u
  <2>1. Len(u) = 1 + Len(s)
    BY <1>1, <1>2, Zenon DEF u
  <2>2. QED BY <1>3, <2>1
<1>7. QED BY <1>2, <1>4, <1>5, <1>6, Zenon

\* A line's steps differ: two that are the same have the same steps before them, back to
\* the first one, which has none.
LEMMA RootedDistinct ==
  ASSUME NEW c, GraphTyped(c), NEW line, Rooted(c, line)
  PROVE  \A a, b \in 1..Len(line) : line[a] = line[b] => a = b
<1> DEFINE n == Len(line)
           G == {m \in 0..n : \A b \in 1..n : m # 0 /\ m < b => line[m] # line[b]}
<1>1. n \in Nat /\ n # 0
  BY DEF Rooted, Chain, IsASeq
<1>2. 0 \in G
  BY <1>1
<1>3. \A m \in 0..(n - 1) : m \in G => m + 1 \in G
  <2> SUFFICES ASSUME NEW m \in 0..(n - 1), m \in G, NEW b \in 1..n, m + 1 < b, line[m + 1] = line[b]
               PROVE  FALSE
    BY <1>1
  <2>1. m + 1 \in 1..n /\ b - 1 \in 1..n /\ b # 1 /\ (m # 0 => m < b - 1) /\ (m + 1) - 1 = m
    BY <1>1
  <2>2. StepAt(c, line[b]).input = line[b - 1]
    BY <2>1, Zenon DEF Rooted, Chain
  <2>3. CASE m = 0
    <3>1. StepAt(c, line[b]).input < 0
      BY <2>3 DEF Rooted
    <3>2. line[b - 1] \in StepIds(c)
      BY <2>1 DEF Rooted, Chain
    <3>3. line[b - 1] \in Nat
      BY <3>2, StepFacts
    <3>4. QED BY <2>2, <3>1, <3>3
  <2>4. CASE m # 0
    <3>1. m + 1 # 1
      BY <2>4
    <3>2. StepAt(c, line[m + 1]).input = line[m]
      BY <2>1, <3>1, Zenon DEF Rooted, Chain
    <3>3. line[m] = line[b - 1]
      BY <2>2, <3>2
    <3>4. QED BY <2>1, <2>4, <3>3
  <2>5. QED BY <2>3, <2>4
<1>4. \A m \in 0..n : m \in G
  <2> HIDE DEF G
  <2>1. QED BY <1>1, <1>2, <1>3, UpTo, Zenon
<1>5. \A a, b \in 1..n : a < b => line[a] # line[b]
  BY <1>4
<1>6. \A a, b \in 1..n : a < b \/ b < a \/ a = b
  BY <1>1
<1>7. QED BY <1>5, <1>6, Zenon

\* The places of a sequence are as many as it is long.
LEMMA Places ==
  ASSUME NEW n \in Nat
  PROVE  /\ IsFiniteSet(1..n) /\ Cardinality(1..n) = n
         /\ IsFiniteSet(0..(n - 1)) /\ Cardinality(0..(n - 1)) = n
BY FS_Interval

\* Hence there are no more of them than steps.
LEMMA RootedFits ==
  ASSUME NEW c, GraphTyped(c), NEW line, Rooted(c, line)
  PROVE  Len(line) <= Len(c.steps)
<1>1. Len(line) \in Nat /\ Len(c.steps) \in Nat
  BY StepFacts DEF Rooted, Chain, IsASeq
<1>2. SUFFICES ASSUME Len(c.steps) < Len(line) PROVE FALSE
  BY <1>1
<1> DEFINE S == 1..Len(line)
           T == StepIds(c)
           f == [j \in S |-> line[j]]
<1>3. IsFiniteSet(S) /\ Cardinality(S) = Len(line)
  BY <1>1, Places, Zenon
<1>4. IsFiniteSet(T) /\ Cardinality(T) = Len(c.steps)
  BY <1>1, Places, Zenon DEF StepIds
<1>5. f \in [S -> T]
  BY DEF Rooted, Chain
<1>6. \A j \in S : f[j] = line[j]
  OBVIOUS
<1> HIDE DEF S, T, f
<1>7. PICK x, y \in S : x # y /\ f[x] = f[y]
  <2>1. Cardinality(T) < Cardinality(S)
    BY <1>2, <1>3, <1>4
  <2>2. QED BY <1>3, <1>4, <1>5, <2>1, FS_PigeonHole, Zenon
<1>8. line[x] = line[y]
  BY <1>6, <1>7, Zenon
<1>9. \A a, b \in 1..Len(line) : line[a] = line[b] => a = b
  BY RootedDistinct, Zenon
<1>10. QED BY <1>7, <1>8, <1>9, Zenon DEF S

\* The first element of a sequence.
LEMMA HeadIs ==
  ASSUME NEW s, IsASeq(s), Len(s) # 0
  PROVE  Head(s) = s[1]
<1> DEFINE S == {s[i] : i \in 1..Len(s)}
<1>1. \A i \in 1..Len(s) : s[i] \in S
  OBVIOUS
<1> HIDE DEF S
<1>2. s \in Seq(S)
  BY <1>1, IsASeqOver
<1>3. QED BY <1>2

\* A sequence's end, k elements long.
EndOf(s, line, k) ==
  /\ IsASeq(s) /\ Len(s) = k
  /\ \A j \in 1..k : s[j] = line[(Len(line) - k) + j]

\* Going back along a line gives its ends, one after the other, until it is whole.
LEMMA BackAlong ==
  ASSUME NEW c, GraphTyped(c), NEW line, Rooted(c, line),
         NEW k \in 1..Len(line), NEW s, EndOf(s, line, k)
  PROVE  EndOf(Back(c, s), line, IF k = Len(line) THEN k ELSE k + 1)
<1> DEFINE n == Len(line)
<1>1. n \in Nat /\ n # 0 /\ k \in Nat /\ k # 0 /\ (n - k) + 1 \in 1..n /\ 1 \in 1..k
  BY DEF Rooted, Chain, IsASeq
<1>2. Head(s) = line[(n - k) + 1]
  <2>1. Head(s) = s[1]
    BY <1>1, HeadIs DEF EndOf
  <2>2. QED BY <1>1, <2>1 DEF EndOf
<1>3. CASE k = n
  <2>1. (n - k) + 1 = 1
    BY <1>1, <1>3
  <2>2. StepAt(c, Head(s)).input < 0
    BY <1>2, <2>1 DEF Rooted
  <2>3. QED BY <1>3, <2>2 DEF Back
<1>4. CASE k # n
  <2>1. (n - k) + 1 # 1 /\ ((n - k) + 1) - 1 = n - k /\ n - k \in 1..n
    BY <1>1, <1>4
  <2>2. StepAt(c, Head(s)).input = line[n - k]
    BY <1>1, <1>2, <2>1, Zenon DEF Rooted, Chain
  <2>3. line[n - k] \in StepIds(c)
    BY <2>1, Zenon DEF Rooted, Chain
  <2>4. line[n - k] \in Nat
    BY <2>3, StepFacts
  <2>5. ~(StepAt(c, Head(s)).input < 0)
    BY <2>2, <2>4
  <2>6. Back(c, s) = <<line[n - k]>> \o s
    BY <2>2, <2>5, Zenon DEF Back
  <2> DEFINE u == <<line[n - k]>> \o s
  <2>7. IsASeq(s) /\ Len(s) = k /\ \A j \in 1..k : s[j] = line[(n - k) + j]
    BY Zenon DEF EndOf
  <2>8. IsASeq(u) /\ Len(u) = k + 1 /\ u[1] = line[n - k] /\ \A j \in 1..k : u[j + 1] = s[j]
    BY <2>7, PutBefore
  <2> HIDE DEF u
  <2>9. ASSUME NEW j \in 1..(k + 1) PROVE u[j] = line[(n - (k + 1)) + j]
    <3>1. CASE j = 1
      <4>1. (n - (k + 1)) + j = n - k
        BY <1>1, <3>1
      <4>2. QED BY <2>8, <3>1, <4>1, Zenon
    <3>2. CASE j # 1
      <4>1. j - 1 \in 1..k /\ (j - 1) + 1 = j /\ (n - k) + (j - 1) = (n - (k + 1)) + j
        BY <1>1, <3>2
      <4>2. u[(j - 1) + 1] = line[(n - k) + (j - 1)]
        BY <2>7, <2>8, <4>1, Zenon
      <4>3. QED BY <4>1, <4>2, Zenon
    <3>3. QED BY <3>1, <3>2
  <2>10. EndOf(u, line, k + 1)
    BY <2>8, <2>9, Zenon DEF EndOf
  <2>11. QED BY <1>4, <2>6, <2>10, Zenon DEF u
<1>5. QED BY <1>3, <1>4

\* Line finds the line a step ends, if there is one.
LEMMA LineIs ==
  ASSUME NEW c, GraphTyped(c), NEW line, Rooted(c, line)
  PROVE  Line(c, line[Len(line)]) = line
<1> DEFINE n == Len(line)
           N == Len(c.steps)
           i == line[n]
<1>1. n \in Nat /\ n # 0 /\ N \in Nat /\ n <= N
  BY RootedFits, StepFacts DEF Rooted, Chain, IsASeq
<1> HIDE DEF i
<1>2. PICK f : Backing(c, i, N, f) /\ Line(c, i) = IF Len(f[N]) > N THEN <<>> ELSE f[N]
  BY <1>1, BackingExists
<1> DEFINE upto(m) == IF m + 1 > n THEN n ELSE m + 1
           G == {m \in 0..N : EndOf(f[m], line, upto(m))}
<1>3. 0 \in G
  <2>1. f[0] = <<i>> /\ upto(0) = 1 /\ 0 \in 0..N
    BY <1>1, <1>2 DEF Backing
  <2>2. EndOf(<<i>>, line, 1)
    <3>1. IsASeq(<<i>>) /\ Len(<<i>>) = 1 /\ <<i>>[1] = i
      BY DEF IsASeq
    <3>2. \A j \in 1..1 : j = 1 /\ (n - 1) + j = n
      BY <1>1
    <3>3. QED BY <3>1, <3>2, Zenon DEF EndOf, i
  <2> HIDE DEF upto
  <2>3. QED BY <2>1, <2>2
<1>4. \A m \in 0..(N - 1) : m \in G => m + 1 \in G
  <2> SUFFICES ASSUME NEW m \in 0..(N - 1), m \in G PROVE m + 1 \in G
    OBVIOUS
  <2>1. m + 1 \in 1..N /\ (m + 1) - 1 = m /\ m + 1 \in 0..N
    BY <1>1
  <2>2. upto(m) \in 1..n /\ upto(m + 1) = IF upto(m) = n THEN upto(m) ELSE upto(m) + 1
    BY <1>1
  <2> HIDE DEF upto
  <2>3. EndOf(f[m], line, upto(m)) /\ f[m + 1] = Back(c, f[m])
    <3>1. f[m + 1] = Back(c, f[(m + 1) - 1])
      BY <1>2, <2>1, Zenon DEF Backing
    <3>2. QED BY <2>1, <3>1
  <2>4. EndOf(f[m + 1], line, upto(m + 1))
    <3>1. EndOf(Back(c, f[m]), line, IF upto(m) = n THEN upto(m) ELSE upto(m) + 1)
      BY <2>2, <2>3, BackAlong, Zenon
    <3>2. QED BY <2>2, <2>3, <3>1, Zenon
  <2>5. QED BY <2>1, <2>4
<1>5. EndOf(f[N], line, n)
  <2>1. \A m \in 0..N : m \in G
    <3> HIDE DEF G
    <3>1. QED BY <1>1, <1>3, <1>4, UpTo, Zenon
  <2>2. N \in 0..N /\ upto(N) = n
    BY <1>1
  <2> HIDE DEF upto
  <2>3. QED BY <2>1, <2>2
<1>6. f[N] = line
  <2>1. IsASeq(f[N]) /\ Len(f[N]) = n /\ IsASeq(line)
    BY <1>5 DEF EndOf, Rooted, Chain
  <2>2. \A j \in 1..n : f[N][j] = line[j]
    <3>1. \A j \in 1..n : (n - n) + j = j
      BY <1>1
    <3>2. QED BY <1>5, <3>1, Zenon DEF EndOf
  <2>3. QED BY <2>1, <2>2 DEF IsASeq
<1>7. ~(Len(f[N]) > N)
  BY <1>1, <1>6
<1>8. QED BY <1>2, <1>6, <1>7, Zenon DEF i

\* What going back from step i has collected after m steps.
Collected(c, i, m, s) ==
  /\ Chain(c, s) /\ s[Len(s)] = i
  /\ Len(s) = m + 1 \/ StepAt(c, s[1]).input < 0

\* Following one wire back collects one step more, or stops at the frames.
LEMMA BackCollects ==
  ASSUME NEW c, GraphTyped(c), WiresExist(c), NEW i, NEW m \in Nat, NEW s, Collected(c, i, m, s)
  PROVE  Collected(c, i, m + 1, Back(c, s))
<1> DEFINE in == StepAt(c, s[1]).input
<1>1. IsASeq(s) /\ Len(s) # 0 /\ Len(s) \in Nat
  BY DEF Collected, Chain, IsASeq
<1>2. Head(s) = s[1]
  BY <1>1, HeadIs
<1>3. s[1] \in StepIds(c)
  <2>1. 1 \in 1..Len(s)
    BY <1>1
  <2>2. QED BY <2>1, Zenon DEF Collected, Chain
<1>4. CASE in < 0
  BY <1>2, <1>4 DEF Back, Collected
<1>5. CASE ~(in < 0)
  <2>1. in \in StepIds(c)
    <3>1. in \in Int /\ in < Len(c.steps) /\ Len(c.steps) \in Nat
      BY <1>3, StepFacts DEF WiresExist
    <3>2. QED BY <1>5, <3>1 DEF StepIds
  <2> DEFINE u == <<in>> \o s
  <2>2. Back(c, s) = u
    BY <1>2, <1>5, Zenon DEF Back
  <2>3. IsASeq(u) /\ Len(u) = Len(s) + 1 /\ u[1] = in /\ \A j \in 1..Len(s) : u[j + 1] = s[j]
    BY <1>1, PutBefore
  <2>4. Len(s) = m + 1
    BY <1>5 DEF Collected
  <2> HIDE DEF u, in
  <2>5. ASSUME NEW j \in 1..Len(u)
        PROVE  u[j] \in StepIds(c) /\ (j # 1 => StepAt(c, u[j]).input = u[j - 1])
    <3>1. CASE j = 1
      BY <2>1, <2>3, <3>1
    <3>2. CASE j # 1
      <4>1. j - 1 \in 1..Len(s) /\ (j - 1) + 1 = j /\ (j - 1 # 1 => (j - 1) - 1 \in 1..Len(s) /\ ((j - 1) - 1) + 1 = j - 1)
        BY <1>1, <2>3, <3>2
      <4>2. u[j] = s[j - 1] /\ s[j - 1] \in StepIds(c)
        <5>1. u[j] = s[j - 1]
          BY <2>3, <4>1, Zenon
        <5>2. QED BY <4>1, <5>1, Zenon DEF Collected, Chain
      <4>3. CASE j - 1 = 1
        BY <2>3, <4>2, <4>3 DEF in
      <4>4. CASE j - 1 # 1
        <5>1. u[j - 1] = s[(j - 1) - 1]
          BY <2>3, <4>1, <4>4, Zenon
        <5>2. StepAt(c, s[j - 1]).input = s[(j - 1) - 1]
          BY <4>1, <4>4, Zenon DEF Collected, Chain
        <5>3. QED BY <4>2, <5>1, <5>2, Zenon
      <4>5. QED BY <4>3, <4>4
    <3>3. QED BY <3>1, <3>2
  <2>6. Chain(c, u)
    <3>1. Len(u) # 0
      BY <1>1, <2>3
    <3>2. QED BY <2>3, <2>5, <3>1, Zenon DEF Chain
  <2>7. u[Len(u)] = i
    <3>1. Len(s) \in 1..Len(s)
      BY <1>1
    <3>2. QED BY <2>3, <3>1, Zenon DEF Collected
  <2>8. QED BY <2>2, <2>3, <2>4, <2>6, <2>7 DEF Collected
<1>6. QED BY <1>4, <1>5

\* A line Line finds starts at the camera and ends in the step it was asked for.
LEMMA LineSound ==
  ASSUME NEW c, GraphTyped(c), WiresExist(c), NEW i \in StepIds(c), Line(c, i) # <<>>
  PROVE  Rooted(c, Line(c, i)) /\ Line(c, i)[Len(Line(c, i))] = i
<1> DEFINE N == Len(c.steps)
<1>1. N \in Nat
  BY StepFacts
<1>2. PICK f : Backing(c, i, N, f) /\ Line(c, i) = IF Len(f[N]) > N THEN <<>> ELSE f[N]
  BY <1>1, BackingExists
<1> DEFINE G == {m \in 0..N : Collected(c, i, m, f[m])}
<1>3. 0 \in G
  <2>1. f[0] = <<i>> /\ 0 \in 0..N
    BY <1>1, <1>2 DEF Backing
  <2>2. IsASeq(<<i>>) /\ Len(<<i>>) = 1 /\ <<i>>[1] = i /\ \A j \in 1..1 : j = 1
    BY DEF IsASeq
  <2>3. Chain(c, <<i>>)
    <3>1. \A j \in 1..1 : <<i>>[j] \in StepIds(c) /\ ~(j # 1)
      BY <2>2
    <3> DEFINE one == <<i>>
    <3> HIDE DEF one
    <3>2. IsASeq(one) /\ Len(one) = 1 /\ 1 # 0 /\ \A j \in 1..1 : one[j] \in StepIds(c) /\ ~(j # 1)
      BY <2>2, <3>1 DEF one
    <3>3. Chain(c, one)
      BY <3>2 DEF Chain
    <3>4. QED BY <3>3 DEF one
  <2>4. Collected(c, i, 0, f[0])
    <3> DEFINE one == <<i>>
    <3>1. Chain(c, one) /\ Len(one) = 1 /\ one[1] = i /\ f[0] = one
      BY <2>1, <2>2, <2>3
    <3> HIDE DEF one
    <3>2. one[Len(one)] = i /\ Len(one) = 0 + 1
      BY <3>1
    <3>3. QED BY <3>1, <3>2, Zenon DEF Collected
  <2>5. QED BY <2>1, <2>4
<1>4. \A m \in 0..(N - 1) : m \in G => m + 1 \in G
  <2> SUFFICES ASSUME NEW m \in 0..(N - 1), m \in G PROVE m + 1 \in G
    OBVIOUS
  <2>1. m + 1 \in 1..N /\ (m + 1) - 1 = m /\ m + 1 \in 0..N /\ m \in Nat
    BY <1>1
  <2>2. f[m + 1] = Back(c, f[m])
    <3>1. f[m + 1] = Back(c, f[(m + 1) - 1])
      BY <1>2, <2>1, Zenon DEF Backing
    <3>2. QED BY <2>1, <3>1
  <2>3. Collected(c, i, m + 1, Back(c, f[m]))
    <3>1. Collected(c, i, m, f[m])
      OBVIOUS
    <3>2. QED BY <2>1, <3>1, BackCollects, Zenon
  <2>4. QED BY <2>1, <2>2, <2>3
<1>5. Collected(c, i, N, f[N])
  <2>1. \A m \in 0..N : m \in G
    <3> HIDE DEF G
    <3>1. QED BY <1>1, <1>3, <1>4, UpTo, Zenon
  <2>2. QED BY <1>1, <2>1
<1>6. ~(Len(f[N]) > N) /\ Line(c, i) = f[N]
  BY <1>2
<1>7. Len(f[N]) # N + 1
  BY <1>1, <1>6
<1>8. QED BY <1>5, <1>6, <1>7 DEF Collected, Rooted

-----------------------------------------------------------------------------
(* The shape Validate accepts *)

\* Two and three elements, place by place.
LEMMA ShortSeqs ==
  ASSUME NEW s, IsASeq(s)
  PROVE  /\ \A a, b : s = <<a, b>> <=> Len(s) = 2 /\ s[1] = a /\ s[2] = b
         /\ \A a, b, d : s = <<a, b, d>> <=> Len(s) = 3 /\ s[1] = a /\ s[2] = b /\ s[3] = d
<1>1. ASSUME NEW a, NEW b PROVE s = <<a, b>> <=> Len(s) = 2 /\ s[1] = a /\ s[2] = b
  <2>1. s = <<a, b>> => Len(s) = 2 /\ s[1] = a /\ s[2] = b
    OBVIOUS
  <2>2. ASSUME Len(s) = 2, s[1] = a, s[2] = b PROVE s = <<a, b>>
    <3>1. s = [i \in 1..2 |-> s[i]]
      BY <2>2 DEF IsASeq
    <3>2. \A i \in 1..2 : s[i] = <<a, b>>[i]
      BY <2>2
    <3>3. <<a, b>> = [i \in 1..2 |-> <<a, b>>[i]]
      OBVIOUS
    <3>4. QED BY <3>1, <3>2, <3>3
  <2>3. QED BY <2>1, <2>2
<1>2. ASSUME NEW a, NEW b, NEW d
      PROVE  s = <<a, b, d>> <=> Len(s) = 3 /\ s[1] = a /\ s[2] = b /\ s[3] = d
  <2>1. s = <<a, b, d>> => Len(s) = 3 /\ s[1] = a /\ s[2] = b /\ s[3] = d
    OBVIOUS
  <2>2. ASSUME Len(s) = 3, s[1] = a, s[2] = b, s[3] = d PROVE s = <<a, b, d>>
    <3>1. s = [i \in 1..3 |-> s[i]]
      BY <2>2 DEF IsASeq
    <3>2. \A i \in 1..3 : s[i] = <<a, b, d>>[i]
      BY <2>2
    <3>3. <<a, b, d>> = [i \in 1..3 |-> <<a, b, d>>[i]]
      OBVIOUS
    <3>4. QED BY <3>1, <3>2, <3>3
  <2>3. QED BY <2>1, <2>2
<1>3. QED BY <1>1, <1>2

\* Two sequences are one when they agree place by place.
LEMMA SameSeq ==
  ASSUME NEW s, NEW t, IsASeq(s), IsASeq(t), Len(s) = Len(t), \A i \in 1..Len(s) : s[i] = t[i]
  PROVE  s = t
BY DEF IsASeq

\* What SubSeq cuts out.
LEMMA CutFacts ==
  ASSUME NEW s, IsASeq(s), NEW a \in Nat \ {0}, NEW b \in Nat, b <= Len(s)
  PROVE  /\ IsASeq(SubSeq(s, a, b))
         /\ Len(SubSeq(s, a, b)) = IF a <= b THEN (b - a) + 1 ELSE 0
         /\ \A j \in 1..Len(SubSeq(s, a, b)) : SubSeq(s, a, b)[j] = s[(a - 1) + j]
<1> DEFINE S == {s[i] : i \in 1..Len(s)}
<1>1. \A i \in 1..Len(s) : s[i] \in S
  OBVIOUS
<1> HIDE DEF S
<1>2. s \in Seq(S) /\ Len(s) \in Nat
  BY <1>1, IsASeqOver
<1>3. SubSeq(s, a, b) \in Seq(S)
  BY <1>2
<1>4. IsASeq(SubSeq(s, a, b))
  BY <1>3, SeqIsASeq, Zenon
<1>5. QED BY <1>2, <1>4

\* What it cuts off at the front.
LEMMA FrontFacts ==
  ASSUME NEW s, IsASeq(s), NEW b \in Nat, b <= Len(s)
  PROVE  /\ IsASeq(SubSeq(s, 1, b)) /\ Len(SubSeq(s, 1, b)) = b
         /\ \A j \in 1..Len(SubSeq(s, 1, b)) : SubSeq(s, 1, b)[j] = s[j]
<1> DEFINE v == SubSeq(s, 1, b)
<1>1. IsASeq(v) /\ Len(v) = (IF 1 <= b THEN (b - 1) + 1 ELSE 0) /\ \A j \in 1..Len(v) : v[j] = s[(1 - 1) + j]
  <2>1. 1 \in Nat \ {0}
    OBVIOUS
  <2>2. QED BY <2>1, CutFacts
<1> HIDE DEF v
<1>2. Len(v) = b /\ \A j \in 1..Len(v) : (1 - 1) + j = j
  BY <1>1
<1>3. \A j \in 1..Len(v) : v[j] = s[j]
  BY <1>1, <1>2
<1>4. QED BY <1>1, <1>2, <1>3 DEF v

\* What is left behind the front.
LEMMA RestOf ==
  ASSUME NEW n \in Nat \ {0}, NEW m \in Nat \ {0}, n <= m, NEW k,
         k = IF n + 1 <= m THEN (m - (n + 1)) + 1 ELSE 0, k # 0
  PROVE  (n + 1) - 1 = n /\ m = n + k /\ k \in Nat \ {0}
OBVIOUS

\* A branch that takes line t on to where `line` ends.
Grows(c, t, br, line) ==
  /\ Chain(c, br) /\ StepAt(c, br[1]).input = t[Len(t)] /\ br[Len(br)] = line[Len(line)]

\* `line` is t and then br.
Splits(t, br, line) == IsPrefix(t, line) /\ SubSeq(line, Len(t) + 1, Len(line)) = br

\* A line continues another one when its next steps are wired to the other's end; they are
\* then what is left of it, and the other is its prefix.
LEMMA Continued ==
  ASSUME NEW c, NEW t, Rooted(c, t), NEW br, Chain(c, br),
         StepAt(c, br[1]).input = t[Len(t)]
  PROVE  Rooted(c, t \o br) /\ Grows(c, t, br, t \o br) /\ Splits(t, br, t \o br)
<1> DEFINE u == t \o br
<1>1. IsASeq(t) /\ IsASeq(br) /\ Len(t) \in Nat \ {0} /\ Len(br) \in Nat \ {0}
  BY DEF Rooted, Chain, IsASeq
<1>2. /\ IsASeq(u) /\ Len(u) = Len(t) + Len(br)
      /\ \A i \in 1..Len(t) : u[i] = t[i]
      /\ \A i \in 1..Len(br) : u[Len(t) + i] = br[i]
  BY <1>1, ConcatFacts
<1> HIDE DEF u
<1>3. ASSUME NEW j \in 1..Len(u)
      PROVE  u[j] \in StepIds(c) /\ (j # 1 => StepAt(c, u[j]).input = u[j - 1])
  <2>1. CASE j \in 1..Len(t)
    <3>1. j # 1 => j - 1 \in 1..Len(t)
      BY <1>1, <2>1
    <3>2. t[j] \in StepIds(c) /\ (j # 1 => StepAt(c, t[j]).input = t[j - 1])
      BY <2>1 DEF Rooted, Chain
    <3>3. QED BY <1>2, <2>1, <3>1, <3>2, Zenon
  <2>2. CASE ~(j \in 1..Len(t))
    <3> DEFINE k == j - Len(t)
    <3>1. k \in 1..Len(br) /\ Len(t) + k = j /\ j # 1 /\ (k # 1 => k - 1 \in 1..Len(br) /\ Len(t) + (k - 1) = j - 1)
             /\ (k = 1 => j - 1 = Len(t) /\ Len(t) \in 1..Len(t))
      BY <1>1, <1>2, <2>2
    <3> HIDE DEF k
    <3>2. br[k] \in StepIds(c) /\ (k # 1 => StepAt(c, br[k]).input = br[k - 1])
      BY <3>1 DEF Chain
    <3>3. u[j] = br[k]
      BY <1>2, <3>1, Zenon
    <3>4. CASE k = 1
      <4>1. u[j - 1] = t[Len(t)]
        BY <1>2, <3>1, <3>4, Zenon
      <4>2. QED BY <3>2, <3>3, <3>4, <4>1
    <3>5. CASE k # 1
      <4>1. u[j - 1] = br[k - 1]
        BY <1>2, <3>1, <3>5, Zenon
      <4>2. QED BY <3>2, <3>3, <3>5, <4>1
    <3>6. QED BY <3>4, <3>5
  <2>3. QED BY <2>1, <2>2
<1>4. Rooted(c, u)
  <2>1. Len(u) # 0 /\ 1 \in 1..Len(t)
    BY <1>1, <1>2
  <2>2. Chain(c, u)
    BY <1>2, <1>3, <2>1, Zenon DEF Chain
  <2>3. u[1] = t[1]
    BY <1>2, <2>1, Zenon
  <2>4. QED BY <2>2, <2>3 DEF Rooted
<1>5. u[Len(u)] = br[Len(br)]
  <2>1. Len(br) \in 1..Len(br)
    BY <1>1
  <2>2. QED BY <1>2, <2>1, Zenon
<1>6. IsPrefix(t, u)
  <2> DEFINE v == SubSeq(u, 1, Len(t))
             w == SubSeq(t, 1, Len(t))
  <2>1. Len(t) <= Len(u)
    BY <1>1, <1>2
  <2>2. IsASeq(v) /\ Len(v) = Len(t) /\ \A j \in 1..Len(v) : v[j] = u[j]
    BY <1>1, <1>2, <2>1, FrontFacts
  <2>3. IsASeq(w) /\ Len(w) = Len(t) /\ \A j \in 1..Len(w) : w[j] = t[j]
    BY <1>1, FrontFacts
  <2> HIDE DEF v, w
  <2>5. \A j \in 1..Len(v) : v[j] = w[j]
    BY <1>2, <2>2, <2>3, Zenon
  <2>6. v = w
    BY <2>2, <2>3, <2>5, SameSeq, Zenon
  <2>7. QED BY <2>1, <2>6 DEF v, w, IsPrefix
<1>7. SubSeq(u, Len(t) + 1, Len(u)) = br
  <2> DEFINE v == SubSeq(u, Len(t) + 1, Len(u))
  <2>1. Len(t) + 1 \in Nat \ {0} /\ Len(u) \in Nat /\ Len(u) <= Len(u) /\ Len(t) + 1 <= Len(u)
        /\ (Len(u) - (Len(t) + 1)) + 1 = Len(br) /\ (Len(t) + 1) - 1 = Len(t)
    BY <1>1, <1>2
  <2>2. IsASeq(v) /\ Len(v) = Len(br) /\ \A j \in 1..Len(v) : v[j] = u[Len(t) + j]
    BY <1>2, <2>1, CutFacts
  <2> HIDE DEF v
  <2>3. \A j \in 1..Len(v) : v[j] = br[j]
    BY <1>2, <2>2, Zenon
  <2>4. v = br
    BY <1>1, <2>2, <2>3, SameSeq, Zenon
  <2>5. QED BY <2>4 DEF v
<1>8. QED BY <1>4, <1>5, <1>6, <1>7, Zenon DEF u, Grows, Splits

\* And the other way round: a line with another one as its prefix is that one and a
\* branch wired to its end.
LEMMA Branches ==
  ASSUME NEW c, NEW t, Rooted(c, t), NEW line, Rooted(c, line),
         NEW br, Splits(t, br, line), Len(br) # 0
  PROVE  Grows(c, t, br, line)
<1>0. IsPrefix(t, line) /\ br = SubSeq(line, Len(t) + 1, Len(line))
  BY Zenon DEF Splits
<1>1. IsASeq(t) /\ IsASeq(line) /\ Len(t) \in Nat \ {0} /\ Len(line) \in Nat \ {0}
  BY DEF Rooted, Chain, IsASeq
<1>2. Len(t) <= Len(line) /\ Len(t) + 1 \in Nat \ {0} /\ Len(line) <= Len(line)
  BY <1>0, <1>1 DEF IsPrefix
<1>3. /\ IsASeq(br) /\ Len(br) = IF Len(t) + 1 <= Len(line) THEN (Len(line) - (Len(t) + 1)) + 1 ELSE 0
      /\ \A j \in 1..Len(br) : br[j] = line[((Len(t) + 1) - 1) + j]
  BY <1>0, <1>1, <1>2, CutFacts
<1>4. (Len(t) + 1) - 1 = Len(t) /\ Len(line) = Len(t) + Len(br) /\ Len(br) \in Nat \ {0}
  <2>1. Len(br) = IF Len(t) + 1 <= Len(line) THEN (Len(line) - (Len(t) + 1)) + 1 ELSE 0
    BY <1>3
  <2>2. QED BY <1>1, <1>2, <2>1, RestOf, Zenon
<1>5. line[Len(t)] = t[Len(t)]
  <2> DEFINE v == SubSeq(line, 1, Len(t))
             w == SubSeq(t, 1, Len(t))
  <2>1. v = w
    BY <1>0 DEF IsPrefix
  <2>2. Len(v) = Len(t) /\ \A j \in 1..Len(v) : v[j] = line[j]
    BY <1>1, <1>2, FrontFacts
  <2>3. Len(w) = Len(t) /\ \A j \in 1..Len(w) : w[j] = t[j]
    BY <1>1, FrontFacts
  <2>4. Len(t) \in 1..Len(t)
    BY <1>1
  <2> HIDE DEF v, w
  <2>5. QED BY <2>1, <2>2, <2>3, <2>4, Zenon
<1>6. \A j \in 1..Len(br) : br[j] = line[Len(t) + j]
  BY <1>3, <1>4
<1>7. ASSUME NEW j \in 1..Len(br)
      PROVE  /\ br[j] \in StepIds(c)
             /\ StepAt(c, br[j]).input = IF j = 1 THEN t[Len(t)] ELSE br[j - 1]
  <2>1. Len(t) + j \in 1..Len(line) /\ Len(t) + j # 1 /\ (Len(t) + j) - 1 = Len(t) + (j - 1)
        /\ (j # 1 => j - 1 \in 1..Len(br)) /\ (j = 1 => Len(t) + (j - 1) = Len(t))
    BY <1>1, <1>4
  <2>2. line[Len(t) + j] \in StepIds(c)
        /\ StepAt(c, line[Len(t) + j]).input = line[(Len(t) + j) - 1]
    BY <2>1, Zenon DEF Rooted, Chain
  <2>3. StepAt(c, br[j]).input = line[Len(t) + (j - 1)]
    BY <1>6, <2>1, <2>2
  <2>4. CASE j = 1
    BY <1>5, <1>6, <2>1, <2>2, <2>3, <2>4
  <2>5. CASE j # 1
    BY <1>6, <2>1, <2>2, <2>3, <2>5
  <2>6. QED BY <2>4, <2>5
<1>8. Chain(c, br)
  BY <1>3, <1>4, <1>7 DEF Chain
<1>9. StepAt(c, br[1]).input = t[Len(t)]
  BY <1>4, <1>7
<1>10. br[Len(br)] = line[Len(line)]
  <2>1. Len(br) \in 1..Len(br)
    BY <1>4
  <2>2. QED BY <1>4, <1>6, <2>1
<1>11. QED BY <1>8, <1>9, <1>10, Zenon DEF Grows

\* A short chain, wire by wire.
LEMMA ShortChains ==
  ASSUME NEW c, NEW br, IsASeq(br)
  PROVE  /\ Len(br) = 2 =>
              (Chain(c, br) <=> /\ br[1] \in StepIds(c) /\ br[2] \in StepIds(c)
                                /\ StepAt(c, br[2]).input = br[1])
         /\ Len(br) = 3 =>
              (Chain(c, br) <=> /\ br[1] \in StepIds(c) /\ br[2] \in StepIds(c)
                                /\ br[3] \in StepIds(c)
                                /\ StepAt(c, br[2]).input = br[1]
                                /\ StepAt(c, br[3]).input = br[2])
<1>1. ASSUME Len(br) = 2
      PROVE  Chain(c, br) <=> /\ br[1] \in StepIds(c) /\ br[2] \in StepIds(c)
                              /\ StepAt(c, br[2]).input = br[1]
  <2>1. 1..Len(br) = {1, 2} /\ 2 - 1 = 1 /\ Len(br) # 0
    BY <1>1
  <2>2. QED BY <2>1 DEF Chain
<1>2. ASSUME Len(br) = 3
      PROVE  Chain(c, br) <=> /\ br[1] \in StepIds(c) /\ br[2] \in StepIds(c)
                              /\ br[3] \in StepIds(c)
                              /\ StepAt(c, br[2]).input = br[1]
                              /\ StepAt(c, br[3]).input = br[2]
  <2>1. 1..Len(br) = {1, 2, 3} /\ 2 - 1 = 1 /\ 3 - 1 = 2 /\ Len(br) # 0
    BY <1>2
  <2>2. QED BY <2>1 DEF Chain
<1>3. QED BY <1>1, <1>2

\* The kinds of a line's steps, step by step.
LEMMA KindsAre ==
  ASSUME NEW c, NEW br, IsASeq(br)
  PROVE  /\ Kinds(c, br) \in DetectorKinds <=>
              \/ /\ Len(br) = 2
                 /\ StepAt(c, br[1]).kind = "Engine" /\ StepAt(c, br[2]).kind = "Postprocess"
              \/ /\ Len(br) = 3 /\ StepAt(c, br[1]).kind = "Process"
                 /\ StepAt(c, br[2]).kind = "Engine" /\ StepAt(c, br[3]).kind = "Postprocess"
         /\ Kinds(c, br) \in ReaderKinds <=>
              \/ /\ Len(br) = 2
                 /\ StepAt(c, br[1]).kind = "Engine" /\ StepAt(c, br[2]).kind = "Postprocess"
              \/ /\ Len(br) = 3 /\ StepAt(c, br[1]).kind = "Select"
                 /\ StepAt(c, br[2]).kind = "Engine" /\ StepAt(c, br[3]).kind = "Postprocess"
<1> DEFINE ks == Kinds(c, br)
<1>1. DOMAIN br = 1..Len(br) /\ Len(br) \in Nat
  BY IsASeqOver
<1>2. ks = [j \in 1..Len(br) |-> ks[j]] /\ \A j \in 1..Len(br) : ks[j] = StepAt(c, br[j]).kind
  BY <1>1 DEF Kinds
<1> HIDE DEF ks
<1>3. IsASeq(ks) /\ Len(ks) = Len(br)
  BY <1>1, <1>2, ListIsASeq, Zenon
<1>4. Len(br) = 2 => 1 \in 1..Len(br) /\ 2 \in 1..Len(br)
  OBVIOUS
<1>5. Len(br) = 3 => 1 \in 1..Len(br) /\ 2 \in 1..Len(br) /\ 3 \in 1..Len(br)
  OBVIOUS
<1>6. /\ \A a, b : ks = <<a, b>> <=> Len(ks) = 2 /\ ks[1] = a /\ ks[2] = b
      /\ \A a, b, d : ks = <<a, b, d>> <=> Len(ks) = 3 /\ ks[1] = a /\ ks[2] = b /\ ks[3] = d
  BY <1>3, ShortSeqs, Zenon
<1>7. ks = <<"Engine", "Postprocess">> <=>
        Len(br) = 2 /\ StepAt(c, br[1]).kind = "Engine" /\ StepAt(c, br[2]).kind = "Postprocess"
  <2>1. ks = <<"Engine", "Postprocess">> <=> Len(ks) = 2 /\ ks[1] = "Engine" /\ ks[2] = "Postprocess"
    BY <1>6
  <2>2. QED BY <1>2, <1>3, <1>4, <2>1
<1>8. \A first : ks = <<first, "Engine", "Postprocess">> <=>
        /\ Len(br) = 3 /\ StepAt(c, br[1]).kind = first
        /\ StepAt(c, br[2]).kind = "Engine" /\ StepAt(c, br[3]).kind = "Postprocess"
  <2> TAKE first
  <2>1. ks = <<first, "Engine", "Postprocess">> <=>
          Len(ks) = 3 /\ ks[1] = first /\ ks[2] = "Engine" /\ ks[3] = "Postprocess"
    BY <1>6
  <2>2. QED BY <1>2, <1>3, <1>5, <2>1
<1>9. QED BY <1>7, <1>8 DEF DetectorKinds, ReaderKinds, ks

\* A layer's steps as an application lists them.
LayerTyped(l) == IsASeq(l.steps) /\ \A k \in 1..Len(l.steps) : l.steps[k] \in Int

\* What IsTree asks of the first layer, wire by wire.
Trunk(c, l) ==
  /\ LayerNamesSteps(c, l) /\ Rooted(c, l.steps) /\ StepAt(c, l.steps[1]).input = -1
  /\ Kinds(c, l.steps) \in DetectorKinds
  /\ StepAt(c, PostOf(l)).family \in DetectFamilies

\* It is what Validate asks of it.
LEMMA DetectorIsTrunk ==
  ASSUME NEW c, NEW l, LayerTyped(l)
  PROVE  DetectorOk(c, l) <=> Trunk(c, l)
<1> DEFINE n == Len(l.steps)
<1>1. IsASeq(l.steps) /\ n \in Nat /\ DOMAIN l.steps = 1..n
  BY IsASeqOver DEF LayerTyped
<1>2. n # 0 <=> l.steps # <<>>
  <2>1. n # 0 => l.steps # <<>>
    OBVIOUS
  <2>2. n = 0 => l.steps = <<>>
    BY <1>1 DEF IsASeq
  <2>3. QED BY <2>1, <2>2
<1>3. StepsExist(c, l) <=> \A j \in 1..n : l.steps[j] \in StepIds(c)
  BY <1>1 DEF StepsExist
<1>4. CASE n = 2
  <2>1. StepsExist(c, l) <=> l.steps[1] \in StepIds(c) /\ l.steps[2] \in StepIds(c)
    <3>1. 1..n = {1, 2}
      BY <1>4
    <3>2. QED BY <1>3, <3>1
  <2>2. EngineOf(l) = l.steps[1] /\ PostOf(l) = l.steps[2]
    BY <1>4 DEF EngineOf, PostOf
  <2>3. Chain(c, l.steps) <=> /\ l.steps[1] \in StepIds(c) /\ l.steps[2] \in StepIds(c)
                              /\ StepAt(c, l.steps[2]).input = l.steps[1]
    BY <1>1, <1>4, ShortChains
  <2>4. Kinds(c, l.steps) \in DetectorKinds <=>
          StepAt(c, l.steps[1]).kind = "Engine" /\ StepAt(c, l.steps[2]).kind = "Postprocess"
    BY <1>1, <1>4, KindsAre
  <2>5. QED BY <1>2, <1>4, <2>1, <2>2, <2>3, <2>4
            DEF DetectorOk, Trunk, IsStep, Rooted, LayerNamesSteps
<1>5. CASE n = 3
  <2>1. StepsExist(c, l) <=> l.steps[1] \in StepIds(c) /\ l.steps[2] \in StepIds(c) /\ l.steps[3] \in StepIds(c)
    <3>1. 1..n = {1, 2, 3}
      BY <1>5
    <3>2. QED BY <1>3, <3>1
  <2>2. EngineOf(l) = l.steps[2] /\ PostOf(l) = l.steps[3]
    BY <1>5 DEF EngineOf, PostOf
  <2>3. Chain(c, l.steps) <=> /\ l.steps[1] \in StepIds(c) /\ l.steps[2] \in StepIds(c)
                              /\ l.steps[3] \in StepIds(c)
                              /\ StepAt(c, l.steps[2]).input = l.steps[1]
                              /\ StepAt(c, l.steps[3]).input = l.steps[2]
    BY <1>1, <1>5, ShortChains
  <2>4. Kinds(c, l.steps) \in DetectorKinds <=>
          /\ StepAt(c, l.steps[1]).kind = "Process"
          /\ StepAt(c, l.steps[2]).kind = "Engine" /\ StepAt(c, l.steps[3]).kind = "Postprocess"
    BY <1>1, <1>5, KindsAre
  <2>5. QED BY <1>2, <1>5, <2>1, <2>2, <2>3, <2>4
            DEF DetectorOk, Trunk, IsStep, Rooted, LayerNamesSteps
<1>6. CASE n \notin {2, 3}
  <2>1. ~DetectorOk(c, l)
    BY <1>6 DEF DetectorOk
  <2>2. ~(Kinds(c, l.steps) \in DetectorKinds)
    BY <1>1, <1>6, KindsAre
  <2>3. QED BY <2>1, <2>2 DEF Trunk
<1>7. QED BY <1>4, <1>5, <1>6

\* What IsTree asks of a child layer, wire by wire; br: from the detector's end to the
\* layer's own.
Branching(c, l, br) ==
  /\ Chain(c, br) /\ StepAt(c, br[1]).input = DetectorPost(c)
  /\ br[Len(br)] = PostOf(l)
  /\ Kinds(c, br) \in ReaderKinds
  /\ l.steps \in {br, SubSeq(br, Len(br) - 1, Len(br))}
  /\ StepAt(c, PostOf(l)).family \in ReadFamilies

\* What Validate asks of it.
ChildOk(c, l) ==
  /\ Len(l.steps) \in {2, 3} /\ StepsExist(c, l)
  /\ OwnSelectOk(c, l) /\ EngineOk(c, l) /\ ReadOk(c, l)

\* The last two elements.
LEMMA EndFacts ==
  ASSUME NEW t, IsASeq(t), NEW a \in Nat \ {0}, NEW b \in Nat, b = Len(t), a + 1 = b
  PROVE  SubSeq(t, a, b) = <<t[a], t[b]>>
<1> DEFINE w == SubSeq(t, a, b)
<1>1. b <= Len(t) /\ (b - a) + 1 = 2 /\ a <= b /\ (a - 1) + 1 = a /\ (a - 1) + 2 = b
  OBVIOUS
<1>2. IsASeq(w) /\ Len(w) = IF a <= b THEN (b - a) + 1 ELSE 0
  BY <1>1, CutFacts
<1>3. \A j \in 1..Len(w) : w[j] = t[(a - 1) + j]
  BY <1>1, CutFacts
<1> HIDE DEF w
<1>4. Len(w) = 2 /\ 1 \in 1..2 /\ 2 \in 1..2
  BY <1>1, <1>2
<1>5. w[1] = t[a] /\ w[2] = t[b]
  BY <1>1, <1>3, <1>4
<1>6. w = <<t[a], t[b]>>
  BY <1>2, <1>4, <1>5, ShortSeqs
<1>7. QED BY <1>6 DEF w

\* The last two of three.
LEMMA LastTwo ==
  ASSUME NEW a, NEW b, NEW d
  PROVE  SubSeq(<<a, b, d>>, 3 - 1, 3) = <<b, d>>
<1> DEFINE t == <<a, b, d>>
<1>1. IsASeq(t) /\ Len(t) = 3 /\ t[2] = b /\ t[3] = d
  BY DEF IsASeq
<1> HIDE DEF t
<1>2. \A i, k : i \in Nat \ {0} /\ k \in Nat /\ k = Len(t) /\ i + 1 = k => SubSeq(t, i, k) = <<t[i], t[k]>>
  BY <1>1, EndFacts
<1>3. 3 - 1 \in Nat \ {0} /\ 3 \in Nat /\ 3 - 1 = 2 /\ (3 - 1) + 1 = 3
  OBVIOUS
<1>4. SubSeq(t, 3 - 1, 3) = <<t[3 - 1], t[3]>>
  BY <1>1, <1>2, <1>3, Zenon
<1>5. QED BY <1>1, <1>3, <1>4 DEF t

\* A child Validate lets pass has a branch.
LEMMA ChildBranches ==
  ASSUME NEW c, GraphTyped(c), WiresExist(c), NEW l, LayerTyped(l), ChildOk(c, l)
  PROVE  \E br : Branching(c, l, br)
<1> DEFINE n == Len(l.steps)
           in == StepAt(c, EngineOf(l)).input
<1>1. IsASeq(l.steps) /\ n \in Nat /\ DOMAIN l.steps = 1..n
  BY IsASeqOver DEF LayerTyped
<1>2. \A j \in 1..n : l.steps[j] \in StepIds(c)
  BY <1>1 DEF ChildOk, StepsExist
<1>3. CASE n = 3
  <2>1. EngineOf(l) = l.steps[2] /\ PostOf(l) = l.steps[3] /\ Routed(l)
    BY <1>3 DEF EngineOf, PostOf, Routed
  <2>2. 1 \in 1..n /\ 2 \in 1..n /\ 3 \in 1..n
    BY <1>3
  <2>3. Chain(c, l.steps)
    <3>1. StepAt(c, l.steps[2]).input = l.steps[1] /\ StepAt(c, l.steps[3]).input = l.steps[2]
      BY <2>1 DEF ChildOk, EngineOk, ReadOk, IsStep
    <3>2. QED BY <1>1, <1>2, <1>3, <2>2, <3>1, ShortChains
  <2>4. Kinds(c, l.steps) \in ReaderKinds
    <3>1. StepAt(c, l.steps[1]).kind = "Select" /\ StepAt(c, l.steps[2]).kind = "Engine"
          /\ StepAt(c, l.steps[3]).kind = "Postprocess"
      BY <2>1 DEF ChildOk, OwnSelectOk, EngineOk, ReadOk, IsStep
    <3>2. QED BY <1>1, <1>3, <3>1, KindsAre
  <2>5. Branching(c, l, l.steps)
    BY <1>3, <2>1, <2>3, <2>4 DEF Branching, ChildOk, OwnSelectOk, ReadOk, IsStep
  <2>6. QED BY <2>5
<1>4. CASE n = 2
  <2>1. EngineOf(l) = l.steps[1] /\ PostOf(l) = l.steps[2] /\ ~Routed(l)
    BY <1>4 DEF EngineOf, PostOf, Routed
  <2>2. 1 \in 1..n /\ 2 \in 1..n
    BY <1>4
  <2>3. /\ StepAt(c, l.steps[1]).kind = "Engine" /\ StepAt(c, l.steps[2]).kind = "Postprocess"
        /\ StepAt(c, l.steps[2]).input = l.steps[1]
        /\ StepAt(c, PostOf(l)).family \in ReadFamilies
    BY <2>1 DEF ChildOk, EngineOk, ReadOk, IsStep
  <2>4. CASE in = DetectorPost(c)
    <3>1. Chain(c, l.steps)
      BY <1>1, <1>2, <1>4, <2>2, <2>3, ShortChains
    <3>2. Kinds(c, l.steps) \in ReaderKinds
      BY <1>1, <1>4, <2>3, KindsAre
    <3>3. Branching(c, l, l.steps)
      BY <1>4, <2>1, <2>3, <2>4, <3>1, <3>2 DEF Branching
    <3>4. QED BY <3>3
  <2>5. CASE in # DetectorPost(c)
    <3>1. SharedSelect(c, in)
      BY <2>1, <2>5 DEF ChildOk, EngineOk
    <3>2. in \in StepIds(c)
      <4>1. EngineOf(l) \in StepIds(c)
        BY <1>2, <2>1, <2>2
      <4>2. in < Len(c.steps) /\ in >= 0
        BY <3>1, <4>1 DEF WiresExist, SharedSelect
      <4>3. in \in Int /\ Len(c.steps) \in Nat
        BY <4>1, StepFacts
      <4>4. QED BY <4>2, <4>3 DEF StepIds
    <3> DEFINE br == <<in, l.steps[1], l.steps[2]>>
    <3>3. IsASeq(br) /\ Len(br) = 3 /\ br[1] = in /\ br[2] = l.steps[1] /\ br[3] = l.steps[2]
      BY DEF IsASeq
    <3>4. SubSeq(br, Len(br) - 1, Len(br)) = l.steps
      <4>1. SubSeq(br, 3 - 1, 3) = <<l.steps[1], l.steps[2]>>
        BY LastTwo
      <4>2. l.steps = <<l.steps[1], l.steps[2]>>
        BY <1>1, <1>4, ShortSeqs
      <4> HIDE DEF br
      <4>3. QED BY <3>3, <4>1, <4>2
    <3> HIDE DEF br
    <3>5. Chain(c, br)
      <4>1. l.steps[1] \in StepIds(c) /\ l.steps[2] \in StepIds(c) /\ StepAt(c, l.steps[1]).input = in
        BY <1>2, <2>1, <2>2
      <4>2. QED BY <2>3, <3>2, <3>3, <4>1, ShortChains
    <3>6. Kinds(c, br) \in ReaderKinds
      <4>1. StepAt(c, in).kind = "Select"
        BY <3>1 DEF SharedSelect, IsStep
      <4>2. QED BY <2>3, <3>3, <4>1, KindsAre
    <3>7. StepAt(c, br[1]).input = DetectorPost(c)
      BY <3>1, <3>3 DEF SharedSelect, IsStep
    <3>8. Branching(c, l, br)
      BY <2>1, <2>3, <3>3, <3>4, <3>5, <3>6, <3>7 DEF Branching
    <3>9. QED BY <3>8
  <2>6. QED BY <2>4, <2>5
<1>5. QED BY <1>3, <1>4 DEF ChildOk

\* And one that has a branch is let pass.
LEMMA BranchIsOk ==
  ASSUME NEW c, GraphTyped(c), DetectorPost(c) \in Nat, NEW l, LayerTyped(l), StepsExist(c, l),
         NEW br, Branching(c, l, br)
  PROVE  ChildOk(c, l)
<1> DEFINE n == Len(l.steps)
<1>1. IsASeq(br) /\ Len(br) \in Nat
  BY DEF Branching, Chain, IsASeq
<1>2. Len(br) \in {2, 3} /\ Kinds(c, br) \in ReaderKinds
  BY <1>1, KindsAre DEF Branching
<1>3. CASE Len(br) = 2
  <2>1. /\ StepAt(c, br[1]).kind = "Engine" /\ StepAt(c, br[2]).kind = "Postprocess"
        /\ StepAt(c, br[2]).input = br[1] /\ StepAt(c, br[1]).input = DetectorPost(c)
    BY <1>1, <1>2, <1>3, KindsAre, ShortChains DEF Branching
  <2>2. l.steps = br
    <3> DEFINE w == SubSeq(br, 1, Len(br))
    <3>1. Len(br) <= Len(br)
      BY <1>1
    <3>2. IsASeq(w) /\ Len(w) = Len(br) /\ \A j \in 1..Len(w) : w[j] = br[j]
      BY <1>1, <3>1, FrontFacts, Zenon
    <3>3. w = br
      <4> HIDE DEF w
      <4>1. QED BY <1>1, <3>2, SameSeq, Zenon
    <3>4. l.steps \in {br, SubSeq(br, Len(br) - 1, Len(br))} /\ Len(br) - 1 = 1
      BY <1>3 DEF Branching
    <3>5. QED BY <3>3, <3>4
  <2>3. EngineOf(l) = br[1] /\ PostOf(l) = br[2] /\ ~Routed(l) /\ n = 2
    <3>1. n = 2 /\ l.steps[1] = br[1] /\ l.steps[2] = br[2] /\ n = Len(l.steps)
      BY <1>3, <2>2, Zenon
    <3> HIDE DEF n
    <3>2. Len(l.steps) = 2 /\ Len(l.steps) - 1 = 1 /\ 2 # 3
      BY <3>1
    <3>3. QED BY <3>1, <3>2, Zenon DEF EngineOf, PostOf, Routed
  <2>4. OwnSelectOk(c, l) /\ EngineOk(c, l) /\ ReadOk(c, l)
    BY <2>1, <2>3 DEF OwnSelectOk, EngineOk, ReadOk, IsStep, Branching
  <2>5. QED BY <2>3, <2>4 DEF ChildOk
<1>4. CASE Len(br) = 3
  <2>1. /\ StepAt(c, br[1]).kind = "Select"
        /\ StepAt(c, br[2]).kind = "Engine" /\ StepAt(c, br[3]).kind = "Postprocess"
        /\ StepAt(c, br[1]).input = DetectorPost(c)
        /\ StepAt(c, br[2]).input = br[1] /\ StepAt(c, br[3]).input = br[2]
        /\ br[1] \in StepIds(c)
    BY <1>1, <1>2, <1>4, KindsAre, ShortChains DEF Branching
  <2>2. br = <<br[1], br[2], br[3]>>
    BY <1>1, <1>4, ShortSeqs
  <2>3. SubSeq(br, Len(br) - 1, Len(br)) = <<br[2], br[3]>>
    <3>1. SubSeq(<<br[1], br[2], br[3]>>, 3 - 1, 3) = <<br[2], br[3]>>
      BY LastTwo
    <3>2. QED BY <1>4, <2>2, <3>1, Zenon
  <2>4. l.steps = br \/ l.steps = <<br[2], br[3]>>
    BY <2>3 DEF Branching
  <2>5. br[1] >= 0
    BY <2>1, StepFacts
  <2>6. CASE l.steps = br
    <3>1. EngineOf(l) = br[2] /\ PostOf(l) = br[3] /\ Routed(l) /\ n = 3 /\ l.steps[1] = br[1]
      <4>1. n = 3 /\ l.steps[1] = br[1] /\ l.steps[2] = br[2] /\ l.steps[3] = br[3] /\ n = Len(l.steps)
        BY <1>4, <2>6, Zenon
      <4> HIDE DEF n
      <4>2. Len(l.steps) = 3 /\ Len(l.steps) - 1 = 2
        BY <4>1
      <4>3. QED BY <4>1, <4>2, Zenon DEF EngineOf, PostOf, Routed
    <3>2. OwnSelectOk(c, l) /\ EngineOk(c, l) /\ ReadOk(c, l)
      BY <2>1, <3>1 DEF OwnSelectOk, EngineOk, ReadOk, IsStep, Branching
    <3>3. QED BY <3>1, <3>2 DEF ChildOk
  <2>7. CASE l.steps = <<br[2], br[3]>>
    <3>1. EngineOf(l) = br[2] /\ PostOf(l) = br[3] /\ ~Routed(l) /\ n = 2
      <4>1. n = 2 /\ l.steps[1] = br[2] /\ l.steps[2] = br[3] /\ n = Len(l.steps)
        BY <2>7
      <4> HIDE DEF n
      <4>2. Len(l.steps) = 2 /\ Len(l.steps) - 1 = 1 /\ 2 # 3
        BY <4>1
      <4>3. QED BY <4>1, <4>2, Zenon DEF EngineOf, PostOf, Routed
    <3>2. OwnSelectOk(c, l) /\ EngineOk(c, l) /\ ReadOk(c, l)
      BY <2>1, <2>5, <3>1 DEF OwnSelectOk, EngineOk, ReadOk, IsStep, Branching, SharedSelect
    <3>3. QED BY <3>1, <3>2 DEF ChildOk
  <2>8. QED BY <2>4, <2>6, <2>7
<1>5. QED BY <1>2, <1>3, <1>4

\* A set of places has a first one.
LEMMA EarliestOf ==
  ASSUME NEW n \in Nat, NEW S, S \subseteq 1..n, S # {}
  PROVE  \E j \in S : \A i \in S : j <= i
<1> DEFINE G == {m \in 0..n : \A j \in S : j > m}
<1>1. SUFFICES ASSUME \A j \in S : \E i \in S : i < j PROVE FALSE
  <2>1. \A i, j \in S : i < j \/ j <= i
    OBVIOUS
  <2>2. QED BY <2>1
<1>2. 0 \in G
  OBVIOUS
<1>3. \A m \in 0..(n - 1) : m \in G => m + 1 \in G
  <2> SUFFICES ASSUME NEW m \in 0..(n - 1), m \in G, NEW j \in S PROVE j > m + 1
    OBVIOUS
  <2>1. PICK i \in S : i < j
    BY <1>1
  <2>2. i > m /\ i \in Nat /\ j \in Nat
    OBVIOUS
  <2>3. QED BY <2>1, <2>2
<1>4. n \in G
  <2>1. \A m \in 0..n : m \in G
    <3> HIDE DEF G
    <3>1. QED BY <1>2, <1>3, UpTo, Zenon
  <2>2. QED BY <2>1
<1>5. PICK j \in S : TRUE
  OBVIOUS
<1>6. j > n /\ j <= n /\ j \in Nat
  BY <1>4
<1>7. QED BY <1>6

\* What is left of a sequence without its first element.
LEMMA TailFacts ==
  ASSUME NEW s, IsASeq(s), Len(s) # 0
  PROVE  /\ IsASeq(Tail(s)) /\ Len(Tail(s)) = Len(s) - 1
         /\ \A i \in 1..(Len(s) - 1) : Tail(s)[i] = s[i + 1]
<1> DEFINE S == {s[i] : i \in 1..Len(s)}
<1>1. \A i \in 1..Len(s) : s[i] \in S
  OBVIOUS
<1> HIDE DEF S
<1>2. s \in Seq(S) /\ Len(s) \in Nat
  BY <1>1, IsASeqOver
<1>3. s # <<>>
  OBVIOUS
<1>4. Tail(s) \in Seq(S) /\ Len(Tail(s)) = Len(s) - 1 /\ \A i \in 1..(Len(s) - 1) : Tail(s)[i] = s[i + 1]
  BY <1>2, <1>3
<1>5. IsASeq(Tail(s))
  BY <1>4, SeqIsASeq, Zenon
<1>6. QED BY <1>4, <1>5

\* What Validate says of a child layer.
LEMMA ChildVerdicts ==
  ASSUME NEW c, NEW l
  PROVE  /\ l.sahi => ChildVerdict(c, l) = "sahi"
         /\ ~l.sahi => /\ ChildVerdict(c, l) = "ok" <=> ChildOk(c, l)
                       /\ ChildVerdict(c, l) \in {"ok", "graph", "chained"}
<1>1. ASSUME l.sahi PROVE ChildVerdict(c, l) = "sahi"
  BY <1>1 DEF ChildVerdict
<1>2. ASSUME ~l.sahi, ~(Len(l.steps) \in {2, 3} /\ StepsExist(c, l))
      PROVE  ChildVerdict(c, l) = "graph" /\ ~ChildOk(c, l)
  BY <1>2 DEF ChildVerdict, ChildOk
<1>3. ASSUME ~l.sahi, Len(l.steps) \in {2, 3} /\ StepsExist(c, l)
      PROVE  /\ ChildVerdict(c, l) = "ok" <=> ChildOk(c, l)
             /\ ChildVerdict(c, l) \in {"ok", "graph", "chained"}
  <2>1. ChildVerdict(c, l) = IF ~OwnSelectOk(c, l) THEN ChainedOr(c, l.steps[1], "Select")
                             ELSE IF ~EngineOk(c, l) THEN ChainedOr(c, EngineOf(l), "Engine")
                             ELSE IF ~ReadOk(c, l) THEN "graph" ELSE "ok"
    BY <1>3 DEF ChildVerdict
  <2>2. \A i, kind : ChainedOr(c, i, kind) \in {"graph", "chained"}
    BY DEF ChainedOr
  <2>3. QED BY <1>3, <2>1, <2>2 DEF ChildOk
<1>4. QED BY <1>1, <1>2, <1>3

\* IsTree, layer by layer.
TreeShape(c) ==
  /\ Len(c.layers) # 0 /\ Trunk(c, c.layers[1])
  /\ \A j \in 2..Len(c.layers) :
       /\ LayerNamesSteps(c, c.layers[j])
       /\ \E br : Branching(c, c.layers[j], br)

\* A layer of a typed graph lists its steps.
LEMMA LayersTyped ==
  ASSUME NEW c, GraphTyped(c)
  PROVE  /\ IsASeq(c.layers) /\ Len(c.layers) \in Nat /\ DOMAIN c.layers = 1..Len(c.layers)
         /\ c.layers = <<>> <=> Len(c.layers) = 0
         /\ \A j \in 1..Len(c.layers) : LayerTyped(c.layers[j])
<1>1. IsASeq(c.layers)
  BY DEF GraphTyped
<1>2. Len(c.layers) \in Nat /\ DOMAIN c.layers = 1..Len(c.layers)
  BY <1>1, IsASeqOver
<1>3. \A j \in 1..Len(c.layers) : LayerTyped(c.layers[j])
  BY DEF GraphTyped, LayerTyped
<1>4. c.layers = <<>> => Len(c.layers) = 0
  OBVIOUS
<1>5. Len(c.layers) = 0 => c.layers = <<>>
  BY <1>1 DEF IsASeq
<1>6. QED BY <1>1, <1>2, <1>3, <1>4, <1>5

\* The child layers are the others.
LEMMA ChildLayersAre ==
  ASSUME NEW c, GraphTyped(c), Len(c.layers) # 0
  PROVE  /\ DOMAIN ChildLayers(c) = 1..(Len(c.layers) - 1)
         /\ \A j \in 1..(Len(c.layers) - 1) :
              ChildLayers(c)[j] = c.layers[j + 1] /\ j + 1 \in 2..Len(c.layers)
<1>1. IsASeq(c.layers) /\ Len(c.layers) \in Nat
  BY LayersTyped
<1>2. IsASeq(ChildLayers(c)) /\ Len(ChildLayers(c)) = Len(c.layers) - 1
      /\ \A j \in 1..(Len(c.layers) - 1) : ChildLayers(c)[j] = c.layers[j + 1]
  BY <1>1, TailFacts DEF ChildLayers
<1>3. DOMAIN ChildLayers(c) = 1..Len(ChildLayers(c))
  BY <1>2, IsASeqOver
<1>4. \A j \in 1..(Len(c.layers) - 1) : j + 1 \in 2..Len(c.layers)
  BY <1>1
<1>5. QED BY <1>2, <1>3, <1>4

\* A layer that names steps ends in one.
LEMMA PostIsAStep ==
  ASSUME NEW c, NEW l, LayerTyped(l), LayerNamesSteps(c, l)
  PROVE  PostOf(l) \in StepIds(c)
<1>1. IsASeq(l.steps) /\ Len(l.steps) \in Nat /\ DOMAIN l.steps = 1..Len(l.steps)
  BY IsASeqOver DEF LayerTyped
<1>2. Len(l.steps) # 0
  <2>1. Len(l.steps) = 0 => l.steps = <<>>
    BY <1>1 DEF IsASeq
  <2>2. QED BY <2>1 DEF LayerNamesSteps
<1>3. Len(l.steps) \in DOMAIN l.steps
  BY <1>1, <1>2
<1>4. QED BY <1>3 DEF LayerNamesSteps, StepsExist, PostOf

\* A reader's branch has steps.
LEMMA ReaderLength ==
  ASSUME NEW c, NEW br, IsASeq(br), Kinds(c, br) \in ReaderKinds
  PROVE  Len(br) # 0
BY KindsAre

\* What IsTree says of a child, with its line spelt out.
OnTree(c, t, l) ==
  LET line == Line(c, PostOf(l))
      br == SubSeq(line, Len(t) + 1, Len(line))
  IN  /\ IsPrefix(t, line)
      /\ Kinds(c, br) \in ReaderKinds
      /\ l.steps \in {br, SubSeq(br, Len(br) - 1, Len(br))}
      /\ StepAt(c, PostOf(l)).family \in ReadFamilies

\* A layer hangs on the detector's line exactly when some branch is its steps, in the terms
\* Validate tests.
LEMMA OnTreeIff ==
  ASSUME NEW c, GraphTyped(c), WiresExist(c), NEW t, Rooted(c, t), t[Len(t)] = DetectorPost(c),
         NEW l, LayerTyped(l), LayerNamesSteps(c, l)
  PROVE  OnTree(c, t, l) <=> \E br : Branching(c, l, br)
<1>1. ASSUME OnTree(c, t, l) PROVE \E br : Branching(c, l, br)
  <2> DEFINE line == Line(c, PostOf(l))
             br == SubSeq(line, Len(t) + 1, Len(line))
  <2>1. /\ IsPrefix(t, line) /\ Kinds(c, br) \in ReaderKinds
        /\ l.steps \in {br, SubSeq(br, Len(br) - 1, Len(br))}
        /\ StepAt(c, PostOf(l)).family \in ReadFamilies
    BY <1>1, Zenon DEF OnTree
  <2>2. br = SubSeq(line, Len(t) + 1, Len(line))
    OBVIOUS
  <2>3. Len(t) \in Nat \ {0}
    BY DEF Rooted, Chain, IsASeq
  <2> HIDE DEF br
  <2>4. Rooted(c, line) /\ line[Len(line)] = PostOf(l)
    <3>1. PostOf(l) \in StepIds(c)
      BY PostIsAStep
    <3> HIDE DEF line
    <3>2. line # <<>>
      BY <2>1, <2>3 DEF IsPrefix
    <3>3. QED BY <3>1, <3>2, LineSound, Zenon DEF line
  <2> HIDE DEF line
  <2>5. IsASeq(line) /\ Len(line) \in Nat
    BY <2>4 DEF Rooted, Chain, IsASeq
  <2>6. IsASeq(br)
    <3>1. Len(t) + 1 \in Nat \ {0} /\ Len(line) <= Len(line)
      BY <2>3, <2>5
    <3>2. IsASeq(SubSeq(line, Len(t) + 1, Len(line)))
      BY <2>5, <3>1, CutFacts, Zenon
    <3>3. QED BY <2>2, <3>2, Zenon
  <2>7. Len(br) # 0
    BY <2>1, <2>6, ReaderLength, Zenon
  <2>8. Splits(t, br, line)
    BY <2>1, <2>2, Zenon DEF Splits
  <2>9. Grows(c, t, br, line)
    BY <2>4, <2>7, <2>8, Branches, Zenon
  <2>10. Branching(c, l, br)
    BY <2>1, <2>4, <2>9, Zenon DEF Branching, Grows
  <2>11. QED BY <2>10, Zenon
<1>2. ASSUME NEW br, Branching(c, l, br) PROVE OnTree(c, t, l)
  <2> DEFINE line == t \o br
  <2>1. Chain(c, br) /\ StepAt(c, br[1]).input = t[Len(t)] /\ br[Len(br)] = PostOf(l)
    BY <1>2, Zenon DEF Branching
  <2>2. /\ Rooted(c, line) /\ line[Len(line)] = PostOf(l)
        /\ IsPrefix(t, line) /\ SubSeq(line, Len(t) + 1, Len(line)) = br
    <3>1. Rooted(c, line) /\ Grows(c, t, br, line) /\ Splits(t, br, line)
      BY <2>1, Continued, Zenon
    <3> HIDE DEF line
    <3>2. QED BY <2>1, <3>1, Zenon DEF Grows, Splits
  <2> HIDE DEF line
  <2>3. Line(c, line[Len(line)]) = line
    BY <2>2, LineIs, Zenon
  <2>4. Line(c, PostOf(l)) = line
    BY <2>2, <2>3, Zenon
  <2>5. QED BY <1>2, <2>2, <2>4, Zenon DEF OnTree, Branching
<1>3. QED BY <1>1, <1>2, Zenon

\* The tree the property speaks of is the shape Validate tests, layer by layer.
LEMMA TreeShapeIff ==
  ASSUME NEW c, GraphTyped(c), WiresExist(c)
  PROVE  IsTree(c) <=> TreeShape(c)
<1> DEFINE l1 == c.layers[1]
           trunk == Line(c, PostOf(l1))
           n == Len(c.layers)
<1>1. n \in Nat /\ DOMAIN c.layers = 1..n /\ (c.layers = <<>> <=> n = 0)
      /\ \A j \in 1..n : LayerTyped(c.layers[j])
  BY LayersTyped
<1>2. IsTree(c) <=>
        /\ c.layers # <<>>
        /\ \A j \in DOMAIN c.layers : LayerNamesSteps(c, c.layers[j])
        /\ l1.steps = trunk /\ StepAt(c, Head(trunk)).input = -1
        /\ Kinds(c, trunk) \in DetectorKinds /\ StepAt(c, PostOf(l1)).family \in DetectFamilies
        /\ \A j \in DOMAIN ChildLayers(c) : OnTree(c, trunk, ChildLayers(c)[j])
  BY Zenon DEF IsTree, OnTree
<1>3. n # 0 => 1 \in 1..n
  BY <1>1
<1> HIDE DEF n
<1>4. ASSUME n # 0, LayerNamesSteps(c, l1)
      PROVE  /\ Trunk(c, l1) <=>
                  /\ l1.steps = trunk /\ StepAt(c, Head(trunk)).input = -1
                  /\ Kinds(c, trunk) \in DetectorKinds
                  /\ StepAt(c, PostOf(l1)).family \in DetectFamilies
             /\ Trunk(c, l1) => Rooted(c, trunk) /\ trunk[Len(trunk)] = DetectorPost(c)
  <2>1. PostOf(l1) \in StepIds(c)
    BY <1>1, <1>3, <1>4, PostIsAStep
  <2>2. PostOf(l1) = l1.steps[Len(l1.steps)] /\ DetectorPost(c) = PostOf(l1)
    BY DEF PostOf, DetectorPost
  <2>3. ASSUME Rooted(c, l1.steps) PROVE l1.steps = trunk
    <3>1. Line(c, l1.steps[Len(l1.steps)]) = l1.steps
      BY <2>3, LineIs, Zenon
    <3>2. QED BY <2>2, <3>1
  <2>4. ASSUME l1.steps = trunk PROVE Rooted(c, trunk) /\ Head(trunk) = trunk[1]
    <3>1. trunk # <<>>
      BY <1>4, <2>4, Zenon DEF LayerNamesSteps
    <3>2. Rooted(c, trunk)
      BY <2>1, <3>1, LineSound, Zenon
    <3>3. IsASeq(trunk) /\ Len(trunk) # 0
      BY <3>2, Zenon DEF Rooted, Chain
    <3>4. QED BY <3>2, <3>3, HeadIs, Zenon
  <2> HIDE DEF trunk, l1
  <2>5. QED BY <1>4, <2>2, <2>3, <2>4, Zenon DEF Trunk
<1>5. n # 0 => /\ DOMAIN ChildLayers(c) = 1..(n - 1)
               /\ \A j \in 1..(n - 1) : ChildLayers(c)[j] = c.layers[j + 1] /\ j + 1 \in 2..n
  BY ChildLayersAre DEF n
<1>6. \A j \in 2..n : j \in 1..n /\ j - 1 \in 1..(n - 1) /\ (j - 1) + 1 = j
  BY <1>1
<1>7. ASSUME n # 0, \A j \in DOMAIN c.layers : LayerNamesSteps(c, c.layers[j]), Trunk(c, l1)
      PROVE  (\A j \in DOMAIN ChildLayers(c) : OnTree(c, trunk, ChildLayers(c)[j])) <=>
             (\A j \in 2..n : \E br : Branching(c, c.layers[j], br))
  <2>1. Rooted(c, trunk) /\ trunk[Len(trunk)] = DetectorPost(c)
    BY <1>1, <1>3, <1>4, <1>7, Zenon
  <2> HIDE DEF trunk, l1
  <2>2. \A j \in 2..n : OnTree(c, trunk, c.layers[j]) <=> \E br : Branching(c, c.layers[j], br)
    <3> TAKE j \in 2..n
    <3>1. LayerTyped(c.layers[j]) /\ LayerNamesSteps(c, c.layers[j])
      BY <1>1, <1>6, <1>7, Zenon
    <3>2. QED BY <2>1, <3>1, OnTreeIff, Zenon
  <2>3. (\A j \in DOMAIN ChildLayers(c) : OnTree(c, trunk, ChildLayers(c)[j])) <=>
        (\A j \in 2..n : OnTree(c, trunk, c.layers[j]))
    <3>1. ASSUME \A j \in DOMAIN ChildLayers(c) : OnTree(c, trunk, ChildLayers(c)[j]), NEW j \in 2..n
          PROVE  OnTree(c, trunk, c.layers[j])
      <4>1. OnTree(c, trunk, ChildLayers(c)[j - 1]) /\ ChildLayers(c)[j - 1] = c.layers[(j - 1) + 1]
        BY <1>5, <1>6, <1>7, <3>1, Zenon
      <4>2. QED BY <1>6, <4>1, Zenon
    <3>2. ASSUME \A j \in 2..n : OnTree(c, trunk, c.layers[j]), NEW j \in DOMAIN ChildLayers(c)
          PROVE  OnTree(c, trunk, ChildLayers(c)[j])
      BY <1>5, <1>7, <3>2, Zenon
    <3>3. QED BY <3>1, <3>2, Zenon
  <2>4. QED BY <2>2, <2>3, Zenon
<1>8. TreeShape(c) => \A j \in DOMAIN c.layers : LayerNamesSteps(c, c.layers[j])
  <2>1. \A j \in 1..n : j = 1 \/ j \in 2..n
    BY <1>1
  <2>2. QED BY <1>1, <2>1, Zenon DEF TreeShape, Trunk, n
<1>9. ASSUME IsTree(c) PROVE TreeShape(c)
  <2>1. n # 0 /\ (\A j \in DOMAIN c.layers : LayerNamesSteps(c, c.layers[j])) /\ LayerNamesSteps(c, l1)
    BY <1>1, <1>2, <1>3, <1>9, Zenon
  <2>2. Trunk(c, l1)
    BY <1>2, <1>4, <1>9, <2>1, Zenon
  <2>3. \A j \in 2..n : \E br : Branching(c, c.layers[j], br)
    BY <1>2, <1>7, <1>9, <2>1, <2>2, Zenon
  <2>4. \A j \in 2..n : LayerNamesSteps(c, c.layers[j])
    BY <1>1, <1>6, <2>1, Zenon
  <2>5. QED BY <2>1, <2>2, <2>3, <2>4, Zenon DEF TreeShape, n
<1>10. ASSUME TreeShape(c) PROVE IsTree(c)
  <2>1. n # 0 /\ Trunk(c, l1) /\ \A j \in 2..n : \E br : Branching(c, c.layers[j], br)
    BY <1>10, Zenon DEF TreeShape, n
  <2>2. (\A j \in DOMAIN c.layers : LayerNamesSteps(c, c.layers[j])) /\ LayerNamesSteps(c, l1)
    BY <1>8, <1>10, <2>1, Zenon DEF Trunk
  <2>3. \A j \in DOMAIN ChildLayers(c) : OnTree(c, trunk, ChildLayers(c)[j])
    BY <1>7, <2>1, <2>2, Zenon
  <2>4. QED BY <1>1, <1>2, <1>4, <2>1, <2>2, <2>3, Zenon
<1>11. QED BY <1>9, <1>10, Zenon

\* What Validate accepts and refuses, for every graph an application can pass.
LEMMA AcceptedIffTreeOf ==
  ASSUME NEW c, GraphTyped(c), WiresExist(c), Verdict(c) \in {"ok", "graph", "chained"}
  PROVE  Verdict(c) = "ok" <=> IsTree(c)
<1> DEFINE n == Len(c.layers)
           children == ChildLayers(c)
           bad == {j \in DOMAIN children : ChildVerdict(c, children[j]) # "ok"}
           first == CHOOSE j \in bad : \A i \in bad : j <= i
<1>1. n \in Nat /\ DOMAIN c.layers = 1..n /\ (c.layers = <<>> <=> n = 0)
      /\ \A j \in 1..n : LayerTyped(c.layers[j])
  BY LayersTyped
<1>2. SUFFICES Verdict(c) = "ok" <=> TreeShape(c)
  BY TreeShapeIff, Zenon
<1>3. CASE n = 0
  BY <1>1, <1>3 DEF Verdict, TreeShape
<1>4. CASE n # 0
  <2>1. LayerTyped(c.layers[1])
    BY <1>1, <1>4
  <2>2. DetectorOk(c, c.layers[1]) <=> Trunk(c, c.layers[1])
    BY <2>1, DetectorIsTrunk, Zenon
  <2>3. StreamsOk(c) /\ ~(c.ring_depth < 2)
    <3>1. ~StreamsOk(c) => Verdict(c) = "stream"
      BY Zenon DEF Verdict
    <3>2. StreamsOk(c) /\ c.ring_depth < 2 => Verdict(c) = "ring_depth"
      BY <1>1, <1>4, Zenon DEF Verdict
    <3>3. QED BY <3>1, <3>2
  <2>4. CASE ~DetectorOk(c, c.layers[1])
    <3>1. Verdict(c) # "ok"
      BY <2>3, <2>4, Zenon DEF Verdict
    <3>2. QED BY <2>2, <2>4, <3>1, Zenon DEF TreeShape
  <2>5. CASE DetectorOk(c, c.layers[1])
    <3>1. SahiOk(c)
      <4>1. ~SahiOk(c) => Verdict(c) = "sahi"
        BY <1>1, <1>4, <2>3, <2>5, Zenon DEF Verdict
      <4>2. QED BY <4>1
    <3>2. Verdict(c) = IF bad # {} THEN ChildVerdict(c, children[first])
                       ELSE IF \A j \in DOMAIN c.sinks : SinkOk(c, c.sinks[j]) THEN "ok" ELSE "sink"
      BY <1>1, <1>4, <2>3, <2>5, <3>1, Zenon DEF Verdict
    <3>3. DOMAIN children = 1..(n - 1)
          /\ \A j \in 1..(n - 1) : children[j] = c.layers[j + 1] /\ j + 1 \in 2..n
      BY <1>4, ChildLayersAre
    <3>4. Rooted(c, c.layers[1].steps) /\ DetectorPost(c) \in Nat
      <4>1. Trunk(c, c.layers[1])
        BY <2>2, <2>5, Zenon
      <4>2. DetectorPost(c) \in StepIds(c)
        BY <2>1, <4>1, PostIsAStep, Zenon DEF Trunk, DetectorPost
      <4>3. QED BY <4>1, <4>2, StepFacts DEF Trunk
    <3>5. ASSUME NEW j \in 2..n
          PROVE  /\ ChildOk(c, c.layers[j]) => /\ LayerNamesSteps(c, c.layers[j])
                                               /\ \E br : Branching(c, c.layers[j], br)
                 /\ (LayerNamesSteps(c, c.layers[j]) /\ \E br : Branching(c, c.layers[j], br))
                       => ChildOk(c, c.layers[j])
      <4>1. LayerTyped(c.layers[j])
        BY <1>1
      <4> DEFINE l == c.layers[j]
      <4> HIDE DEF l
      <4>2. LayerTyped(l)
        BY <4>1 DEF l
      <4>3. ASSUME ChildOk(c, l) PROVE LayerNamesSteps(c, l) /\ \E br : Branching(c, l, br)
        <5>1. \E br : Branching(c, l, br)
          BY <4>2, <4>3, ChildBranches, Zenon
        <5>2. l.steps # <<>>
          BY <4>3 DEF ChildOk
        <5>3. QED BY <4>3, <5>1, <5>2 DEF LayerNamesSteps, ChildOk
      <4>4. ASSUME LayerNamesSteps(c, l), NEW br, Branching(c, l, br) PROVE ChildOk(c, l)
        BY <3>4, <4>2, <4>4, BranchIsOk, Zenon DEF LayerNamesSteps
      <4>5. QED BY <4>3, <4>4, Zenon DEF l
    <3>6. CASE bad = {}
      <4>1. Verdict(c) = "ok"
        BY <3>2, <3>6, Zenon
      <4>2. ASSUME NEW j \in 2..n PROVE ChildOk(c, c.layers[j])
        <5>1. j - 1 \in 1..(n - 1) /\ (j - 1) + 1 = j
          BY <1>1
        <5>2. children[j - 1] = c.layers[j] /\ ChildVerdict(c, children[j - 1]) = "ok"
          BY <3>3, <3>6, <5>1
        <5>3. QED BY <5>2, ChildVerdicts
      <4>3. QED BY <1>4, <2>2, <2>5, <3>5, <4>1, <4>2, Zenon DEF TreeShape
    <3>7. CASE bad # {}
      <4>1. \E j \in bad : \A i \in bad : j <= i
        <5>1. bad \subseteq 1..(n - 1) /\ n - 1 \in Nat
          BY <1>1, <1>4, <3>3
        <5> HIDE DEF bad
        <5>2. QED BY <3>7, <5>1, EarliestOf, Zenon
      <4>2. first \in bad
        <5> HIDE DEF bad
        <5>1. QED BY <4>1, Zenon
      <4> HIDE DEF first
      <4>3. Verdict(c) = ChildVerdict(c, children[first])
        BY <3>2, <3>7, Zenon DEF first
      <4>4. children[first] = c.layers[first + 1] /\ first + 1 \in 2..n /\ Verdict(c) # "ok"
        BY <3>3, <4>2, <4>3
      <4> DEFINE l == c.layers[first + 1]
      <4>5. ~l.sahi /\ ~ChildOk(c, l)
        <5>1. l.sahi => Verdict(c) = "sahi"
          BY <4>3, <4>4, ChildVerdicts
        <5>2. ~l.sahi
          BY <5>1
        <5>3. QED BY <4>3, <4>4, <5>2, ChildVerdicts
      <4>6. ~TreeShape(c)
        BY <3>5, <4>4, <4>5, Zenon DEF TreeShape
      <4>7. QED BY <4>4, <4>6, Zenon
    <3>8. QED BY <3>6, <3>7, Zenon
  <2>6. QED BY <2>4, <2>5
<1>5. QED BY <1>3, <1>4

-----------------------------------------------------------------------------
(* The invariant *)

\* The layout of a child's rows: chunk j holds those behind Behind(j).
Behind(j) == (j - 1) * ReadBatch
RowsIn(T, j) == Smaller(T - Behind(j), ReadBatch)
ChunksOf(T) == (T + ReadBatch - 1) \div ReadBatch
OpsOf(base, T, j) == ChunkOps(base + Behind(j), RowsIn(T, j), Behind(j))

\* What child c's engine is to say of the p-th crop routed to it.
RowsWanted(c) ==
  [p \in DOMAIN CropsOf(c) |->
     [engine |-> Child(c).engine, slot |-> CropsOf(c)[p].slot, take |-> takes,
      rect |-> CropsOf(c)[p].rect]]

\* The operations left on a stream, of those queued for T crops after `base`, when the
\* q-th operation of chunk i is the one at 3 * i + q: those from p on.
OpsFrom(st, base, T, p) ==
  /\ IsASeq(st) /\ Len(st) = (3 * (ChunksOf(T) + 1) + 1) - p
  /\ \A i \in 1..ChunksOf(T) : \A q \in 1..3 :
       3 * i + q >= p => st[((3 * i + q) - p) + 1] = OpsOf(base, T, i)[q]

\* They are those from operation r of chunk j on; what the earlier ones did is there: the
\* rows of the chunks before on the host, the crops and the rows of this one on the device.
LeftFrom(st, dc, ou, ho, crops, rows, base, T, j, r) ==
  /\ j = ChunksOf(T) + 1 => r = 1
  /\ OpsFrom(st, base, T, 3 * j + r)
  /\ \A i \in 1..T : i <= Behind(j) => ho[i] = rows[base + i]
  /\ r >= 2 => \A i \in 1..RowsIn(T, j) : dc[i] = crops[(base + Behind(j)) + i]
  /\ r = 3 => \A i \in 1..RowsIn(T, j) : ou[i] = rows[(base + Behind(j)) + i]

Queued(st, dc, ou, ho, crops, rows, base, T) ==
  \E j \in 1..(ChunksOf(T) + 1) : \E r \in 1..3 :
    LeftFrom(st, dc, ou, ho, crops, rows, base, T, j, r)

\* What the first D rows say of detection k of slot s, if there is one of it among them.
FilledAt(v, crops, rows, D, s, k) ==
  /\ \A p \in 1..D : crops[p].slot = s /\ crops[p].det = k => v = rows[p]
  /\ (\A p \in 1..D : ~(crops[p].slot = s /\ crops[p].det = k)) => v = None

\* A child's outputs once the first D of its rows are decoded.
Filled(o, crops, rows, D) ==
  \A s \in DOMAIN o : \A k \in DOMAIN o[s] : FilledAt(o[s][k], crops, rows, D, s, k)

AtChildren == pc \in {"enqueue", "join", "serial", "serialWait"}

\* What was queued for child c, if anything is.
OnStream(c) ==
  \/ pc = "enqueue" /\ c < ci
  \/ pc = "join" /\ c >= ci
  \/ pc = "serialWait" /\ c = ci

FirstRow == IF pc = "serialWait" THEN off ELSE 0
RowsDue(c) == IF pc = "serialWait" THEN Chunk(Len(Pass(c)), ReadBatch) ELSE Len(Pass(c))

\* How many of its rows were decoded.
RowsDecoded(c) ==
  IF pc = "results" \/ (pc \in {"join", "serial", "serialWait"} /\ c < ci) THEN Len(Pass(c))
  ELSE IF pc \in {"serial", "serialWait"} /\ c = ci THEN off ELSE 0

ConfigInv ==
  /\ cfg \in Configs /\ verdict = Verdict(cfg)
  /\ pc \in {"rejected", "take", "tiles", "crops", "results"} \/ AtChildren
  /\ pc # "rejected" => verdict = "ok"

BatchInv ==
  /\ \E n \in 0..MaxSlots : batch \in [1..n -> [scene : Scenes, live : BOOLEAN]]
  /\ DOMAIN ring = 1..MaxSlots
  /\ pc \notin {"take", "rejected"} =>
       /\ \A s \in Slots : batch[s].live => ring[s] = takes
       /\ DOMAIN kept = Slots /\ \A s \in Slots : IsASeq(kept[s])

TilesInv ==
  pc = "tiles" =>
    /\ IsASeq(todo) /\ Len(todo) # 0
    /\ \A g \in 1..Len(todo) : IsASeq(todo[g]) /\ \A i \in 1..Len(todo[g]) : todo[g][i] \in Slots
    /\ DOMAIN merge = Slots /\ \A s \in Slots : IsASeq(merge[s])

PlaceInv ==
  /\ off \in Nat
  /\ AtChildren => ci \in Children
  /\ pc = "serial" => off <= Len(Pass(ci))
  /\ pc = "serialWait" => off < Len(Pass(ci))

BuffersInv ==
  /\ DOMAIN stream = ChildIds /\ DOMAIN d_crops = ChildIds
  /\ DOMAIN output = ChildIds /\ DOMAIN host = ChildIds
  /\ \A c \in ChildIds : /\ DOMAIN d_crops[c] = ReadSlots /\ DOMAIN output[c] = ReadSlots
                         /\ IsASeq(host[c]) /\ ReadBatch <= Len(host[c])

\* Nothing is on a child's stream but what is left of its chunk, or chunks.
StreamRight(c) ==
  IF OnStream(c)
  THEN /\ RowsDue(c) <= Len(host[c])
       /\ Queued(stream[c], d_crops[c], output[c], host[c], CropsOf(c), RowsWanted(c),
                 FirstRow, RowsDue(c))
  ELSE stream[c] = <<>>

StreamsInv == \A c \in ChildIds : StreamRight(c)

\* A child's outputs hold the rows decoded so far, each at its detection.
OutRight(c) ==
  /\ DOMAIN out[c] = Slots /\ \A s \in Slots : DOMAIN out[c][s] = DOMAIN kept[s]
  /\ Filled(out[c], CropsOf(c), RowsWanted(c), RowsDecoded(c))

OutInv ==
  pc = "results" \/ AtChildren => DOMAIN out = Children /\ \A c \in Children : OutRight(c)

CascadeInv ==
  ConfigInv /\ BatchInv /\ TilesInv /\ PlaceInv /\ BuffersInv /\ StreamsInv /\ OutInv

-----------------------------------------------------------------------------
(* A stream's chunks *)

\* Each chunk starts ReadBatch rows after the one before.
LEMMA BehindFacts ==
  ASSUME NEW j \in Nat \ {0}
  PROVE  /\ Behind(j) \in Nat /\ Behind(j + 1) = Behind(j) + ReadBatch /\ Behind(1) = 0
<1>1. ReadBatch \in Nat
  BY CascadeAssumption
<1>2. j - 1 \in Nat /\ (j + 1) - 1 = j /\ 1 - 1 = 0
  OBVIOUS
<1>3. (j - 1) * ReadBatch \in Nat
  BY <1>1, <1>2, ProductType
<1>4. j * ReadBatch = (j - 1) * ReadBatch + ReadBatch
  BY <1>1, <1>2
<1>5. 0 * ReadBatch = 0
  BY <1>1
<1>6. QED BY <1>2, <1>3, <1>4, <1>5 DEF Behind

\* The chunks hold all rows.
LEMMA ChunksFacts ==
  ASSUME NEW T \in Nat
  PROVE  /\ ChunksOf(T) \in Nat /\ T <= Behind(ChunksOf(T) + 1)
         /\ T \in 1..ReadBatch => ChunksOf(T) = 1
<1>1. ReadBatch \in Nat \ {0}
  BY CascadeAssumption
<1>2. ChunksOf(T) = CeilDiv(T, ReadBatch)
  BY DEF ChunksOf, CeilDiv
<1>3. ChunksOf(T) \in Nat /\ T <= ReadBatch * ChunksOf(T)
  BY <1>1, <1>2, CeilDivCovers
<1>4. Behind(ChunksOf(T) + 1) = ReadBatch * ChunksOf(T)
  <2>1. \A n \in Nat : ((n + 1) - 1) * ReadBatch = ReadBatch * n
    BY <1>1
  <2>2. QED BY <1>3, <2>1 DEF Behind
<1>5. ASSUME T \in 1..ReadBatch PROVE ChunksOf(T) = 1
  <2>1. (T + ReadBatch) - 1 >= ReadBatch /\ (T + ReadBatch) - 1 < 2 * ReadBatch
    BY <1>1, <1>5
  <2>2. \A n \in Nat : n >= ReadBatch /\ n < 2 * ReadBatch => n \div ReadBatch = 1
    BY <1>1
  <2>3. QED BY <1>1, <2>1, <2>2 DEF ChunksOf
<1>6. QED BY <1>3, <1>4, <1>5

\* Three operations to a chunk, in this order.
LEMMA OpsAre ==
  ASSUME NEW base, NEW T, NEW j
  PROVE  /\ OpsOf(base, T, j)[1] = Op("upload", base + Behind(j), RowsIn(T, j), Behind(j))
         /\ OpsOf(base, T, j)[2] = Op("infer", base + Behind(j), RowsIn(T, j), Behind(j))
         /\ OpsOf(base, T, j)[3] = Op("fetch", base + Behind(j), RowsIn(T, j), Behind(j))
BY DEF OpsOf, ChunkOps

\* The rows of a chunk, on the device and on the host.
LEMMA RowsInFacts ==
  ASSUME NEW T \in Nat, NEW j \in Nat \ {0}
  PROVE  /\ RowsIn(T, j) \in Int /\ RowsIn(T, j) <= ReadBatch /\ Behind(j) + RowsIn(T, j) <= T
         /\ \A i \in 1..T : i <= Behind(j + 1) => i <= Behind(j) \/ i - Behind(j) \in 1..RowsIn(T, j)
<1>1. ReadBatch \in Nat /\ Behind(j) \in Nat /\ Behind(j + 1) = Behind(j) + ReadBatch
  BY CascadeAssumption, BehindFacts
<1>2. RowsIn(T, j) = IF T - Behind(j) <= ReadBatch THEN T - Behind(j) ELSE ReadBatch
  BY DEF RowsIn, Smaller
<1>3. RowsIn(T, j) \in Int /\ RowsIn(T, j) <= ReadBatch /\ Behind(j) + RowsIn(T, j) <= T
  BY <1>1, <1>2
<1>4. ASSUME NEW i \in 1..T, i <= Behind(j + 1), ~(i <= Behind(j))
      PROVE  i - Behind(j) \in 1..RowsIn(T, j)
  BY <1>1, <1>2, <1>4
<1>5. QED BY <1>3, <1>4

\* Which operation is next, and what is left behind it.
LEMMA NextOp ==
  ASSUME NEW st, NEW base, NEW T \in Nat, NEW j \in 1..(ChunksOf(T) + 1), NEW r \in 1..3,
         j = ChunksOf(T) + 1 => r = 1, OpsFrom(st, base, T, 3 * j + r), st # <<>>
  PROVE  /\ j \in 1..ChunksOf(T) /\ Head(st) = OpsOf(base, T, j)[r]
         /\ OpsFrom(Tail(st), base, T, (3 * j + r) + 1)
<1> DEFINE N == ChunksOf(T)
           p == 3 * j + r
<1>1. N \in Nat
  BY ChunksFacts
<1>2. IsASeq(st) /\ Len(st) = (3 * (N + 1) + 1) - p
      /\ \A i \in 1..N : \A q \in 1..3 :
           3 * i + q >= p => st[((3 * i + q) - p) + 1] = OpsOf(base, T, i)[q]
  BY Zenon DEF OpsFrom
<1>3. Len(st) # 0
  <2>1. Len(st) = 0 => st = <<>>
    BY <1>2 DEF IsASeq
  <2>2. QED BY <2>1
<1> HIDE DEF N
<1>4. j \in 1..N
  BY <1>1, <1>2, <1>3 DEF N
<1>5. p \in Nat
  BY <1>4
<1>6. Head(st) = OpsOf(base, T, j)[r]
  <2>1. Head(st) = st[1]
    BY <1>2, <1>3, HeadIs
  <2>2. 3 * j + r >= p /\ ((3 * j + r) - p) + 1 = 1
    BY <1>4
  <2>3. st[((3 * j + r) - p) + 1] = OpsOf(base, T, j)[r]
    BY <1>2, <1>4, <2>2
  <2>4. QED BY <2>1, <2>2, <2>3
<1>7. IsASeq(Tail(st)) /\ Len(Tail(st)) = Len(st) - 1
      /\ \A i \in 1..(Len(st) - 1) : Tail(st)[i] = st[i + 1]
  BY <1>2, <1>3, TailFacts
<1> HIDE DEF p
<1>8. Len(Tail(st)) = (3 * (N + 1) + 1) - (p + 1) /\ Len(st) - 1 = (3 * (N + 1) + 1) - (p + 1)
  BY <1>1, <1>2, <1>5, <1>7
<1>9. ASSUME NEW i \in 1..N, NEW q \in 1..3, 3 * i + q >= p + 1
      PROVE  Tail(st)[((3 * i + q) - (p + 1)) + 1] = OpsOf(base, T, i)[q]
  <2> DEFINE k == ((3 * i + q) - (p + 1)) + 1
  <2>1. k \in 1..(Len(st) - 1) /\ 3 * i + q >= p /\ k + 1 = ((3 * i + q) - p) + 1
    BY <1>1, <1>5, <1>8, <1>9
  <2>2. st[k + 1] = OpsOf(base, T, i)[q]
    BY <1>2, <2>1
  <2> HIDE DEF k
  <2>3. Tail(st)[k] = st[k + 1]
    BY <1>7, <2>1
  <2>4. QED BY <2>2, <2>3 DEF k
<1>10. OpsFrom(Tail(st), base, T, p + 1)
  BY <1>7, <1>8, <1>9, Zenon DEF OpsFrom, N
<1>11. QED BY <1>4, <1>6, <1>10 DEF N, p

\* The upload of chunk j done.
LEMMA Uploaded ==
  ASSUME NEW st, NEW dc, NEW ou, NEW ho, NEW crops, NEW rows, NEW base, NEW T \in Nat,
         NEW j \in 1..(ChunksOf(T) + 1), st # <<>>,
         LeftFrom(st, dc, ou, ho, crops, rows, base, T, j, 1),
         NEW dc2, \A i \in 1..RowsIn(T, j) : dc2[i] = crops[(base + Behind(j)) + i]
  PROVE  LeftFrom(Tail(st), dc2, ou, ho, crops, rows, base, T, j, 2)
<1>1. j \in 1..ChunksOf(T) /\ OpsFrom(Tail(st), base, T, (3 * j + 1) + 1)
  <2>1. (j = ChunksOf(T) + 1 => 1 = 1) /\ OpsFrom(st, base, T, 3 * j + 1)
    BY Zenon DEF LeftFrom
  <2>2. 1 \in 1..3
    OBVIOUS
  <2>3. QED BY <2>1, <2>2, NextOp, Zenon
<1>2. ChunksOf(T) \in Nat /\ j \in Nat \ {0}
  BY <1>1, ChunksFacts
<1>3. OpsFrom(Tail(st), base, T, 3 * j + 2)
  <2>1. (3 * j + 1) + 1 = 3 * j + 2
    BY <1>2
  <2>2. QED BY <1>1, <2>1, Zenon
<1>4. \A i \in 1..T : i <= Behind(j) => ho[i] = rows[base + i]
  BY Zenon DEF LeftFrom
<1>5. j # ChunksOf(T) + 1 /\ 2 # 3
  BY <1>1, <1>2
<1>6. QED BY <1>1, <1>3, <1>4, <1>5, Zenon DEF LeftFrom

\* Its rows inferred.
LEMMA Inferred ==
  ASSUME NEW st, NEW dc, NEW ou, NEW ho, NEW crops, NEW rows, NEW base, NEW T \in Nat,
         NEW j \in 1..(ChunksOf(T) + 1), st # <<>>,
         LeftFrom(st, dc, ou, ho, crops, rows, base, T, j, 2),
         NEW ou2, \A i \in 1..RowsIn(T, j) : ou2[i] = rows[(base + Behind(j)) + i]
  PROVE  LeftFrom(Tail(st), dc, ou2, ho, crops, rows, base, T, j, 3)
<1>1. j \in 1..ChunksOf(T) /\ OpsFrom(Tail(st), base, T, (3 * j + 2) + 1)
  <2>1. (j = ChunksOf(T) + 1 => 2 = 1) /\ OpsFrom(st, base, T, 3 * j + 2)
    BY Zenon DEF LeftFrom
  <2>2. 2 \in 1..3
    OBVIOUS
  <2>3. QED BY <2>1, <2>2, NextOp, Zenon
<1>2. ChunksOf(T) \in Nat /\ j \in Nat \ {0}
  BY <1>1, ChunksFacts
<1>3. OpsFrom(Tail(st), base, T, 3 * j + 3)
  <2>1. (3 * j + 2) + 1 = 3 * j + 3
    BY <1>2
  <2>2. QED BY <1>1, <2>1, Zenon
<1>4. /\ \A i \in 1..T : i <= Behind(j) => ho[i] = rows[base + i]
      /\ \A i \in 1..RowsIn(T, j) : dc[i] = crops[(base + Behind(j)) + i]
  <2>1. 2 >= 2
    OBVIOUS
  <2>2. QED BY <2>1, Zenon DEF LeftFrom
<1>5. j # ChunksOf(T) + 1
  BY <1>1, <1>2
<1>6. QED BY <1>1, <1>3, <1>4, <1>5, Zenon DEF LeftFrom

\* Its rows fetched: the next chunk's turn.
LEMMA Fetched ==
  ASSUME NEW st, NEW dc, NEW ou, NEW ho, NEW crops, NEW rows, NEW base \in Nat, NEW T \in Nat,
         NEW j \in 1..(ChunksOf(T) + 1), st # <<>>,
         LeftFrom(st, dc, ou, ho, crops, rows, base, T, j, 3),
         NEW ho2, \A i \in 1..T : i <= Behind(j) => ho2[i] = ho[i],
         \A i \in 1..RowsIn(T, j) : ho2[Behind(j) + i] = ou[i]
  PROVE  LeftFrom(Tail(st), dc, ou, ho2, crops, rows, base, T, j + 1, 1)
<1>1. j \in 1..ChunksOf(T) /\ OpsFrom(Tail(st), base, T, (3 * j + 3) + 1)
  <2>1. (j = ChunksOf(T) + 1 => 3 = 1) /\ OpsFrom(st, base, T, 3 * j + 3)
    BY Zenon DEF LeftFrom
  <2>2. 3 \in 1..3
    OBVIOUS
  <2>3. QED BY <2>1, <2>2, NextOp, Zenon
<1>2. ChunksOf(T) \in Nat /\ j \in Nat \ {0}
  BY <1>1, ChunksFacts
<1>3. OpsFrom(Tail(st), base, T, 3 * (j + 1) + 1)
  <2>1. (3 * j + 3) + 1 = 3 * (j + 1) + 1
    BY <1>2
  <2>2. QED BY <1>1, <2>1, Zenon
<1>4. ASSUME NEW i \in 1..T, i <= Behind(j + 1) PROVE ho2[i] = rows[base + i]
  <2>1. CASE i <= Behind(j)
    <3>1. ho[i] = rows[base + i]
      BY <2>1, Zenon DEF LeftFrom
    <3>2. QED BY <2>1, <3>1
  <2>2. CASE ~(i <= Behind(j))
    <3> DEFINE k == i - Behind(j)
    <3>1. k \in 1..RowsIn(T, j)
      BY <1>2, <1>4, <2>2, RowsInFacts
    <3>2. Behind(j) \in Nat
      BY <1>2, BehindFacts
    <3>3. Behind(j) + k = i /\ (base + Behind(j)) + k = base + i
      BY <3>2
    <3> HIDE DEF k
    <3>4. ou[k] = rows[(base + Behind(j)) + k]
      <4>1. \A p \in 1..RowsIn(T, j) : ou[p] = rows[(base + Behind(j)) + p]
        BY Zenon DEF LeftFrom
      <4>2. QED BY <3>1, <4>1, Zenon
    <3>5. ho2[Behind(j) + k] = ou[k]
      BY <3>1
    <3>6. QED BY <3>3, <3>4, <3>5
  <2>3. QED BY <2>1, <2>2
<1>5. ~(1 >= 2) /\ 1 # 3
  BY <1>1, <1>2
<1>6. QED BY <1>1, <1>3, <1>4, <1>5, Zenon DEF LeftFrom

\* All done once the stream is empty.
LEMMA AllFetched ==
  ASSUME NEW dc, NEW ou, NEW ho, NEW crops, NEW rows, NEW base, NEW T \in Nat,
         Queued(<<>>, dc, ou, ho, crops, rows, base, T)
  PROVE  \A i \in 1..T : ho[i] = rows[base + i]
<1>1. PICK j \in 1..(ChunksOf(T) + 1), r \in 1..3 :
        LeftFrom(<<>>, dc, ou, ho, crops, rows, base, T, j, r)
  BY Zenon DEF Queued
<1>2. ChunksOf(T) \in Nat /\ T <= Behind(ChunksOf(T) + 1) /\ Behind(ChunksOf(T) + 1) \in Nat
  <2>1. ChunksOf(T) \in Nat /\ T <= Behind(ChunksOf(T) + 1)
    BY ChunksFacts
  <2>2. ChunksOf(T) + 1 \in Nat \ {0}
    BY <2>1
  <2>3. QED BY <2>1, <2>2, BehindFacts
<1>3. Len(<<>>) = (3 * (ChunksOf(T) + 1) + 1) - (3 * j + r) /\ Len(<<>>) = 0
      /\ (j = ChunksOf(T) + 1 => r = 1)
  BY <1>1 DEF LeftFrom, OpsFrom
<1>4. j = ChunksOf(T) + 1
  BY <1>2, <1>3
<1>5. \A i \in 1..T : i <= Behind(j) => ho[i] = rows[base + i]
  BY <1>1, Zenon DEF LeftFrom
<1>6. \A i \in 1..T : i <= Behind(j)
  BY <1>2, <1>4
<1>7. QED BY <1>5, <1>6

\* s is the first m triples, one after the other.
LaidOut(s, ss, m) ==
  /\ IsASeq(s) /\ Len(s) = 3 * m
  /\ \A i \in 1..m : \A q \in 1..3 : s[3 * (i - 1) + q] = ss[i][q]

\* What the flattening of triples holds where.
LEMMA Triples ==
  ASSUME NEW ss, IsASeq(ss), \A i \in 1..Len(ss) : IsASeq(ss[i]) /\ Len(ss[i]) = 3
  PROVE  /\ IsASeq(FlattenSeq(ss)) /\ Len(FlattenSeq(ss)) = 3 * Len(ss)
         /\ \A i \in 1..Len(ss) : \A q \in 1..3 : FlattenSeq(ss)[3 * (i - 1) + q] = ss[i][q]
<1>0. Len(ss) \in Nat
  BY DEF IsASeq
<1>1. CASE Len(ss) = 0
  <2>1. FlattenSeq(ss) = ss
    BY <1>1 DEF FlattenSeq
  <2>2. QED BY <1>1, <2>1
<1>2. CASE Len(ss) # 0
  <2> DEFINE n == Len(ss)
  <2>1. PICK f : Flattening(ss, n, f) /\ FlattenSeq(ss) = f[n]
    BY <1>2, FlatteningExists, Zenon
  <2> DEFINE G == {m \in Nat : m = 0 \/ LaidOut(f[m], ss, m)}
  <2>2. 0 \in G
    OBVIOUS
  <2>3. \A m \in 0..(n - 1) : m \in G => m + 1 \in G
    <3> SUFFICES ASSUME NEW m \in 0..(n - 1), m \in G PROVE m + 1 \in G
      OBVIOUS
    <3>1. m + 1 \in 1..n /\ m \in Nat /\ m + 1 \in Nat /\ (m + 1) - 1 = m /\ (m + 1 = 1 <=> m = 0)
      BY <1>0
    <3> DEFINE t == ss[m + 1]
    <3>2. IsASeq(t) /\ Len(t) = 3
      BY <3>1
    <3>3. f[m + 1] = IF m = 0 THEN t ELSE f[m] \o t
      BY <2>1, <3>1, Zenon DEF Flattening
    <3> HIDE DEF t
    <3>4. CASE m = 0
      <4>1. \A i \in 1..(m + 1) : i = m + 1 /\ \A q \in 1..3 : 3 * (i - 1) + q = q
        BY <3>4
      <4>2. Len(t) = 3 * (m + 1)
        BY <3>2, <3>4
      <4>3. f[m + 1] = t
        BY <3>3, <3>4
      <4>4. LaidOut(t, ss, m + 1)
        BY <3>2, <4>1, <4>2, Zenon DEF t, LaidOut
      <4>5. QED BY <3>1, <4>3, <4>4
    <3>5. CASE m # 0
      <4> DEFINE d == f[m]
                 u == d \o t
      <4>0. LaidOut(f[m], ss, m)
        BY <3>5
      <4>1. /\ IsASeq(d) /\ Len(d) = 3 * m
            /\ \A i \in 1..m : \A q \in 1..3 : d[3 * (i - 1) + q] = ss[i][q]
        BY <4>0, Zenon DEF LaidOut
      <4> HIDE DEF d
      <4>2. /\ IsASeq(u) /\ Len(u) = Len(d) + Len(t)
            /\ \A i \in 1..Len(d) : u[i] = d[i]
            /\ \A i \in 1..Len(t) : u[Len(d) + i] = t[i]
        <5>1. Joined(u, d, t)
          BY <3>2, <4>1, ConcatJoins, Zenon
        <5>2. QED BY <5>1, Zenon DEF Joined
      <4> HIDE DEF u
      <4>3. Len(u) = 3 * (m + 1)
        BY <3>1, <3>2, <4>1, <4>2
      <4>4. ASSUME NEW i \in 1..(m + 1), NEW q \in 1..3 PROVE u[3 * (i - 1) + q] = ss[i][q]
        <5>1. CASE i = m + 1
          <6>1. 3 * (i - 1) + q = Len(d) + q
            BY <3>1, <4>1, <5>1
          <6>2. u[Len(d) + q] = t[q]
            BY <3>2, <4>2
          <6>3. QED BY <5>1, <6>1, <6>2 DEF t
        <5>2. CASE i # m + 1
          <6>1. i \in 1..m /\ 3 * (i - 1) + q \in 1..Len(d)
            BY <3>1, <4>1, <5>2
          <6>2. QED BY <4>1, <4>2, <6>1
        <5>3. QED BY <5>1, <5>2
      <4>5. LaidOut(u, ss, m + 1)
        BY <4>2, <4>3, <4>4, Zenon DEF LaidOut
      <4>6. f[m + 1] = u
        BY <3>3, <3>5 DEF u, d
      <4>7. QED BY <3>1, <4>5, <4>6
    <3>6. QED BY <3>4, <3>5
  <2> HIDE DEF G
  <2>4. n \in G
    <3>1. \A m \in 0..n : m \in G
      BY <1>0, <2>2, <2>3, UpTo, Zenon
    <3>2. QED BY <1>0, <3>1
  <2>5. LaidOut(FlattenSeq(ss), ss, n)
    BY <1>2, <2>1, <2>4 DEF G
  <2>6. QED BY <2>5, Zenon DEF LaidOut
<1>3. QED BY <1>1, <1>2

\* Before the first chunk no row is behind.
LEMMA BehindOne == Behind(1) = 0
  BY BehindFacts

\* A stream on which everything is still to be done.
LEMMA AllQueued ==
  ASSUME NEW st, NEW dc, NEW ou, NEW ho, NEW crops, NEW rows, NEW base, NEW T \in Nat,
         IsASeq(st), Len(st) = 3 * ChunksOf(T),
         \A i \in 1..ChunksOf(T) : \A q \in 1..3 : st[3 * (i - 1) + q] = OpsOf(base, T, i)[q]
  PROVE  Queued(st, dc, ou, ho, crops, rows, base, T)
<1>0. ChunksOf(T) \in Nat
  BY ChunksFacts, Zenon
<1>1. ChunksOf(T) \in Nat /\ Behind(1) = 0
  BY <1>0, BehindOne, Zenon
<1>2. 1 \in 1..(ChunksOf(T) + 1) /\ 1 \in 1..3 /\ ~(1 >= 2) /\ 1 # 3
  BY <1>1
<1>3. 3 * ChunksOf(T) = (3 * (ChunksOf(T) + 1) + 1) - (3 * 1 + 1)
  BY <1>1
<1>4. ASSUME NEW i \in 1..ChunksOf(T), NEW q \in 1..3
      PROVE  st[((3 * i + q) - (3 * 1 + 1)) + 1] = OpsOf(base, T, i)[q]
  <2>1. ((3 * i + q) - (3 * 1 + 1)) + 1 = 3 * (i - 1) + q
    BY <1>1
  <2>2. QED BY <2>1
<1>5. \A i \in 1..T : ~(i <= Behind(1))
  BY <1>1
<1>6. LeftFrom(st, dc, ou, ho, crops, rows, base, T, 1, 1)
  BY <1>2, <1>3, <1>4, <1>5, Zenon DEF LeftFrom, OpsFrom
<1>7. QED BY <1>2, <1>6, Zenon DEF Queued

\* Rows of the same detection say the same.
Agreeing(crops, rows, m) ==
  \A p, q \in 1..m :
    crops[p].slot = crops[q].slot /\ crops[p].det = crops[q].det => rows[p] = rows[q]

\* The n rows after the D-th that are of detection k of slot s.
Hits(crops, D, n, s, k) == {i \in 1..n : crops[D + i].slot = s /\ crops[D + i].det = k}

\* What decoding those n rows, at the front of the host buffer, makes of the value before.
Rewritten(v, ho, crops, D, n, s, k) ==
  IF Hits(crops, D, n, s, k) = {} THEN v ELSE ho[CHOOSE i \in Hits(crops, D, n, s, k) : TRUE]

\* The front of a host buffer has the n rows after the D-th.
Hosts(ho, rows, D, n) == \A i \in 1..n : ho[i] = rows[D + i]

\* Decoding n more rows, of one detection.
LEMMA DecodedOne ==
  ASSUME NEW v, NEW s, NEW k, NEW ho, NEW crops, NEW rows, NEW D \in Nat, NEW n \in Nat,
         FilledAt(v, crops, rows, D, s, k),
         Agreeing(crops, rows, D + n),
         Hosts(ho, rows, D, n)
  PROVE  FilledAt(Rewritten(v, ho, crops, D, n, s, k), crops, rows, D + n, s, k)
<1> DEFINE hits == Hits(crops, D, n, s, k)
           w == Rewritten(v, ho, crops, D, n, s, k)
<1>0. hits = {i \in 1..n : crops[D + i].slot = s /\ crops[D + i].det = k}
      /\ w = IF hits = {} THEN v ELSE ho[CHOOSE i \in hits : TRUE]
  BY DEF Hits, Rewritten
<1> HIDE DEF hits
<1> HIDE DEF w
<1>1. /\ \A p \in 1..D : crops[p].slot = s /\ crops[p].det = k => v = rows[p]
      /\ (\A p \in 1..D : ~(crops[p].slot = s /\ crops[p].det = k)) => v = None
  BY Zenon DEF FilledAt
<1>2. \A p \in 1..(D + n) : p \in 1..D \/ (p - D \in 1..n /\ D + (p - D) = p)
  OBVIOUS
<1>3. (\A p \in 1..D : p \in 1..(D + n)) /\ (\A i \in 1..n : D + i \in 1..(D + n))
  OBVIOUS
<1>4. CASE hits = {}
  <2>1. w = v
    BY <1>0, <1>4, Zenon
  <2>2. ASSUME NEW p \in 1..(D + n), crops[p].slot = s /\ crops[p].det = k PROVE w = rows[p]
    <3>1. p \in 1..D
      <4>1. CASE p - D \in 1..n /\ D + (p - D) = p
        <5>1. p - D \in hits
          BY <1>0, <2>2, <4>1
        <5>2. QED BY <1>4, <5>1
      <4>2. QED BY <1>2, <4>1, Zenon
    <3>2. QED BY <1>1, <2>1, <2>2, <3>1, Zenon
  <2>3. ASSUME \A p \in 1..(D + n) : ~(crops[p].slot = s /\ crops[p].det = k) PROVE w = None
    BY <1>1, <1>3, <2>1, <2>3, Zenon
  <2>4. QED BY <2>2, <2>3, Zenon DEF FilledAt, w
<1>5. CASE hits # {}
  <2> DEFINE j == CHOOSE i \in hits : TRUE
  <2>1. w = ho[j]
    BY <1>0, <1>5, Zenon
  <2>2. j \in hits
    BY <1>5, Zenon
  <2> HIDE DEF j
  <2>3. j \in 1..n /\ crops[D + j].slot = s /\ crops[D + j].det = k /\ D + j \in 1..(D + n)
    BY <1>0, <1>3, <2>2
  <2>4. w = rows[D + j]
    BY <2>1, <2>3 DEF Hosts
  <2>5. ASSUME NEW p \in 1..(D + n), crops[p].slot = s /\ crops[p].det = k PROVE w = rows[p]
    BY <2>3, <2>4, <2>5 DEF Agreeing
  <2>6. ~(\A p \in 1..(D + n) : ~(crops[p].slot = s /\ crops[p].det = k))
    BY <2>3, Zenon
  <2>7. QED BY <2>5, <2>6, Zenon DEF FilledAt, w
<1>6. QED BY <1>4, <1>5, Zenon DEF w

\* o2 is o after that.
Decodes(o2, o, ho, crops, D, n) ==
  /\ DOMAIN o2 = DOMAIN o /\ \A s \in DOMAIN o : DOMAIN o2[s] = DOMAIN o[s]
  /\ \A s \in DOMAIN o : \A k \in DOMAIN o[s] :
       o2[s][k] = Rewritten(o[s][k], ho, crops, D, n, s, k)

\* Of all of them.
LEMMA DecodedMore ==
  ASSUME NEW o, NEW o2, NEW ho, NEW crops, NEW rows, NEW D \in Nat, NEW n \in Nat,
         Filled(o, crops, rows, D), Agreeing(crops, rows, D + n),
         Hosts(ho, rows, D, n),
         Decodes(o2, o, ho, crops, D, n)
  PROVE  Filled(o2, crops, rows, D + n)
<1>0. /\ DOMAIN o2 = DOMAIN o /\ \A s \in DOMAIN o : DOMAIN o2[s] = DOMAIN o[s]
      /\ \A s \in DOMAIN o : \A k \in DOMAIN o[s] :
           o2[s][k] = Rewritten(o[s][k], ho, crops, D, n, s, k)
  BY Zenon DEF Decodes
<1>1. ASSUME NEW s \in DOMAIN o, NEW k \in DOMAIN o[s]
      PROVE  FilledAt(o2[s][k], crops, rows, D + n, s, k)
  <2>1. o2[s][k] = Rewritten(o[s][k], ho, crops, D, n, s, k)
    BY <1>0, Zenon
  <2>2. FilledAt(o[s][k], crops, rows, D, s, k)
    BY Zenon DEF Filled
  <2>3. FilledAt(Rewritten(o[s][k], ho, crops, D, n, s, k), crops, rows, D + n, s, k)
    BY <2>2, DecodedOne
  <2>4. QED BY <2>1, <2>3, Zenon
<1>2. QED BY <1>0, <1>1, Zenon DEF Filled

-----------------------------------------------------------------------------
(* Detections come in sequences *)

\* A finite set as a sequence.
LEMMA SetToSeqIsASeq ==
  ASSUME NEW S, IsFiniteSet(S)
  PROVE  IsASeq(SetToSeq(S))
<1> DEFINE n == Cardinality(S)
<1>1. n \in Nat /\ ExistsBijection(1..n, S)
  BY FS_CardinalityType
<1>2. \E f \in [1..n -> S] : IsInjective(f)
  <2>1. PICK f \in Bijection(1..n, S) : TRUE
    BY <1>1 DEF ExistsBijection
  <2>2. f \in [1..n -> S] /\ \A a, b \in 1..n : f[a] = f[b] => a = b
    BY <2>1 DEF Bijection, Injection, Surjection, IsInjective
  <2>3. DOMAIN f = 1..n
    BY <2>2
  <2>4. IsInjective(f)
    BY <2>2, <2>3, Zenon DEF IsInjective
  <2>5. QED BY <2>2, <2>4
<1> DEFINE q == SetToSeq(S)
<1>3. q \in [1..n -> S]
  BY <1>2 DEF SetToSeq
<1> HIDE DEF q
<1>4. q = [i \in 1..n |-> q[i]]
  BY <1>3
<1>5. IsASeq(q)
  BY <1>1, <1>4, ListIsASeq, Zenon
<1>6. QED BY <1>5 DEF q

\* A sorted sequence is one.
LEMMA SortedIsASeq ==
  ASSUME NEW s, IsASeq(s)
  PROVE  IsASeq(Ranked(s, Before)) /\ IsASeq(Ranked(s, RowMajor))
<1>0. DOMAIN s = 1..Len(s)
  BY IsASeqOver
<1>1. Len(s) \in Nat
  BY DEF IsASeq
<1>2. IsASeq(Ranked(s, Before))
  <2> DEFINE q == Ranked(s, Before)
  <2>1. q = [i \in 1..Len(s) |-> q[i]]
    BY <1>0 DEF Ranked
  <2> HIDE DEF q
  <2>2. IsASeq(q)
    BY <1>1, <2>1, ListIsASeq, Zenon
  <2>3. QED BY <2>2 DEF q
<1>3. IsASeq(Ranked(s, RowMajor))
  <2> DEFINE q == Ranked(s, RowMajor)
  <2>1. q = [i \in 1..Len(s) |-> q[i]]
    BY <1>0 DEF Ranked
  <2> HIDE DEF q
  <2>2. IsASeq(q)
    BY <1>1, <2>1, ListIsASeq, Zenon
  <2>3. QED BY <2>2 DEF q
<1>4. QED BY <1>2, <1>3

\* The suppression, one candidate at a time.
Thinned(kept_, d, percent) ==
  IF \E i \in DOMAIN kept_ : Suppresses(kept_[i], d, percent) THEN kept_ ELSE Append(kept_, d)

\* What Nms computes on the way, for the candidates of each set of places up to m.
Thinning(seq, percent, m, f) ==
  \A T \in SUBSET (1..m) :
    f[T] = IF T = {} THEN <<>> ELSE Thinned(f[T \ {Max(T)}], seq[Max(T)], percent)

\* The largest of the places up to m + 1 is the last, if it is among them.
LEMMA MaxIs ==
  ASSUME NEW m \in Nat, NEW T \in SUBSET (1..(m + 1)), m + 1 \in T
  PROVE  Max(T) = m + 1
<1>1. \A x \in T : x \in 1..(m + 1) /\ (m + 1 >= x) /\ (x >= m + 1 => x = m + 1)
  OBVIOUS
<1>2. \A y \in T : m + 1 >= y
  BY <1>1
<1>3. Max(T) \in T /\ \A y \in T : Max(T) >= y
  <2>1. \E x \in T : \A y \in T : x >= y
    BY <1>2, Zenon
  <2>2. QED BY <2>1, Zenon DEF Max
<1>4. QED BY <1>1, <1>3, Zenon

\* One candidate more.
LEMMA ThinningGrows ==
  ASSUME NEW seq, NEW percent, NEW m \in Nat, NEW f, Thinning(seq, percent, m, f)
  PROVE  \E g : Thinning(seq, percent, m + 1, g)
<1> DEFINE g == [T \in SUBSET (1..(m + 1)) |->
                   IF m + 1 \in T THEN Thinned(f[T \ {m + 1}], seq[m + 1], percent) ELSE f[T]]
<1>1. \A T \in SUBSET (1..(m + 1)) :
        g[T] = IF m + 1 \in T THEN Thinned(f[T \ {m + 1}], seq[m + 1], percent) ELSE f[T]
  OBVIOUS
<1>2. \A T \in SUBSET (1..(m + 1)) : \A x : T \ {x} \in SUBSET (1..(m + 1))
  OBVIOUS
<1>3. \A T \in SUBSET (1..(m + 1)) : m + 1 \notin T => T \in SUBSET (1..m)
  OBVIOUS
<1> HIDE DEF g
<1>4. ASSUME NEW T \in SUBSET (1..(m + 1))
      PROVE  g[T] = IF T = {} THEN <<>> ELSE Thinned(g[T \ {Max(T)}], seq[Max(T)], percent)
  <2>1. CASE m + 1 \in T
    <3>1. Max(T) = m + 1 /\ T # {}
      BY <2>1, MaxIs
    <3>2. g[T \ {m + 1}] = f[T \ {m + 1}]
      <4>1. m + 1 \notin T \ {m + 1} /\ T \ {m + 1} \in SUBSET (1..(m + 1))
        BY <1>2
      <4>2. QED BY <1>1, <4>1, Zenon
    <3>3. QED BY <1>1, <2>1, <3>1, <3>2, Zenon
  <2>2. CASE m + 1 \notin T
    <3>1. T \in SUBSET (1..m)
      BY <1>3, <2>2
    <3>2. f[T] = IF T = {} THEN <<>> ELSE Thinned(f[T \ {Max(T)}], seq[Max(T)], percent)
      BY <3>1, Zenon DEF Thinning
    <3>3. g[T] = f[T]
      BY <1>1, <2>2, Zenon
    <3>4. g[T \ {Max(T)}] = f[T \ {Max(T)}]
      <4>1. m + 1 \notin T \ {Max(T)} /\ T \ {Max(T)} \in SUBSET (1..(m + 1))
        BY <1>2, <2>2
      <4>2. QED BY <1>1, <4>1, Zenon
    <3>5. QED BY <3>2, <3>3, <3>4, Zenon
  <2>3. QED BY <2>1, <2>2
<1>5. QED BY <1>4, Zenon DEF Thinning

\* The best of the candidates, in order.
BestOf(cands) == Ranked(SubSeq(cands, 1, Smaller(Len(cands), MaxCands)), Before)

\* The recursive function in FoldLeft exists, as Nms uses it.
LEMMA ThinningExists ==
  ASSUME NEW cands, NEW seq, seq = BestOf(cands), IsASeq(seq), NEW percent
  PROVE  \E f : Thinning(seq, percent, Len(seq), f) /\ Nms(cands, percent) = f[1..Len(seq)]
<1> DEFINE n == Len(seq)
           S == DOMAIN seq
           G == {m \in Nat : \E f : Thinning(seq, percent, m, f)}
           Rec(f) == f = [T \in SUBSET S |->
                            IF T = {} THEN <<>> ELSE Thinned(f[T \ {Max(T)}], seq[Max(T)], percent)]
<1>1. n \in Nat /\ S = 1..n
  BY IsASeqOver
<1>2. 0 \in G
  <2>1. 1..0 = {}
    OBVIOUS
  <2>2. \A T \in SUBSET (1..0) : T = {}
    BY <2>1
  <2>3. Thinning(seq, percent, 0, [T \in {{}} |-> <<>>])
    BY <2>2 DEF Thinning
  <2>4. QED BY <2>3
<1>3. \A m \in 0..(n - 1) : m \in G => m + 1 \in G
  <2>1. SUFFICES ASSUME NEW m \in Nat, m \in G PROVE m + 1 \in G
    OBVIOUS
  <2>2. m + 1 \in Nat
    OBVIOUS
  <2>3. QED BY <2>1, <2>2, ThinningGrows, Zenon
<1> HIDE DEF G
<1>4. n \in G
  <2>1. \A m \in 0..n : m \in G
    BY <1>1, <1>2, <1>3, UpTo, Zenon
  <2>2. QED BY <1>1, <2>1
<1>5. PICK f : Thinning(seq, percent, n, f)
  BY <1>4 DEF G
<1> DEFINE r == [T \in SUBSET S |-> f[T]]
<1>6. \A T \in SUBSET S : r[T] = f[T] /\ T \ {Max(T)} \in SUBSET S
  OBVIOUS
<1>7. Rec(r)
  <2>1. \A T \in SUBSET S :
          f[T] = IF T = {} THEN <<>> ELSE Thinned(r[T \ {Max(T)}], seq[Max(T)], percent)
    BY <1>1, <1>5, <1>6, Zenon DEF Thinning
  <2>2. QED BY <2>1, Zenon
<1> DEFINE b == CHOOSE f_ : Rec(f_)
<1>8. Rec(b)
  BY <1>7, Zenon
<1>9. Nms(cands, percent) = b[S]
  BY Zenon DEF Nms, BestOf, FoldLeft, MapThenFoldSet, Thinned
<1> HIDE DEF b
<1>10. Thinning(seq, percent, n, b)
  <2>1. ASSUME NEW T \in SUBSET (1..n)
        PROVE  b[T] = IF T = {} THEN <<>> ELSE Thinned(b[T \ {Max(T)}], seq[Max(T)], percent)
    BY <1>1, <1>8, Zenon
  <2>2. QED BY <2>1, Zenon DEF Thinning
<1>11. QED BY <1>1, <1>9, <1>10, Zenon

\* One element more.
LEMMA AppendIsASeq ==
  ASSUME NEW s, IsASeq(s), NEW x
  PROVE  IsASeq(Append(s, x)) /\ Len(Append(s, x)) = Len(s) + 1
<1> DEFINE S == {s[i] : i \in 1..Len(s)} \cup {x}
<1>1. (\A i \in 1..Len(s) : s[i] \in S) /\ x \in S
  OBVIOUS
<1> HIDE DEF S
<1>2. s \in Seq(S)
  BY <1>1, IsASeqOver
<1>3. Append(s, x) \in Seq(S) /\ Len(Append(s, x)) = Len(s) + 1
  BY <1>1, <1>2
<1>4. QED BY <1>3, SeqIsASeq, Zenon

\* The detections that survive come in a sequence.
LEMMA NmsIsASeq ==
  ASSUME NEW cands, IsASeq(cands), NEW percent
  PROVE  IsASeq(Nms(cands, percent))
<1> DEFINE m == Smaller(Len(cands), MaxCands)
           first == SubSeq(cands, 1, m)
           seq == BestOf(cands)
           n == Len(seq)
<1>1. m \in 0..Len(cands)
  <2>1. Len(cands) \in Nat /\ MaxCands \in Nat
    BY DetectionsAssumption DEF IsASeq
  <2>2. QED BY <2>1 DEF Smaller
<1>2. IsASeq(first)
  BY <1>1, FrontFacts
<1> HIDE DEF first
<1>3. IsASeq(seq)
  <2>1. seq = Ranked(first, Before)
    BY Zenon DEF BestOf, first
  <2>2. QED BY <1>2, <2>1, SortedIsASeq
<1> HIDE DEF seq
<1>4. n \in Nat
  BY <1>3 DEF IsASeq
<1>5. PICK f : Thinning(seq, percent, n, f) /\ Nms(cands, percent) = f[1..n]
  <2>1. seq = BestOf(cands)
    BY DEF seq
  <2>2. QED BY <1>3, <2>1, ThinningExists, Zenon
<1> DEFINE G == {i \in Nat : i <= n => IsASeq(f[1..i])}
<1>6. 0 \in G
  <2>1. 1..0 = {} /\ {} \in SUBSET (1..n)
    OBVIOUS
  <2>2. f[{}] = <<>>
    BY <1>5, <2>1, Zenon DEF Thinning
  <2>3. IsASeq(<<>>)
    BY DEF IsASeq
  <2>4. QED BY <2>1, <2>2, <2>3
<1>7. \A i \in 0..(n - 1) : i \in G => i + 1 \in G
  <2> SUFFICES ASSUME NEW i \in 0..(n - 1), i \in G PROVE i + 1 \in G
    OBVIOUS
  <2>1. i \in Nat /\ i + 1 \in Nat /\ i + 1 <= n /\ i <= n
    BY <1>4
  <2>2. 1..(i + 1) \in SUBSET (1..n) /\ i + 1 \in 1..(i + 1) /\ (1..(i + 1)) \ {i + 1} = 1..i
    BY <1>4, <2>1
  <2>3. Max(1..(i + 1)) = i + 1
    BY <2>1, <2>2, MaxIs
  <2>4. f[1..(i + 1)] = Thinned(f[1..i], seq[i + 1], percent)
    BY <1>5, <2>2, <2>3, Zenon DEF Thinning
  <2>5. IsASeq(f[1..i])
    BY <2>1
  <2>6. IsASeq(f[1..(i + 1)])
    <3>1. IsASeq(Append(f[1..i], seq[i + 1]))
      BY <2>5, AppendIsASeq, Zenon
    <3>2. QED BY <2>4, <2>5, <3>1, Zenon DEF Thinned
  <2>7. QED BY <2>1, <2>6
<1> HIDE DEF G
<1>8. n \in G
  <2>1. \A i \in 0..n : i \in G
    BY <1>4, <1>6, <1>7, UpTo, Zenon
  <2>2. QED BY <1>4, <2>1
<1>9. QED BY <1>4, <1>5, <1>8 DEF G

-----------------------------------------------------------------------------
(* What is found in a frame is finite *)

\* The image of a finite set.
LEMMA ImageIsFinite ==
  ASSUME NEW S, IsFiniteSet(S), NEW f
  PROVE  IsFiniteSet({f[x] : x \in S})
<1> DEFINE g == [x \in S |-> f[x]]
           T == {f[x] : x \in S}
<1>1. g \in Surjection(S, T)
  BY DEF Surjection
<1> HIDE DEF g, T
<1>2. IsFiniteSet(T)
  BY <1>1, FS_Surjection, Zenon
<1>3. QED BY <1>2 DEF T

\* Both passes find finitely many candidates.
LEMMA PassesAreFinite ==
  ASSUME NEW scene \in Scenes
  PROVE  IsFiniteSet(FramePass(scene)) /\ \A tile : IsFiniteSet(TilePass(scene, tile))
<1>1. IsFiniteSet(scene.objects)
  BY ScenesAssumption
<1>2. IsFiniteSet(FramePass(scene))
  <2> DEFINE view == FrameView(scene)
             S == {s \in Seen(scene, view) : Legible(Letterboxed(s, view, Net))}
             f == [o \in S |-> Scored(Decoded(Letterboxed(o, view, Net), view, Net), o, view)]
  <2>1. IsFiniteSet(S)
    <3>1. S \in SUBSET scene.objects
      BY Zenon DEF Seen
    <3> HIDE DEF S
    <3>2. QED BY <1>1, <3>1, FS_Subset, Zenon
  <2>2. FramePass(scene) = {f[o] : o \in S}
    BY Zenon DEF FramePass
  <2> HIDE DEF f, S
  <2>3. IsFiniteSet({f[o] : o \in S})
    BY <2>1, ImageIsFinite, Zenon
  <2>4. QED BY <2>2, <2>3, Zenon
<1>3. ASSUME NEW tile PROVE IsFiniteSet(TilePass(scene, tile))
  <2> DEFINE S == {s \in Seen(scene, tile) : Legible(Stretched(Overlap(s, tile), tile, Net))}
             f == [o \in S |-> Scored(Decoded(Stretched(Overlap(o, tile), tile, Net), tile, Net), o, tile)]
  <2>1. IsFiniteSet(S)
    <3>1. S \in SUBSET scene.objects
      BY Zenon DEF Seen
    <3> HIDE DEF S
    <3>2. QED BY <1>1, <3>1, FS_Subset, Zenon
  <2>2. TilePass(scene, tile) = {f[o] : o \in S}
    BY Zenon DEF TilePass
  <2> HIDE DEF f, S
  <2>3. IsFiniteSet({f[o] : o \in S})
    BY <2>1, ImageIsFinite, Zenon
  <2>4. QED BY <2>2, <2>3, Zenon
<1>4. QED BY <1>2, <1>3

\* So a slot's detections of the whole frame come in a sequence.
LEMMA WholeFrameIsASeq ==
  ASSUME NEW scene \in Scenes
  PROVE  IsASeq(WholeFrame(scene))
<1>1. IsASeq(SetToSeq(FramePass(scene)))
  <2>1. IsFiniteSet(FramePass(scene))
    BY PassesAreFinite
  <2>2. QED BY <2>1, SetToSeqIsASeq, Zenon
<1>2. IsASeq(Nms(SetToSeq(FramePass(scene)), IouThresh))
  BY <1>1, NmsIsASeq, Zenon
<1>3. QED BY <1>1, <1>2, Zenon DEF WholeFrame

\* And the grid of a frame.
LEMMA GridIsASeq ==
  ASSUME NEW scene \in Scenes
  PROVE  IsASeq(Grid(scene))
<1> DEFINE stride == Stride(TileSide, TileOverlap)
           X == TileOffsets1D(scene.w, TileSide, stride)
           Y == TileOffsets1D(scene.h, TileSide, stride)
           f == [o \in X \X Y |-> Rect(o[1], o[2], Smaller(TileSide, scene.w), Smaller(TileSide, scene.h))]
           tiles == MakeTileGrid(scene.w, scene.h, TileSide, TileOverlap)
<1>1. scene.w \in Nat /\ scene.h \in Nat /\ TileSide \in Nat \ {0} /\ TileOverlap \in Int
  BY ScenesAssumption, CascadeAssumption
<1>2. stride \in Nat \ {0}
  BY <1>1, StridePositive
<1> HIDE DEF stride
<1>3. ASSUME NEW frame \in Nat PROVE IsFiniteSet(TileOffsets1D(frame, TileSide, stride))
  <2>1. CASE frame = 0
    <3>1. TileOffsets1D(frame, TileSide, stride) = {0}
      BY <1>1, <2>1 DEF TileOffsets1D
    <3>2. QED BY <3>1, FS_Singleton
  <2>2. CASE frame # 0
    BY <1>1, <1>2, <2>2, AxisCount
  <2>3. QED BY <2>1, <2>2
<1>4. IsFiniteSet(X \X Y)
  BY <1>1, <1>3, FS_Product
<1>5. tiles = {f[o] : o \in X \X Y}
  BY Zenon DEF MakeTileGrid, stride
<1> HIDE DEF X, Y, f, tiles
<1>6. IsASeq(SetToSeq(tiles))
  <2> DEFINE places == X \X Y
  <2>1. IsFiniteSet(places)
    BY <1>4
  <2>2. tiles = {f[o] : o \in places}
    BY <1>5
  <2> HIDE DEF places
  <2>3. IsFiniteSet({f[o] : o \in places})
    BY <2>1, ImageIsFinite, Zenon
  <2>4. IsFiniteSet(tiles)
    BY <2>2, <2>3, Zenon
  <2>5. QED BY <2>4, SetToSeqIsASeq, Zenon
<1>7. IsASeq(Ranked(SetToSeq(tiles), RowMajor))
  BY <1>6, SortedIsASeq, Zenon
<1>8. QED BY <1>7, Zenon DEF Grid, tiles

-----------------------------------------------------------------------------
(* Slots and tiles *)

\* The slots of a batch that were not abandoned.
LEMMA LiveSlotsAre ==
  ASSUME NEW b, NEW n \in Nat, DOMAIN b = 1..n
  PROVE  IsASeq(LiveSlots(b)) /\ \A i \in 1..Len(LiveSlots(b)) : LiveSlots(b)[i] \in 1..n
<1> DEFINE ss == [s \in DOMAIN b |-> IF b[s].live THEN <<s>> ELSE <<>>]
           live == FlattenSeq(ss)
<1>1. ss = [s \in 1..n |-> ss[s]]
  OBVIOUS
<1>2. \A s \in 1..n : ss[s] = IF b[s].live THEN <<s>> ELSE <<>>
  OBVIOUS
<1> HIDE DEF ss
<1>3. IsASeq(ss) /\ Len(ss) = n
  BY <1>1, ListIsASeq, Zenon
<1>4. \A s \in 1..n : IsASeq(ss[s]) /\ \A k \in 1..Len(ss[s]) : ss[s][k] = s
  <2>1. \A s : IsASeq(<<s>>) /\ \A k \in 1..Len(<<s>>) : <<s>>[k] = s
    BY DEF IsASeq
  <2>2. IsASeq(<<>>) /\ Len(<<>>) = 0 /\ \A k : k \notin 1..0
    BY DEF IsASeq
  <2>3. QED BY <1>2, <2>1, <2>2
<1>5. HoldsTheFirst(live, ss, n)
  BY <1>3, <1>4, FlattenFacts DEF IsSeqs
<1> HIDE DEF live
<1>6. IsASeq(live) /\ \A i \in 1..Len(live) : live[i] \in 1..n
  <2>1. IsASeq(live)
    BY <1>5, Zenon DEF HoldsTheFirst
  <2>2. ASSUME NEW p \in 1..Len(live) PROVE live[p] \in 1..n
    <3>1. PICK i \in 1..n : \E k \in 1..Len(ss[i]) : live[p] = ss[i][k]
      BY <1>5, Zenon DEF HoldsTheFirst
    <3>2. live[p] = i
      BY <1>4, <3>1, Zenon
    <3>3. QED BY <3>2
  <2>3. QED BY <2>1, <2>2, Zenon
<1>7. QED BY <1>6, Zenon DEF LiveSlots, live, ss

\* The slots to be sliced are slots of the batch.
LEMMA GroupsAre ==
  ASSUME NEW b, NEW n \in Nat, DOMAIN b = 1..n
  PROVE  /\ IsASeq(Groups(b)) /\ (Len(Groups(b)) = 0 => Groups(b) = <<>>)
         /\ \A g \in 1..Len(Groups(b)) :
              IsASeq(Groups(b)[g]) /\ \A i \in 1..Len(Groups(b)[g]) : Groups(b)[g][i] \in 1..n
<1> DEFINE live == LiveSlots(b)
<1>1. IsASeq(live) /\ \A i \in 1..Len(live) : live[i] \in 1..n
  BY LiveSlotsAre, Zenon
<1> HIDE DEF live
<1>2. Groups(b) = IF ~Plan(cfg).sahi THEN <<>>
                  ELSE IF Plan(cfg).serial THEN [i \in DOMAIN live |-> <<live[i]>>] ELSE <<live>>
  BY Zenon DEF Groups, live
<1>3. \A s : IsASeq(s) /\ Len(s) = 0 => s = <<>>
  BY DEF IsASeq
<1>4. \A s : IsASeq(<<s>>) /\ Len(<<s>>) = 1 /\ <<s>>[1] = s /\ \A k \in 1..Len(<<s>>) : k = 1
  BY DEF IsASeq
<1>5. CASE ~Plan(cfg).sahi
  <2>1. Groups(b) = <<>> /\ IsASeq(<<>>) /\ Len(<<>>) = 0 /\ \A k : k \notin 1..0
    BY <1>2, <1>5 DEF IsASeq
  <2>2. QED BY <2>1
<1>6. CASE Plan(cfg).sahi /\ Plan(cfg).serial
  <2> DEFINE gs == [i \in DOMAIN live |-> <<live[i]>>]
  <2>1. DOMAIN live = 1..Len(live) /\ Len(live) \in Nat
    BY <1>1, IsASeqOver
  <2>2. gs = [i \in 1..Len(live) |-> gs[i]] /\ \A i \in 1..Len(live) : gs[i] = <<live[i]>>
    BY <2>1
  <2>3. Groups(b) = gs
    BY <1>2, <1>6
  <2> HIDE DEF gs
  <2>4. IsASeq(gs) /\ Len(gs) = Len(live)
    BY <2>1, <2>2, ListIsASeq, Zenon
  <2>5. ASSUME NEW g \in 1..Len(gs)
        PROVE  IsASeq(gs[g]) /\ \A i \in 1..Len(gs[g]) : gs[g][i] \in 1..n
    <3>1. gs[g] = <<live[g]>> /\ live[g] \in 1..n
      BY <1>1, <2>2, <2>4
    <3>2. IsASeq(<<live[g]>>) /\ <<live[g]>>[1] = live[g] /\ \A k \in 1..Len(<<live[g]>>) : k = 1
      BY <1>4, Zenon
    <3>3. QED BY <3>1, <3>2, Zenon
  <2>6. QED BY <1>3, <2>3, <2>4, <2>5, Zenon
<1>7. CASE Plan(cfg).sahi /\ ~Plan(cfg).serial
  <2>1. Groups(b) = <<live>>
    BY <1>2, <1>7
  <2>2. QED BY <1>1, <1>3, <1>4, <2>1
<1>8. QED BY <1>5, <1>6, <1>7

-----------------------------------------------------------------------------
(* Crops and routing *)

\* The crop of detection k of slot s, and whether child c gets it.
CropAt(s, k) == [slot |-> s, det |-> k, rect |-> CropRect(kept[s][k], batch[s].scene)]

RoutedTo(c, s, k) ==
  \/ Child(c).select = NoStep
  \/ Passes(StepAt(cfg, Child(c).select), kept[s][k], CropRect(kept[s][k], batch[s].scene))

\* The batch in hand, with the detections of each slot.
InHand ==
  /\ \E n \in Nat : DOMAIN batch = 1..n
  /\ DOMAIN kept = Slots /\ \A s \in Slots : IsASeq(kept[s])

\* s holds the crops of all detections of live slots, and nothing else.
HoldsAll(s) ==
  /\ IsASeq(s)
  /\ \A p \in 1..Len(s) : \E t \in Slots :
       batch[t].live /\ \E k \in DOMAIN kept[t] : s[p] = CropAt(t, k)
  /\ \A t \in Slots : batch[t].live =>
       \A k \in DOMAIN kept[t] : \E p \in 1..Len(s) : s[p] = CropAt(t, k)

\* s holds the crops of those routed to child c.
HoldsRouted(s, c) ==
  /\ IsASeq(s)
  /\ \A p \in 1..Len(s) : \E t \in Slots :
       batch[t].live /\ \E k \in DOMAIN kept[t] : RoutedTo(c, t, k) /\ s[p] = CropAt(t, k)
  /\ \A t \in Slots : batch[t].live =>
       \A k \in DOMAIN kept[t] : RoutedTo(c, t, k) => \E p \in 1..Len(s) : s[p] = CropAt(t, k)

\* HCrops holds the crop of every detection of a live slot.
LEMMA AllCrops ==
  ASSUME InHand
  PROVE  HoldsAll(HCrops)
<1> DEFINE ss == [s \in Slots |-> SlotCrops(s)]
<1>1. PICK n \in Nat : Slots = 1..n
  BY DEF InHand, Slots
<1>2. ss = [s \in 1..n |-> ss[s]] /\ \A s \in 1..n : ss[s] = SlotCrops(s)
  BY <1>1
<1>3. HCrops = FlattenSeq(ss)
  BY Zenon DEF HCrops
<1> HIDE DEF ss
<1>4. IsASeq(ss) /\ Len(ss) = n
  BY <1>2, ListIsASeq, Zenon
<1>5. ASSUME NEW s \in 1..n
      PROVE  /\ IsASeq(SlotCrops(s))
             /\ \A k \in 1..Len(SlotCrops(s)) :
                  batch[s].live /\ k \in DOMAIN kept[s] /\ SlotCrops(s)[k] = CropAt(s, k)
             /\ batch[s].live => \A k \in DOMAIN kept[s] : k \in 1..Len(SlotCrops(s))
  <2>1. CASE ~batch[s].live
    <3>1. SlotCrops(s) = <<>> /\ IsASeq(<<>>) /\ Len(<<>>) = 0 /\ \A k : k \notin 1..0
      BY <2>1 DEF SlotCrops, IsASeq
    <3>2. QED BY <2>1, <3>1, Zenon
  <2>2. CASE batch[s].live
    <3> DEFINE q == SlotCrops(s)
    <3>1. IsASeq(kept[s])
      BY <1>1 DEF InHand
    <3>2. DOMAIN kept[s] = 1..Len(kept[s]) /\ Len(kept[s]) \in Nat
      BY <3>1, IsASeqOver
    <3>3. q = [k \in 1..Len(kept[s]) |-> CropAt(s, k)]
      BY <2>2, <3>2, Zenon DEF SlotCrops, CropAt
    <3> HIDE DEF q
    <3>4. q = [k \in 1..Len(kept[s]) |-> q[k]] /\ \A k \in 1..Len(kept[s]) : q[k] = CropAt(s, k)
      BY <3>3
    <3>5. IsASeq(q) /\ Len(q) = Len(kept[s])
      BY <3>2, <3>4, ListIsASeq, Zenon
    <3>6. QED BY <2>2, <3>2, <3>4, <3>5 DEF q
  <2>3. QED BY <2>1, <2>2
<1>6. HoldsTheFirst(HCrops, ss, n)
  <2>1. IsSeqs(ss)
    BY <1>2, <1>4, <1>5, Zenon DEF IsSeqs
  <2>2. QED BY <1>3, <1>4, <2>1, FlattenFacts, Zenon
<1>7. IsASeq(HCrops)
  BY <1>6, Zenon DEF HoldsTheFirst
<1>8. ASSUME NEW p \in 1..Len(HCrops)
      PROVE  \E t \in Slots : batch[t].live /\ \E k \in DOMAIN kept[t] : HCrops[p] = CropAt(t, k)
  <2>1. PICK t \in 1..n : \E k \in 1..Len(ss[t]) : HCrops[p] = ss[t][k]
    BY <1>6, Zenon DEF HoldsTheFirst
  <2>2. PICK k \in 1..Len(SlotCrops(t)) : HCrops[p] = SlotCrops(t)[k]
    BY <1>2, <2>1, Zenon
  <2>3. batch[t].live /\ k \in DOMAIN kept[t] /\ HCrops[p] = CropAt(t, k)
    BY <1>5, <2>2, Zenon
  <2>4. QED BY <1>1, <2>3, Zenon
<1>9. ASSUME NEW t \in Slots, batch[t].live, NEW k \in DOMAIN kept[t]
      PROVE  \E p \in 1..Len(HCrops) : HCrops[p] = CropAt(t, k)
  <2>1. t \in 1..n /\ k \in 1..Len(ss[t]) /\ ss[t][k] = CropAt(t, k)
    BY <1>1, <1>2, <1>5, <1>9, Zenon
  <2>2. PICK p \in 1..Len(HCrops) : HCrops[p] = ss[t][k]
    BY <1>6, <2>1, Zenon DEF HoldsTheFirst
  <2>3. QED BY <2>1, <2>2, Zenon
<1>10. QED BY <1>7, <1>8, <1>9, Zenon DEF HoldsAll, HoldsRouted

\* A child's crops are those of the detections routed to it.
LEMMA ChildCrops ==
  ASSUME InHand, NEW c
  PROVE  /\ HoldsRouted(CropsOf(c), c)
         /\ Len(Pass(c)) = Len(CropsOf(c)) /\ DOMAIN Pass(c) = 1..Len(CropsOf(c))
<1> DEFINE m == Len(HCrops)
           sel == StepAt(cfg, Child(c).select)
           Through(i) == \/ Child(c).select = NoStep
                         \/ Passes(sel, kept[HCrops[i].slot][HCrops[i].det], HCrops[i].rect)
<1>1. HoldsAll(HCrops)
  BY AllCrops
<1>2. DOMAIN HCrops = 1..m /\ m \in Nat
  <2>1. IsASeq(HCrops)
    BY <1>1, Zenon DEF HoldsAll, HoldsRouted
  <2>2. QED BY <2>1, IsASeqOver
<1>3. ASSUME NEW i \in 1..m, NEW t, NEW k, HCrops[i] = CropAt(t, k)
      PROVE  Through(i) <=> RoutedTo(c, t, k)
  <2>1. CropAt(t, k).slot = t /\ CropAt(t, k).det = k
        /\ CropAt(t, k).rect = CropRect(kept[t][k], batch[t].scene)
    BY DEF CropAt
  <2>2. QED BY <1>3, <2>1, Zenon DEF RoutedTo
<1> HIDE DEF Through
<1>4. /\ IsASeq(Pass(c))
      /\ \A p \in 1..Len(Pass(c)) : Pass(c)[p] \in 1..m /\ Through(Pass(c)[p])
      /\ \A i \in 1..m : Through(i) => \E p \in 1..Len(Pass(c)) : Pass(c)[p] = i
  <2>1. CASE Child(c).select = NoStep
    <3> DEFINE q == Pass(c)
    <3>1. q = [i \in 1..m |-> i]
      BY <1>2, <2>1, Zenon DEF Pass, PassAll
    <3> HIDE DEF q
    <3>2. q = [i \in 1..m |-> q[i]] /\ \A i \in 1..m : q[i] = i
      BY <3>1
    <3>3. IsASeq(q) /\ Len(q) = m
      BY <1>2, <3>2, ListIsASeq, Zenon
    <3>4. \A i \in 1..m : Through(i)
      BY <2>1, Zenon DEF Through
    <3>5. QED BY <3>2, <3>3, <3>4, Zenon DEF q
  <2>2. CASE Child(c).select # NoStep
    <3> DEFINE ss == [i \in 1..m |-> IF Through(i) THEN <<i>> ELSE <<>>]
    <3>1. Pass(c) = FlattenSeq(ss)
      BY <1>2, <2>2, Zenon DEF Pass, Through
    <3>2. ss = [i \in 1..m |-> ss[i]] /\ \A i \in 1..m : ss[i] = IF Through(i) THEN <<i>> ELSE <<>>
      OBVIOUS
    <3> HIDE DEF ss
    <3>3. IsASeq(ss) /\ Len(ss) = m
      BY <1>2, <3>2, ListIsASeq, Zenon
    <3>4. \A s : IsASeq(<<s>>) /\ Len(<<s>>) = 1 /\ <<s>>[1] = s /\ \A k \in 1..1 : k = 1
      BY DEF IsASeq
    <3>5. IsASeq(<<>>) /\ Len(<<>>) = 0 /\ \A k : k \notin 1..0
      BY DEF IsASeq
    <3>6. ASSUME NEW i \in 1..m
          PROVE  /\ IsASeq(ss[i]) /\ \A k \in 1..Len(ss[i]) : ss[i][k] = i /\ Through(i)
                 /\ Through(i) => ss[i][1] = i /\ 1 \in 1..Len(ss[i])
      <4>1. CASE Through(i)
        <5>1. ss[i] = <<i>> /\ 1 \in 1..1
          BY <3>2, <4>1
        <5>2. QED BY <3>4, <4>1, <5>1
      <4>2. CASE ~Through(i)
        <5>1. ss[i] = <<>>
          BY <3>2, <4>2
        <5>2. QED BY <3>5, <4>2, <5>1
      <4>3. QED BY <4>1, <4>2
    <3>7. HoldsTheFirst(Pass(c), ss, m)
      <4>1. IsSeqs(ss)
        BY <3>3, <3>6, Zenon DEF IsSeqs
      <4>2. QED BY <3>1, <3>3, <4>1, FlattenFacts, Zenon
    <3>8. IsASeq(Pass(c))
      BY <3>7, Zenon DEF HoldsTheFirst
    <3>9. ASSUME NEW p \in 1..Len(Pass(c)) PROVE Pass(c)[p] \in 1..m /\ Through(Pass(c)[p])
      <4>1. PICK i \in 1..m : \E k \in 1..Len(ss[i]) : Pass(c)[p] = ss[i][k]
        BY <3>7, Zenon DEF HoldsTheFirst
      <4>2. Pass(c)[p] = i /\ Through(i)
        BY <3>6, <4>1, Zenon
      <4>3. QED BY <4>2, Zenon
    <3>10. ASSUME NEW i \in 1..m, Through(i) PROVE \E p \in 1..Len(Pass(c)) : Pass(c)[p] = i
      <4>1. ss[i][1] = i /\ 1 \in 1..Len(ss[i])
        BY <3>6, <3>10, Zenon
      <4>2. PICK p \in 1..Len(Pass(c)) : Pass(c)[p] = ss[i][1]
        BY <3>7, <4>1, Zenon DEF HoldsTheFirst
      <4>3. QED BY <4>1, <4>2, Zenon
    <3>11. QED BY <3>8, <3>9, <3>10, Zenon
  <2>3. QED BY <2>1, <2>2, Zenon
<1> DEFINE q == CropsOf(c)
           l == Len(Pass(c))
<1>5. l \in Nat /\ DOMAIN Pass(c) = 1..l
  BY <1>4, IsASeqOver
<1>6. q = [p \in 1..l |-> HCrops[Pass(c)[p]]]
  BY <1>5, Zenon DEF CropsOf
<1> HIDE DEF q
<1>7. q = [p \in 1..l |-> q[p]] /\ \A p \in 1..l : q[p] = HCrops[Pass(c)[p]]
  BY <1>6
<1>8. IsASeq(q) /\ Len(q) = l
  BY <1>5, <1>7, ListIsASeq, Zenon
<1>9. ASSUME NEW p \in 1..l
      PROVE  \E t \in Slots :
               batch[t].live /\ \E k \in DOMAIN kept[t] : RoutedTo(c, t, k) /\ q[p] = CropAt(t, k)
  <2> DEFINE i == Pass(c)[p]
  <2>1. i \in 1..m /\ Through(i) /\ q[p] = HCrops[i]
    BY <1>4, <1>7, Zenon
  <2> HIDE DEF i
  <2>2. PICK t \in Slots : batch[t].live /\ \E k \in DOMAIN kept[t] : HCrops[i] = CropAt(t, k)
    BY <1>1, <2>1, Zenon DEF HoldsAll, HoldsRouted
  <2>3. PICK k \in DOMAIN kept[t] : HCrops[i] = CropAt(t, k)
    BY <2>2, Zenon
  <2>4. RoutedTo(c, t, k)
    BY <1>3, <2>1, <2>3
  <2>5. QED BY <2>1, <2>2, <2>3, <2>4, Zenon
<1>10. ASSUME NEW t \in Slots, batch[t].live, NEW k \in DOMAIN kept[t], RoutedTo(c, t, k)
       PROVE  \E p \in 1..l : q[p] = CropAt(t, k)
  <2>1. PICK i \in 1..m : HCrops[i] = CropAt(t, k)
    BY <1>1, <1>10, Zenon DEF HoldsAll, HoldsRouted
  <2>2. Through(i)
    BY <1>3, <1>10, <2>1
  <2>3. PICK p \in 1..l : Pass(c)[p] = i
    BY <1>4, <2>2, Zenon
  <2>4. QED BY <1>7, <2>1, <2>3, Zenon
<1>11. HoldsRouted(q, c)
  BY <1>8, <1>9, <1>10, Zenon DEF HoldsAll, HoldsRouted
<1>12. QED BY <1>5, <1>8, <1>11, Zenon DEF q

\* The rows wanted of crops of the same detection are the same.
LEMMA RowsAgree ==
  ASSUME InHand, NEW c
  PROVE  /\ Agreeing(CropsOf(c), RowsWanted(c), Len(Pass(c)))
         /\ \A p \in 1..Len(Pass(c)) :
              RowsWanted(c)[p] = [engine |-> Child(c).engine, slot |-> CropsOf(c)[p].slot,
                                  take |-> takes, rect |-> CropsOf(c)[p].rect]
<1> DEFINE q == CropsOf(c)
           l == Len(Pass(c))
<1>1. HoldsRouted(q, c) /\ l = Len(q)
  BY ChildCrops
<1>2. DOMAIN q = 1..l
  <2>1. IsASeq(q)
    BY <1>1, Zenon DEF HoldsAll, HoldsRouted
  <2>2. QED BY <1>1, <2>1, IsASeqOver, Zenon
<1>3. \A p \in 1..l :
        RowsWanted(c)[p] = [engine |-> Child(c).engine, slot |-> q[p].slot, take |-> takes,
                            rect |-> q[p].rect]
  BY <1>2, Zenon DEF RowsWanted
<1> HIDE DEF q
<1>4. \A p \in 1..l : \E t, k : q[p] = CropAt(t, k)
  BY <1>1 DEF HoldsRouted
<1>5. \A t, k : CropAt(t, k).slot = t /\ CropAt(t, k).det = k
  BY DEF CropAt
<1>6. ASSUME NEW a \in 1..l, NEW b \in 1..l, q[a].slot = q[b].slot, q[a].det = q[b].det
      PROVE  RowsWanted(c)[a] = RowsWanted(c)[b]
  <2>1. q[a] = q[b]
    <3>1. PICK t, k : q[a] = CropAt(t, k)
      BY <1>4, Zenon
    <3>2. PICK u, j : q[b] = CropAt(u, j)
      BY <1>4, Zenon
    <3>3. t = u /\ k = j
      BY <1>5, <1>6, <3>1, <3>2
    <3>4. QED BY <3>1, <3>2, <3>3, Zenon
  <2>2. QED BY <1>3, <2>1, Zenon
<1>7. Agreeing(q, RowsWanted(c), l)
  BY <1>6, Zenon DEF Agreeing
<1>8. QED BY <1>3, <1>7, Zenon DEF q

-----------------------------------------------------------------------------
(* The wires of an accepted graph and the plan made of it *)

\* What an application can pass is a graph whose steps and layers are numbered lists.
LEMMA ConfigIsTyped ==
  ASSUME NEW c \in Configs
  PROVE  GraphTyped(c)
<1>1. c \in PipelineConfigs
  BY ConfigsAssumption
<1>2. c.steps \in Seq(StepDescs) /\ c.layers \in Seq(LayerDescs)
  BY <1>1 DEF PipelineConfigs
<1>3. IsASeq(c.steps) /\ \A i \in 1..Len(c.steps) : c.steps[i] \in StepDescs
  BY <1>2, SeqIsASeq, Zenon
<1>4. IsASeq(c.layers) /\ \A j \in 1..Len(c.layers) : c.layers[j] \in LayerDescs
  BY <1>2, SeqIsASeq, Zenon
<1>5. \A d \in StepDescs : d.input \in Int
  BY DEF StepDescs
<1>6. \A l \in LayerDescs : l.steps \in Seq(Int)
  BY DEF LayerDescs
<1>7. \A s \in Seq(Int) : IsASeq(s) /\ \A k \in 1..Len(s) : s[k] \in Int
  BY SeqIsASeq, Zenon
<1>8. QED BY <1>3, <1>4, <1>5, <1>6, <1>7, Zenon DEF GraphTyped

\* The steps of a branch, and where the layer's engine is among them.
LEMMA BranchEnds ==
  ASSUME NEW c, NEW l, LayerTyped(l), NEW br, Branching(c, l, br)
  PROVE  /\ IsASeq(br) /\ Len(br) \in {2, 3}
         /\ Len(br) = 2 =>
              /\ EngineOf(l) = br[1] /\ StepAt(c, br[1]).input = DetectorPost(c)
              /\ StepAt(c, br[1]).kind = "Engine" /\ StepAt(c, br[2]).kind = "Postprocess"
         /\ Len(br) = 3 =>
              /\ EngineOf(l) = br[2] /\ br[1] \in StepIds(c) /\ StepAt(c, br[2]).input = br[1]
              /\ StepAt(c, br[1]).kind = "Select" /\ StepAt(c, br[2]).kind = "Engine"
              /\ StepAt(c, br[3]).kind = "Postprocess"
<1>1. IsASeq(br) /\ Len(br) \in Nat
  BY DEF Branching, Chain, IsASeq
<1>2. Len(br) \in {2, 3} /\ Kinds(c, br) \in ReaderKinds
  BY <1>1, KindsAre DEF Branching
<1>3. l.steps = br \/ l.steps = SubSeq(br, Len(br) - 1, Len(br))
  BY Zenon DEF Branching
<1>4. CASE Len(br) = 2
  <2>1. /\ StepAt(c, br[1]).kind = "Engine" /\ StepAt(c, br[2]).kind = "Postprocess"
        /\ StepAt(c, br[2]).input = br[1] /\ StepAt(c, br[1]).input = DetectorPost(c)
    BY <1>1, <1>2, <1>4, KindsAre, ShortChains DEF Branching
  <2>2. SubSeq(br, Len(br) - 1, Len(br)) = <<br[1], br[2]>>
    <3> DEFINE a == Len(br) - 1
               b == Len(br)
    <3>1. a \in Nat \ {0} /\ b \in Nat /\ a + 1 = b /\ b = Len(br) /\ a = 1 /\ b = 2
      BY <1>4
    <3> HIDE DEF a, b
    <3>2. SubSeq(br, a, b) = <<br[a], br[b]>>
      BY <1>1, <3>1, EndFacts
    <3>3. QED BY <3>1, <3>2 DEF a, b
  <2>3. br = <<br[1], br[2]>>
    BY <1>1, <1>4, ShortSeqs
  <2>4. l.steps = br
    BY <1>3, <2>2, <2>3
  <2>5. EngineOf(l) = br[1]
    <3>1. Len(l.steps) - 1 = 1
      BY <1>4, <2>4
    <3>2. QED BY <2>4, <3>1, Zenon DEF EngineOf
  <2>6. QED BY <1>1, <1>2, <1>4, <2>1, <2>5
<1>5. CASE Len(br) = 3
  <2>1. /\ StepAt(c, br[1]).kind = "Select"
        /\ StepAt(c, br[2]).kind = "Engine" /\ StepAt(c, br[3]).kind = "Postprocess"
        /\ StepAt(c, br[2]).input = br[1] /\ br[1] \in StepIds(c)
    BY <1>1, <1>2, <1>5, KindsAre, ShortChains DEF Branching
  <2>2. SubSeq(br, Len(br) - 1, Len(br)) = <<br[2], br[3]>>
    <3> DEFINE a == Len(br) - 1
               b == Len(br)
    <3>1. a \in Nat \ {0} /\ b \in Nat /\ a + 1 = b /\ b = Len(br) /\ a = 2 /\ b = 3
      BY <1>5
    <3> HIDE DEF a, b
    <3>2. SubSeq(br, a, b) = <<br[a], br[b]>>
      BY <1>1, <3>1, EndFacts
    <3>3. QED BY <3>1, <3>2 DEF a, b
  <2>3. EngineOf(l) = br[2]
    <3>1. CASE l.steps = br
      <4>1. Len(l.steps) - 1 = 2
        BY <1>5, <3>1
      <4>2. QED BY <3>1, <4>1, Zenon DEF EngineOf
    <3>2. CASE l.steps = <<br[2], br[3]>>
      <4>1. Len(l.steps) - 1 = 1 /\ l.steps[1] = br[2]
        BY <3>2
      <4>2. QED BY <4>1, Zenon DEF EngineOf
    <3>3. QED BY <1>3, <2>2, <3>1, <3>2
  <2>4. QED BY <1>1, <1>2, <1>5, <2>1, <2>3
<1>6. QED BY <1>2, <1>4, <1>5

\* The steps of a kind between the end of line t and the end of a layer.
Between(c, t, l, kind) ==
  LET line == Line(c, PostOf(l))
  IN  {i \in Range(SubSeq(line, Len(t) + 1, Len(line))) : StepAt(c, i).kind = kind}

\* In a branch off the detector they are the engine and the Select of the plan.
LEMMA BetweenIs ==
  ASSUME NEW c, GraphTyped(c), NEW t, Rooted(c, t), t[Len(t)] = DetectorPost(c),
         StepAt(c, DetectorPost(c)).kind = "Postprocess",
         NEW l, LayerTyped(l), NEW br, Branching(c, l, br)
  PROVE  /\ Between(c, t, l, "Engine") = {EngineOf(l)}
         /\ Between(c, t, l, "Select") = IF SelectOf(c, l) = NoStep THEN {} ELSE {SelectOf(c, l)}
<1> DEFINE line == t \o br
<1>1. Chain(c, br) /\ StepAt(c, br[1]).input = t[Len(t)] /\ br[Len(br)] = PostOf(l)
  BY Zenon DEF Branching
<1>2. Rooted(c, line) /\ line[Len(line)] = PostOf(l) /\ SubSeq(line, Len(t) + 1, Len(line)) = br
  <2>1. Rooted(c, line) /\ Grows(c, t, br, line) /\ Splits(t, br, line)
    BY <1>1, Continued, Zenon
  <2> HIDE DEF line
  <2>2. QED BY <1>1, <2>1, Zenon DEF Grows, Splits
<1> HIDE DEF line
<1>3. Line(c, PostOf(l)) = line
  <2>1. Line(c, line[Len(line)]) = line
    BY <1>2, LineIs, Zenon
  <2>2. QED BY <1>2, <2>1, Zenon
<1>4. \A kind : Between(c, t, l, kind) = {i \in Range(br) : StepAt(c, i).kind = kind}
  BY <1>2, <1>3, Zenon DEF Between
<1>5. /\ IsASeq(br) /\ Len(br) \in {2, 3}
      /\ Len(br) = 2 =>
           /\ EngineOf(l) = br[1] /\ StepAt(c, br[1]).input = DetectorPost(c)
           /\ StepAt(c, br[1]).kind = "Engine" /\ StepAt(c, br[2]).kind = "Postprocess"
      /\ Len(br) = 3 =>
           /\ EngineOf(l) = br[2] /\ br[1] \in StepIds(c) /\ StepAt(c, br[2]).input = br[1]
           /\ StepAt(c, br[1]).kind = "Select" /\ StepAt(c, br[2]).kind = "Engine"
           /\ StepAt(c, br[3]).kind = "Postprocess"
  BY BranchEnds
<1>6. DOMAIN br = 1..Len(br)
  BY <1>5, IsASeqOver
<1>7. CASE Len(br) = 2
  <2>1. Range(br) = {br[1], br[2]}
    <3>1. DOMAIN br = {1, 2}
      BY <1>6, <1>7
    <3>2. QED BY <3>1 DEF Range
  <2>2. SelectOf(c, l) = NoStep
    BY <1>5, <1>7 DEF SelectOf
  <2>3. {i \in Range(br) : StepAt(c, i).kind = "Engine"} = {EngineOf(l)}
    BY <1>5, <1>7, <2>1
  <2>4. {i \in Range(br) : StepAt(c, i).kind = "Select"} = {}
    BY <1>5, <1>7, <2>1
  <2>5. QED BY <1>4, <2>2, <2>3, <2>4
<1>8. CASE Len(br) = 3
  <2>1. Range(br) = {br[1], br[2], br[3]}
    <3>1. DOMAIN br = {1, 2, 3}
      BY <1>6, <1>8
    <3>2. QED BY <3>1 DEF Range
  <2>2. SelectOf(c, l) = br[1] /\ br[1] # NoStep
    <3>1. br[1] # DetectorPost(c)
      BY <1>5, <1>8
    <3>2. br[1] # NoStep
      BY <1>5, <1>8, StepFacts DEF NoStep
    <3>3. QED BY <1>5, <1>8, <3>1, <3>2 DEF SelectOf
  <2>3. {i \in Range(br) : StepAt(c, i).kind = "Engine"} = {EngineOf(l)}
    BY <1>5, <1>8, <2>1
  <2>4. {i \in Range(br) : StepAt(c, i).kind = "Select"} = {br[1]}
    BY <1>5, <1>8, <2>1
  <2>5. QED BY <1>4, <2>2, <2>3, <2>4
<1>9. QED BY <1>5, <1>7, <1>8

\* What the executor looks up in its plan is what the wires say.
LEMMA PlanFollowsWires ==
  ASSUME cfg \in Configs, Verdict(cfg) = "ok"
  PROVE  /\ \E n \in Nat : Children = 1..n /\ Len(cfg.layers) = n + 1 /\ DOMAIN ChildLayers(cfg) = 1..n
         /\ \A c \in Children :
              /\ Wired(c, "Engine") = {Child(c).engine}
              /\ Wired(c, "Select") = IF Child(c).select = NoStep THEN {} ELSE {Child(c).select}
<1> DEFINE n == Len(cfg.layers)
           l1 == cfg.layers[1]
           t == Line(cfg, DetectorPost(cfg))
<1>1. GraphTyped(cfg)
  BY ConfigIsTyped
<1>2. n \in Nat /\ (cfg.layers = <<>> <=> n = 0) /\ \A j \in 1..n : LayerTyped(cfg.layers[j])
  BY <1>1, LayersTyped
<1>3. WiresExist(cfg) /\ n # 0
  <2>1. ~StreamsOk(cfg) => Verdict(cfg) = "stream"
    BY Zenon DEF Verdict
  <2>2. StreamsOk(cfg) /\ (~WiresExist(cfg) \/ cfg.layers = <<>>) => Verdict(cfg) = "graph"
    BY Zenon DEF Verdict
  <2>3. QED BY <1>2, <2>1, <2>2
<1>4. TreeShape(cfg)
  <2>1. Verdict(cfg) \in {"ok", "graph", "chained"}
    OBVIOUS
  <2>2. IsTree(cfg)
    BY <1>1, <1>3, <2>1, AcceptedIffTreeOf, Zenon
  <2>3. QED BY <1>1, <1>3, <2>2, TreeShapeIff, Zenon
<1>5. Trunk(cfg, l1) /\ \A j \in 2..n : \E br : Branching(cfg, cfg.layers[j], br)
  BY <1>4, Zenon DEF TreeShape
<1>6. 1 \in 1..n /\ n - 1 \in Nat /\ (\A j \in 2..n : j \in 1..n)
  BY <1>2, <1>3
<1>7. DetectorPost(cfg) = l1.steps[Len(l1.steps)]
  BY Zenon DEF DetectorPost, PostOf
<1>8. Rooted(cfg, l1.steps) /\ t = l1.steps
  <2>1. Rooted(cfg, l1.steps)
    BY <1>5, Zenon DEF Trunk
  <2>2. Line(cfg, l1.steps[Len(l1.steps)]) = l1.steps
    BY <1>1, <2>1, LineIs, Zenon
  <2>3. QED BY <1>7, <2>1, <2>2, Zenon
<1>9. StepAt(cfg, DetectorPost(cfg)).kind = "Postprocess"
  <2>1. IsASeq(l1.steps) /\ Kinds(cfg, l1.steps) \in DetectorKinds
    BY <1>5, Zenon DEF Trunk, Rooted, Chain
  <2>2. QED BY <1>7, <2>1, KindsAre
<1>10. /\ DOMAIN ChildLayers(cfg) = 1..(n - 1)
       /\ \A j \in 1..(n - 1) : ChildLayers(cfg)[j] = cfg.layers[j + 1] /\ j + 1 \in 2..n
  BY <1>1, <1>3, ChildLayersAre
<1>11. Children = 1..(n - 1)
  BY <1>10 DEF Children, Plan
<1> HIDE DEF t
<1>12. ASSUME NEW c \in Children
       PROVE  /\ Wired(c, "Engine") = {Child(c).engine}
              /\ Wired(c, "Select") = IF Child(c).select = NoStep THEN {} ELSE {Child(c).select}
  <2> DEFINE l == ChildLayers(cfg)[c]
  <2>1. PICK br : Branching(cfg, l, br)
    BY <1>5, <1>10, <1>11, Zenon
  <2>2. LayerTyped(l)
    BY <1>2, <1>6, <1>10, <1>11, Zenon
  <2>3. Child(c).engine = EngineOf(l) /\ Child(c).select = SelectOf(cfg, l)
    BY <1>10, <1>11 DEF Child, Plan
  <2>4. \A kind : Wired(c, kind) = Between(cfg, t, l, kind)
    BY Zenon DEF Wired, Between, t
  <2> HIDE DEF l
  <2>5. t[Len(t)] = DetectorPost(cfg)
    BY <1>7, <1>8, Zenon
  <2>6. /\ Between(cfg, t, l, "Engine") = {EngineOf(l)}
        /\ Between(cfg, t, l, "Select") = IF SelectOf(cfg, l) = NoStep THEN {} ELSE {SelectOf(cfg, l)}
    BY <1>1, <1>8, <1>9, <2>1, <2>2, <2>5, BetweenIs
  <2>7. QED BY <2>3, <2>4, <2>6
<1> DEFINE k == n - 1
<1>13. k \in Nat /\ Children = 1..k /\ DOMAIN ChildLayers(cfg) = 1..k /\ Len(cfg.layers) = k + 1
  BY <1>2, <1>6, <1>10, <1>11
<1> HIDE DEF k
<1>14. QED BY <1>12, <1>13

-----------------------------------------------------------------------------
(* What stays as long as the batch in hand stays *)

Frozen == cfg' = cfg /\ batch' = batch /\ kept' = kept /\ takes' = takes

\* The crops and the rows wanted stay.
LEMMA CropsStay ==
  ASSUME Frozen
  PROVE  /\ Children' = Children /\ Slots' = Slots /\ ChildIds' = ChildIds
         /\ \A c : /\ Child(c)' = Child(c) /\ Pass(c)' = Pass(c) /\ CropsOf(c)' = CropsOf(c)
                   /\ RowsWanted(c)' = RowsWanted(c)
<1>1. Children' = Children /\ Slots' = Slots /\ ChildIds' = ChildIds /\ \A c : Child(c)' = Child(c)
  BY DEF Frozen, Children, Slots, ChildIds, Child
<1>2. \A s : SlotCrops(s)' = SlotCrops(s)
  BY DEF Frozen, SlotCrops
<1>3. HCrops' = HCrops
  <2> DEFINE u == [s \in Slots |-> SlotCrops(s)]
  <2>1. u' = u
    BY <1>1, <1>2
  <2>2. HCrops = FlattenSeq(u) /\ HCrops' = FlattenSeq(u')
    BY Zenon DEF HCrops
  <2> HIDE DEF u
  <2>3. QED BY <2>1, <2>2
<1>4. ASSUME NEW c PROVE Pass(c)' = Pass(c)
  <2> DEFINE Thru(i) == Passes(StepAt(cfg, Child(c).select), kept[HCrops[i].slot][HCrops[i].det],
                               HCrops[i].rect)
             u == [i \in DOMAIN HCrops |-> IF Thru(i) THEN <<i>> ELSE <<>>]
  <2>1. \A i : Thru(i)' <=> Thru(i)
    BY <1>1, <1>3 DEF Frozen
  <2>2. Pass(c) = (IF Child(c).select = NoStep THEN PassAll(c) ELSE FlattenSeq(u))
    BY Zenon DEF Pass
  <2>3. Pass(c)' = (IF Child(c)'.select = NoStep THEN PassAll(c)' ELSE FlattenSeq(u'))
    BY Zenon DEF Pass
  <2>4. PassAll(c)' = PassAll(c)
    BY <1>3 DEF PassAll
  <2> HIDE DEF Thru
  <2>5. u' = u
    BY <1>3, <2>1
  <2> HIDE DEF u
  <2>6. QED BY <1>1, <2>2, <2>3, <2>4, <2>5
<1>5. ASSUME NEW c PROVE CropsOf(c)' = CropsOf(c)
  BY <1>3, <1>4 DEF CropsOf
<1>6. ASSUME NEW c PROVE RowsWanted(c)' = RowsWanted(c)
  BY <1>1, <1>5 DEF RowsWanted, Frozen
<1>7. QED BY <1>1, <1>4, <1>5, <1>6

-----------------------------------------------------------------------------
(* What the invariant says of the state *)

\* The batch in hand, at any stage past Take.
LEMMA BatchFacts ==
  ASSUME BatchInv
  PROVE  /\ \E n \in 0..MaxSlots : Slots = 1..n /\ n \in Nat
         /\ \A s \in Slots : batch[s].scene \in Scenes /\ batch[s].live \in BOOLEAN
         /\ pc \notin {"take", "rejected"} => InHand
<1>1. PICK n \in 0..MaxSlots : batch \in [1..n -> [scene : Scenes, live : BOOLEAN]]
  BY Zenon DEF BatchInv
<1>2. n \in Nat /\ DOMAIN batch = 1..n
  BY <1>1
<1>3. \A s \in Slots : batch[s].scene \in Scenes /\ batch[s].live \in BOOLEAN
  BY <1>1 DEF Slots
<1>4. pc \notin {"take", "rejected"} => InHand
  BY <1>2, Zenon DEF BatchInv, InHand
<1>5. QED BY <1>2, <1>3, <1>4, Zenon DEF Slots

\* The children, and the buffers they have.
LEMMA ChildFacts ==
  ASSUME ConfigInv, pc # "rejected"
  PROVE  /\ \E n \in Nat : Children = 1..n /\ ChildIds = 1..Larger(1, n)
         /\ \A c \in Children : c \in ChildIds /\ c \in Nat /\ c # 0
         /\ \A c \in ChildIds : c \in Nat /\ c # 0 /\ (Children # {} => c \in Children)
         /\ 1 \in ChildIds /\ (Children # {} => 1 \in Children)
         /\ \A c \in Children : c + 1 \notin Children => \A d \in Children : d <= c
         /\ cfg \in Configs /\ Verdict(cfg) = "ok"
<1>1. cfg \in Configs /\ Verdict(cfg) = "ok"
  BY DEF ConfigInv
<1>2. PICK n \in Nat : Children = 1..n /\ Len(cfg.layers) = n + 1
  BY <1>1, PlanFollowsWires
<1>3. ChildIds = 1..Larger(1, n)
  <2>1. Len(cfg.layers) - 1 = n
    BY <1>2
  <2>2. QED BY <2>1 DEF ChildIds
<1>4. Larger(1, n) \in Nat /\ n <= Larger(1, n) /\ 1 <= Larger(1, n) /\ (n # 0 => Larger(1, n) = n)
  BY DEF Larger
<1> DEFINE m == Larger(1, n)
<1>5. m \in Nat /\ n <= m /\ 1 <= m /\ (n # 0 => m = n) /\ ChildIds = 1..m
  BY <1>3, <1>4
<1> HIDE DEF m
<1>6. /\ \A c \in Children : c \in ChildIds /\ c \in Nat /\ c # 0
      /\ \A c \in ChildIds : c \in Nat /\ c # 0 /\ (Children # {} => c \in Children)
      /\ 1 \in ChildIds /\ (Children # {} => 1 \in Children)
  BY <1>2, <1>5
<1>7. \A c \in Children : c + 1 \notin Children => \A d \in Children : d <= c
  BY <1>2
<1>8. QED BY <1>1, <1>2, <1>3, <1>6, <1>7

\* How many crops a child gets.
LEMMA PassFacts ==
  ASSUME InHand, NEW c
  PROVE  Len(Pass(c)) \in Nat
<1>1. IsASeq(CropsOf(c)) /\ Len(Pass(c)) = Len(CropsOf(c))
  BY ChildCrops DEF HoldsRouted
<1>2. QED BY <1>1 DEF IsASeq

\* No stream has anything on it outside the stages that read the crops.
LEMMA StreamsEmpty ==
  ASSUME StreamsInv, pc \notin {"enqueue", "join", "serialWait"}
  PROVE  \A c \in ChildIds : stream[c] = <<>>
BY DEF StreamsInv, StreamRight, OnStream

\* They stay so.
LEMMA StreamsStayEmpty ==
  ASSUME \A c \in ChildIds : stream[c] = <<>>, cfg' = cfg, stream' = stream,
         pc' \notin {"enqueue", "join", "serialWait"}
  PROVE  StreamsInv'
<1>1. ChildIds' = ChildIds
  BY DEF ChildIds
<1>2. \A c \in ChildIds : ~OnStream(c)' /\ stream'[c] = <<>>
  BY DEF OnStream
<1>3. QED BY <1>1, <1>2 DEF StreamsInv, StreamRight

\* The buffers of the children stay.
LEMMA BuffersStay ==
  ASSUME BuffersInv, cfg' = cfg, childVars' = childVars
  PROVE  BuffersInv'
BY DEF BuffersInv, childVars, ChildIds

\* The configuration stays.
LEMMA ConfigStays ==
  ASSUME ConfigInv, pc # "rejected", cfg' = cfg, verdict' = verdict,
         pc' \in {"take", "tiles", "crops", "results", "enqueue", "join", "serial", "serialWait"}
  PROVE  ConfigInv'
BY DEF ConfigInv, AtChildren

-----------------------------------------------------------------------------
(* The start *)

\* Before the first batch nothing is queued and nothing is in hand.
LEMMA InitHolds == Init => CascadeInv
<1> SUFFICES ASSUME Init PROVE CascadeInv
  OBVIOUS
<1>0. MaxSlots \in Nat \ {0} /\ ReadBatch \in Nat \ {0}
  BY CascadeAssumption
<1>1. pc \in {"take", "rejected"} /\ ~AtChildren
  BY DEF Init, AtChildren
<1>2. ConfigInv
  BY DEF Init, ConfigInv, AtChildren
<1>3. BatchInv
  <2>1. 0 \in 0..MaxSlots /\ 1..0 = {}
    BY <1>0
  <2>2. batch \in [1..0 -> [scene : Scenes, live : BOOLEAN]]
    BY <2>1 DEF Init
  <2>3. QED BY <1>1, <2>1, <2>2 DEF Init, BatchInv
<1>4. TilesInv /\ PlaceInv /\ OutInv
  BY <1>1 DEF Init, TilesInv, PlaceInv, OutInv, AtChildren
<1>5. BuffersInv
  <2> DEFINE empty == [i \in 1..ReadBatch |-> None]
  <2>1. empty = [i \in 1..ReadBatch |-> empty[i]]
    OBVIOUS
  <2>2. \A c \in ChildIds : host[c] = empty /\ d_crops[c] = empty /\ output[c] = empty
    BY DEF Init, ReadSlots
  <2>3. DOMAIN empty = ReadSlots
    BY DEF ReadSlots
  <2> HIDE DEF empty
  <2>4. IsASeq(empty) /\ Len(empty) = ReadBatch
    BY <1>0, <2>1, ListIsASeq, Zenon
  <2>5. DOMAIN stream = ChildIds /\ DOMAIN d_crops = ChildIds
        /\ DOMAIN output = ChildIds /\ DOMAIN host = ChildIds
    BY DEF Init
  <2>6. ReadBatch <= ReadBatch
    BY <1>0
  <2>7. QED BY <2>2, <2>3, <2>4, <2>5, <2>6, Zenon DEF BuffersInv
<1>6. StreamsInv
  BY <1>1 DEF Init, StreamsInv, StreamRight, OnStream
<1>7. QED BY <1>2, <1>3, <1>4, <1>5, <1>6 DEF CascadeInv

-----------------------------------------------------------------------------
(* The detector *)

\* A batch taken: its frames are copied to the ring before anything else is done with it.
LEMMA TakeBatchKeeps ==
  ASSUME CascadeInv, TakeBatch
  PROVE  CascadeInv'
<1>0. PICK n \in 1..MaxSlots :
        \E b \in [1..n -> [scene : Scenes, live : BOOLEAN]] :
         /\ batch' = b
         /\ ring' = [s \in DOMAIN ring |->
                       IF s \in 1..n /\ b[s].live THEN takes + 1 ELSE ring[s]]
         /\ kept' = [s \in 1..n |-> WholeFrame(b[s].scene)]
         /\ todo' = Groups(b)
         /\ merge' = [s \in 1..n |->
                        IF b[s].live /\ Plan(cfg).full THEN WholeFrame(b[s].scene) ELSE <<>>]
         /\ pc' = IF Groups(b) = <<>> THEN "crops" ELSE "tiles"
  BY Zenon DEF TakeBatch
<1>1. PICK b \in [1..n -> [scene : Scenes, live : BOOLEAN]] :
         /\ batch' = b
         /\ ring' = [s \in DOMAIN ring |->
                       IF s \in 1..n /\ b[s].live THEN takes + 1 ELSE ring[s]]
         /\ kept' = [s \in 1..n |-> WholeFrame(b[s].scene)]
         /\ todo' = Groups(b)
         /\ merge' = [s \in 1..n |->
                        IF b[s].live /\ Plan(cfg).full THEN WholeFrame(b[s].scene) ELSE <<>>]
         /\ pc' = IF Groups(b) = <<>> THEN "crops" ELSE "tiles"
  BY <1>0, Zenon
<1>2. pc = "take" /\ takes' = takes + 1 /\ off' = 0
      /\ cfg' = cfg /\ verdict' = verdict /\ childVars' = childVars /\ stream' = stream
  BY DEF TakeBatch, childVars
<1>3. n \in Nat /\ n \in 0..MaxSlots /\ DOMAIN b = 1..n /\ Slots' = 1..n
  BY <1>1, CascadeAssumption DEF Slots
<1>4. \A s \in 1..n : b[s].scene \in Scenes /\ b[s].live \in BOOLEAN
  OBVIOUS
<1>5. \A s \in 1..n : IsASeq(WholeFrame(b[s].scene))
  BY <1>4, WholeFrameIsASeq, Zenon
<1>6. ConfigInv'
  BY <1>1, <1>2, ConfigStays DEF CascadeInv
<1>7. BatchInv'
  <2>1. DOMAIN ring = 1..MaxSlots
    BY DEF CascadeInv, BatchInv
  <2>2. DOMAIN ring' = 1..MaxSlots /\ DOMAIN kept' = 1..n
    BY <1>1, <2>1
  <2>3. \A s \in 1..n : s \in DOMAIN ring
    BY <2>1, CascadeAssumption
  <2>4. \A s \in 1..n : b[s].live => ring'[s] = takes'
    BY <1>1, <1>2, <2>3
  <2>5. \A s \in 1..n : IsASeq(kept'[s])
    BY <1>1, <1>5
  <2>6. batch' \in [1..n -> [scene : Scenes, live : BOOLEAN]]
    BY <1>1
  <2>7. QED BY <1>1, <1>3, <2>2, <2>4, <2>5, <2>6, Zenon DEF BatchInv
<1>8. TilesInv'
  <2> SUFFICES ASSUME pc' = "tiles" PROVE TilesInv'
    BY DEF TilesInv
  <2>1. Groups(b) # <<>>
    BY <1>1
  <2>2. /\ IsASeq(Groups(b)) /\ (Len(Groups(b)) = 0 => Groups(b) = <<>>)
        /\ \A g \in 1..Len(Groups(b)) :
              IsASeq(Groups(b)[g]) /\ \A i \in 1..Len(Groups(b)[g]) : Groups(b)[g][i] \in 1..n
    BY <1>3, GroupsAre
  <2>3. DOMAIN merge' = 1..n
    BY <1>1
  <2>4. \A s \in 1..n : IsASeq(merge'[s])
    <3>1. IsASeq(<<>>)
      BY DEF IsASeq
    <3>2. QED BY <1>1, <1>5, <3>1
  <2>5. QED BY <1>1, <1>3, <2>1, <2>2, <2>3, <2>4, Zenon DEF TilesInv
<1>9. PlaceInv' /\ OutInv'
  BY <1>1, <1>2 DEF PlaceInv, OutInv, AtChildren
<1>10. BuffersInv'
  BY <1>2, BuffersStay DEF CascadeInv
<1>11. StreamsInv'
  <2>1. \A c \in ChildIds : stream[c] = <<>>
    BY <1>2, StreamsEmpty DEF CascadeInv
  <2>2. QED BY <1>1, <1>2, <2>1, StreamsStayEmpty
<1>12. QED BY <1>6, <1>7, <1>8, <1>9, <1>10, <1>11 DEF CascadeInv

\* The tiles of a group of slots are tiles of those slots.
LEMMA JobsFacts ==
  ASSUME BatchInv, NEW group, IsASeq(group), \A i \in 1..Len(group) : group[i] \in Slots
  PROVE  IsASeq(Jobs(group)) /\ \A t \in 1..Len(Jobs(group)) : Jobs(group)[t].slot \in Slots
<1> DEFINE ss == [i \in DOMAIN group |-> JobsOf(group[i])]
           n == Len(group)
<1>1. DOMAIN group = 1..n /\ n \in Nat
  BY IsASeqOver
<1>2. ss = [i \in 1..n |-> ss[i]] /\ \A i \in 1..n : ss[i] = JobsOf(group[i])
  BY <1>1
<1>3. Jobs(group) = FlattenSeq(ss)
  BY Zenon DEF Jobs
<1> HIDE DEF ss
<1>4. IsASeq(ss) /\ Len(ss) = n
  BY <1>1, <1>2, ListIsASeq, Zenon
<1>5. ASSUME NEW s \in Slots
      PROVE  IsASeq(JobsOf(s)) /\ \A t \in 1..Len(JobsOf(s)) : JobsOf(s)[t].slot = s
  <2> DEFINE grid == Grid(batch[s].scene)
             q == JobsOf(s)
  <2>1. IsASeq(grid)
    <3>1. batch[s].scene \in Scenes
      BY BatchFacts
    <3>2. QED BY <3>1, GridIsASeq, Zenon
  <2>2. DOMAIN grid = 1..Len(grid) /\ Len(grid) \in Nat
    BY <2>1, IsASeqOver
  <2>3. q = [t \in 1..Len(grid) |-> [slot |-> s, tile |-> grid[t]]]
    BY <2>2, Zenon DEF JobsOf
  <2> HIDE DEF q, grid
  <2>4. q = [t \in 1..Len(grid) |-> q[t]] /\ \A t \in 1..Len(grid) : q[t].slot = s
    BY <2>3
  <2>5. IsASeq(q) /\ Len(q) = Len(grid)
    BY <2>2, <2>4, ListIsASeq, Zenon
  <2>6. QED BY <2>4, <2>5 DEF q
<1>6. HoldsTheFirst(Jobs(group), ss, n)
  <2>1. IsSeqs(ss)
    <3>1. ASSUME NEW i \in 1..n PROVE IsASeq(ss[i])
      <4>1. ss[i] = JobsOf(group[i]) /\ IsASeq(JobsOf(group[i]))
        BY <1>2, <1>5
      <4>2. QED BY <4>1, Zenon
    <3>2. QED BY <1>4, <3>1, Zenon DEF IsSeqs
  <2>2. QED BY <1>3, <1>4, <2>1, FlattenFacts, Zenon
<1>7. IsASeq(Jobs(group))
  BY <1>6, Zenon DEF HoldsTheFirst
<1>8. ASSUME NEW t \in 1..Len(Jobs(group)) PROVE Jobs(group)[t].slot \in Slots
  <2>1. PICK i \in 1..n : \E k \in 1..Len(ss[i]) : Jobs(group)[t] = ss[i][k]
    BY <1>6, Zenon DEF HoldsTheFirst
  <2>2. PICK k \in 1..Len(JobsOf(group[i])) : Jobs(group)[t] = JobsOf(group[i])[k]
    BY <1>2, <2>1, Zenon
  <2>3. JobsOf(group[i])[k].slot = group[i] /\ group[i] \in Slots
    BY <1>5, <2>2, Zenon
  <2>4. QED BY <2>2, <2>3, Zenon
<1>9. QED BY <1>7, <1>8, Zenon

\* What is on a sequence's first place.
LEMMA HeadOfTodo ==
  ASSUME NEW s, IsASeq(s), Len(s) # 0
  PROVE  Head(s) = s[1] /\ 1 \in 1..Len(s)
<1>1. Len(s) \in Nat
  BY DEF IsASeq
<1>2. QED BY <1>1, HeadIs

\* A chunk of tiles: every row goes to a slot of the batch.
LEMMA InferTilesKeeps ==
  ASSUME CascadeInv, InferTiles
  PROVE  CascadeInv'
<1> DEFINE jobs == Jobs(Head(todo))
           n == Chunk(Len(jobs), MaxSlots)
           Row(t) == Nms(SetToSeq(TilePass(batch[jobs[off + t].slot].scene, jobs[off + t].tile)),
                         IouThresh)
           rows(s) == [t \in 1..n |-> IF SlotOfRow(jobs, t) = s THEN Row(t) ELSE <<>>]
<1>1. /\ pc = "tiles" /\ pc' = pc /\ off < Len(jobs) /\ off' = off + n
      /\ cfg' = cfg /\ verdict' = verdict /\ takes' = takes /\ batch' = batch /\ ring' = ring
      /\ kept' = kept /\ todo' = todo /\ childVars' = childVars /\ stream' = stream
  BY DEF InferTiles, childVars
<1>2. merge' = [s \in Slots |-> merge[s] \o FlattenSeq(rows(s))]
  BY Zenon DEF InferTiles
<1>3. /\ IsASeq(todo) /\ Len(todo) # 0
      /\ \A g \in 1..Len(todo) : IsASeq(todo[g]) /\ \A i \in 1..Len(todo[g]) : todo[g][i] \in Slots
      /\ DOMAIN merge = Slots /\ \A s \in Slots : IsASeq(merge[s])
  BY <1>1, Zenon DEF CascadeInv, TilesInv
<1>4. IsASeq(Head(todo)) /\ \A i \in 1..Len(Head(todo)) : Head(todo)[i] \in Slots
  BY <1>3, HeadOfTodo
<1>5. IsASeq(jobs) /\ \A t \in 1..Len(jobs) : jobs[t].slot \in Slots
  BY <1>4, JobsFacts DEF CascadeInv
<1>6. off \in Nat /\ Len(jobs) \in Nat /\ MaxSlots \in Nat
  BY <1>5, CascadeAssumption DEF CascadeInv, PlaceInv, IsASeq
<1> HIDE DEF jobs
<1>7. n \in Nat /\ \A t \in 1..n : off + t \in 1..Len(jobs)
  BY <1>1, <1>6 DEF Chunk, Smaller
<1> HIDE DEF n
<1>8. ASSUME NEW s PROVE IsASeq(FlattenSeq(rows(s)))
  <2> DEFINE q == rows(s)
  <2>1. q = [t \in 1..n |-> q[t]] /\ \A t \in 1..n : q[t] = IF SlotOfRow(jobs, t) = s THEN Row(t) ELSE <<>>
    <3> HIDE DEF Row
    <3>1. QED OBVIOUS
  <2>2. ASSUME NEW t \in 1..n PROVE IsASeq(Row(t))
    <3> DEFINE job == jobs[off + t]
    <3>1. batch[job.slot].scene \in Scenes
      BY <1>5, <1>7, BatchFacts DEF CascadeInv
    <3>2. IsFiniteSet(TilePass(batch[job.slot].scene, job.tile))
      BY <3>1, PassesAreFinite
    <3> HIDE DEF job
    <3>3. IsASeq(SetToSeq(TilePass(batch[job.slot].scene, job.tile)))
      BY <3>2, SetToSeqIsASeq, Zenon
    <3>4. IsASeq(Nms(SetToSeq(TilePass(batch[job.slot].scene, job.tile)), IouThresh))
      BY <3>3, NmsIsASeq, Zenon
    <3>5. QED BY <3>4 DEF job
  <2>3. IsASeq(<<>>)
    BY DEF IsASeq
  <2> HIDE DEF Row
  <2>4. \A t \in 1..n : IsASeq(q[t])
    BY <2>1, <2>2, <2>3
  <2> HIDE DEF q
  <2>5. IsASeq(q) /\ Len(q) = n
    BY <1>7, <2>1, ListIsASeq, Zenon
  <2>6. HoldsTheFirst(FlattenSeq(q), q, Len(q))
    <3>1. IsSeqs(q)
      BY <2>4, <2>5, Zenon DEF IsSeqs
    <3>2. QED BY <3>1, FlattenFacts, Zenon
  <2>7. QED BY <2>6, Zenon DEF HoldsTheFirst, q
<1>9. Slots' = Slots
  BY <1>1 DEF Slots
<1>10. TilesInv'
  <2> HIDE DEF rows
  <2>1. DOMAIN merge' = Slots /\ \A s \in Slots : merge'[s] = merge[s] \o FlattenSeq(rows(s))
    BY <1>2
  <2>2. ASSUME NEW s \in Slots PROVE IsASeq(merge'[s])
    <3>1. IsASeq(merge[s]) /\ IsASeq(FlattenSeq(rows(s)))
      BY <1>3, <1>8
    <3>2. Joined(merge[s] \o FlattenSeq(rows(s)), merge[s], FlattenSeq(rows(s)))
      BY <3>1, ConcatJoins, Zenon
    <3>3. QED BY <2>1, <3>2, Zenon DEF Joined
  <2>3. QED BY <1>1, <1>3, <1>9, <2>1, <2>2, Zenon DEF TilesInv
<1>11. ConfigInv'
  BY <1>1, ConfigStays DEF CascadeInv
<1>12. BatchInv'
  BY <1>1 DEF CascadeInv, BatchInv, Slots
<1>13. PlaceInv' /\ OutInv'
  BY <1>1, <1>6, <1>7 DEF PlaceInv, OutInv, AtChildren
<1>14. BuffersInv'
  BY <1>1, BuffersStay DEF CascadeInv
<1>15. StreamsInv'
  <2>1. \A c \in ChildIds : stream[c] = <<>>
    BY <1>1, StreamsEmpty DEF CascadeInv
  <2>2. QED BY <1>1, <2>1, StreamsStayEmpty
<1>16. QED BY <1>10, <1>11, <1>12, <1>13, <1>14, <1>15 DEF CascadeInv

\* The tiles of a group merged: each slot has its detections.
LEMMA MergeTilesKeeps ==
  ASSUME CascadeInv, MergeTiles
  PROVE  CascadeInv'
<1>1. /\ pc = "tiles" /\ todo' = Tail(todo) /\ off' = 0
      /\ pc' = (IF Tail(todo) = <<>> THEN "crops" ELSE "tiles")
      /\ cfg' = cfg /\ verdict' = verdict /\ takes' = takes /\ batch' = batch /\ ring' = ring
      /\ merge' = merge /\ childVars' = childVars /\ stream' = stream
  BY DEF MergeTiles, childVars
<1>2. kept' = [s \in Slots |-> IF \E i \in DOMAIN Head(todo) : Head(todo)[i] = s
                               THEN Nms(merge[s], MergeIou) ELSE kept[s]]
  BY Zenon DEF MergeTiles
<1>3. /\ IsASeq(todo) /\ Len(todo) # 0
      /\ \A g \in 1..Len(todo) : IsASeq(todo[g]) /\ \A i \in 1..Len(todo[g]) : todo[g][i] \in Slots
      /\ DOMAIN merge = Slots /\ \A s \in Slots : IsASeq(merge[s])
  BY <1>1, Zenon DEF CascadeInv, TilesInv
<1>4. Slots' = Slots
  BY <1>1 DEF Slots
<1>5. ConfigInv'
  BY <1>1, ConfigStays DEF CascadeInv
<1>6. BatchInv'
  <2>1. DOMAIN kept' = Slots
    BY <1>2
  <2>2. \A s \in Slots : IsASeq(kept'[s])
    <3>1. \A s \in Slots : IsASeq(Nms(merge[s], MergeIou))
      BY <1>3, NmsIsASeq, Zenon
    <3>2. \A s \in Slots : IsASeq(kept[s])
      BY <1>1 DEF CascadeInv, BatchInv
    <3>3. \A s \in Slots : kept'[s] \in {Nms(merge[s], MergeIou), kept[s]}
      BY <1>2
    <3>4. QED BY <3>1, <3>2, <3>3
  <2>3. pc \notin {"take", "rejected"}
    BY <1>1
  <2>4. /\ \E n \in 0..MaxSlots : batch' \in [1..n -> [scene : Scenes, live : BOOLEAN]]
        /\ DOMAIN ring' = 1..MaxSlots /\ \A s \in Slots : batch'[s].live => ring'[s] = takes'
    BY <1>1, <2>3 DEF CascadeInv, BatchInv
  <2>5. QED BY <1>4, <2>1, <2>2, <2>4, Zenon DEF BatchInv
<1>7. TilesInv'
  <2> SUFFICES ASSUME pc' = "tiles" PROVE TilesInv'
    BY DEF TilesInv
  <2>1. Tail(todo) # <<>>
    BY <1>1
  <2>2. IsASeq(Tail(todo)) /\ Len(Tail(todo)) = Len(todo) - 1
        /\ \A i \in 1..(Len(todo) - 1) : Tail(todo)[i] = todo[i + 1]
    BY <1>3, TailFacts
  <2>3. Len(Tail(todo)) # 0
    BY <2>1, <2>2 DEF IsASeq
  <2>4. \A g \in 1..Len(Tail(todo)) : Tail(todo)[g] = todo[g + 1] /\ g + 1 \in 1..Len(todo)
    <3>1. Len(todo) \in Nat
      BY <1>3 DEF IsASeq
    <3>2. QED BY <2>2, <3>1
  <2>5. \A g \in 1..Len(Tail(todo)) :
          IsASeq(Tail(todo)[g]) /\ \A i \in 1..Len(Tail(todo)[g]) : Tail(todo)[g][i] \in Slots
    BY <1>3, <2>4
  <2>6. QED BY <1>1, <1>3, <1>4, <2>2, <2>3, <2>5, Zenon DEF TilesInv
<1>8. PlaceInv' /\ OutInv'
  BY <1>1 DEF PlaceInv, OutInv, AtChildren
<1>9. BuffersInv'
  BY <1>1, BuffersStay DEF CascadeInv
<1>10. StreamsInv'
  <2>1. \A c \in ChildIds : stream[c] = <<>>
    BY <1>1, StreamsEmpty DEF CascadeInv
  <2>2. QED BY <1>1, <2>1, StreamsStayEmpty
<1>11. QED BY <1>5, <1>6, <1>7, <1>8, <1>9, <1>10 DEF CascadeInv

-----------------------------------------------------------------------------
(* The crops *)

\* The outputs laid out, one place for every detection.
LEMMA MakeCropsKeeps ==
  ASSUME CascadeInv, MakeCrops
  PROVE  CascadeInv'
<1>1. /\ pc = "crops" /\ pc' = NextStage(Children) /\ ci' = 1 /\ off' = 0
      /\ cfg' = cfg /\ verdict' = verdict /\ takes' = takes /\ batch' = batch /\ ring' = ring
      /\ kept' = kept /\ childVars' = childVars /\ stream' = stream
  BY DEF MakeCrops, childVars
<1>2. out' = [c \in Children |-> [s \in Slots |-> [k \in DOMAIN kept[s] |-> None]]]
  BY Zenon DEF MakeCrops
<1>3. pc' \in {"results", "serial", "enqueue"} /\ (pc' # "results" => Children # {})
      /\ (pc' = "results" => Children = {})
  BY <1>1 DEF NextStage
<1>4. /\ Children' = Children /\ Slots' = Slots /\ ChildIds' = ChildIds
      /\ \A c : Pass(c)' = Pass(c) /\ CropsOf(c)' = CropsOf(c) /\ RowsWanted(c)' = RowsWanted(c)
  BY <1>1, CropsStay DEF Frozen
<1>5. ConfigInv /\ pc # "rejected" /\ InHand
  BY <1>1, BatchFacts DEF CascadeInv
<1>6. /\ \A c \in ChildIds : c \in Nat /\ c # 0
      /\ \A c \in Children : c \in Nat /\ c # 0
      /\ Children # {} => 1 \in Children
  BY <1>5, ChildFacts
<1>7. ConfigInv'
  BY <1>1, <1>3, <1>5, ConfigStays
<1>8. BatchInv'
  BY <1>1, <1>5 DEF CascadeInv, BatchInv, Slots
<1>9. TilesInv' /\ PlaceInv'
  <2>1. Len(Pass(1)) \in Nat
    BY <1>5, PassFacts
  <2>2. Len(Pass(1)') \in Nat
    BY <1>4, <2>1
  <2>3. QED BY <1>1, <1>3, <1>4, <1>6, <2>1 DEF TilesInv, PlaceInv, AtChildren
<1>10. BuffersInv'
  BY <1>1, BuffersStay DEF CascadeInv
<1>11. StreamsInv'
  <2>1. \A c \in ChildIds : stream[c] = <<>>
    BY <1>1, StreamsEmpty DEF CascadeInv
  <2>2. \A c \in ChildIds : ~(c < 1)
    BY <1>6
  <2>3. \A c \in ChildIds : ~OnStream(c)'
    BY <1>1, <1>3, <2>2 DEF OnStream
  <2>4. QED BY <1>1, <1>4, <2>1, <2>3 DEF StreamsInv, StreamRight
<1>12. OutInv'
  <2>1. ASSUME NEW c \in Children PROVE OutRight(c)'
    <3>1. RowsDecoded(c)' = 0
      <4>1. pc' # "results" /\ ~(c < 1)
        BY <1>3, <1>6
      <4>2. QED BY <1>1, <1>3, <4>1 DEF RowsDecoded
    <3>2. out'[c] = [s \in Slots |-> [k \in DOMAIN kept[s] |-> None]]
      BY <1>2
    <3>3. DOMAIN out'[c] = Slots /\ \A s \in Slots : DOMAIN out'[c][s] = DOMAIN kept[s]
      BY <3>2
    <3>4. \A s \in Slots : \A k \in DOMAIN kept[s] : out'[c][s][k] = None
      BY <3>2
    <3>5. \A p : p \notin 1..0
      OBVIOUS
    <3>6. Filled(out'[c], CropsOf(c)', RowsWanted(c)', 0)
      BY <3>3, <3>4, <3>5, Zenon DEF Filled, FilledAt
    <3>7. QED BY <1>1, <1>4, <3>1, <3>3, <3>6 DEF OutRight
  <2>2. DOMAIN out' = Children
    BY <1>2
  <2>3. QED BY <1>4, <2>1, <2>2 DEF OutInv
<1>13. QED BY <1>7, <1>8, <1>9, <1>10, <1>11, <1>12 DEF CascadeInv

-----------------------------------------------------------------------------
(* A child's stream *)

\* A host buffer that was grown holds what it held before, and all rows have room.
LEMMA GrownFacts ==
  ASSUME NEW c, IsASeq(host[c]), Len(Pass(c)) \in Nat
  PROVE  IsASeq(Grown(c)) /\ Len(host[c]) <= Len(Grown(c)) /\ Len(Pass(c)) <= Len(Grown(c))
<1> DEFINE n == Larger(0, Len(Pass(c)) - Len(host[c]))
           t == [i \in 1..n |-> None]
<1>1. Len(host[c]) \in Nat
  BY DEF IsASeq
<1>2. n \in Nat /\ Len(Pass(c)) <= Len(host[c]) + n
  <2>1. \A a, b \in Nat : Larger(0, a - b) \in Nat /\ a <= b + Larger(0, a - b)
    BY DEF Larger
  <2> HIDE DEF n
  <2>2. QED BY <1>1, <2>1, Zenon DEF n
<1>3. Grown(c) = host[c] \o t
  BY Zenon DEF Grown
<1> HIDE DEF n
<1>4. t = [i \in 1..n |-> t[i]]
  OBVIOUS
<1> HIDE DEF t
<1>5. IsASeq(t) /\ Len(t) = n
  BY <1>2, <1>4, ListIsASeq, Zenon
<1>6. Joined(Grown(c), host[c], t)
  BY <1>3, <1>5, ConcatJoins
<1>7. IsASeq(Grown(c)) /\ Len(Grown(c)) = Len(host[c]) + n
  BY <1>5, <1>6 DEF Joined
<1>8. QED BY <1>1, <1>2, <1>7

\* The chunks of a child's crops, on an empty stream.
LEMMA EnqueuedAre ==
  ASSUME NEW c, NEW T \in Nat, T = Len(Pass(c)), NEW chunks, chunks = (T + ReadBatch - 1) \div ReadBatch,
         NEW st, st = <<>> \o FlattenSeq([j \in 1..chunks |-> ChunkAt(c, j)])
  PROVE  \A dc, ou, ho, crops, rows : Queued(st, dc, ou, ho, crops, rows, 0, T)
<1> DEFINE ss == [j \in 1..chunks |-> ChunkAt(c, j)]
           u == FlattenSeq(ss)
<1>1. chunks = ChunksOf(T) /\ chunks \in Nat
  BY ChunksFacts DEF ChunksOf
<1>2. ss = [j \in 1..chunks |-> ss[j]]
  OBVIOUS
<1>3. ASSUME NEW j \in 1..chunks
      PROVE  ss[j] = OpsOf(0, T, j) /\ IsASeq(ss[j]) /\ Len(ss[j]) = 3
  <2>1. Behind(j) \in Nat
    BY <1>1, BehindFacts
  <2>2. 0 + Behind(j) = Behind(j)
    BY <2>1
  <2>3. ss[j] = ChunkAt(c, j)
    OBVIOUS
  <2> HIDE DEF ss
  <2>4. ChunkAt(c, j) = ChunkOps(Behind(j), Smaller(Len(Pass(c)) - Behind(j), ReadBatch), Behind(j))
    BY Zenon DEF ChunkAt, Behind
  <2>5. OpsOf(0, T, j) = ChunkOps(Behind(j), Smaller(T - Behind(j), ReadBatch), Behind(j))
    BY <2>2, Zenon DEF OpsOf, RowsIn
  <2>6. ss[j] = OpsOf(0, T, j)
    BY <2>3, <2>4, <2>5, Zenon
  <2>7. \A a, b, d : IsASeq(<<a, b, d>>) /\ Len(<<a, b, d>>) = 3
    BY DEF IsASeq
  <2>8. IsASeq(OpsOf(0, T, j)) /\ Len(OpsOf(0, T, j)) = 3
    BY <2>7, Zenon DEF OpsOf, ChunkOps
  <2>9. QED BY <2>6, <2>8
<1> HIDE DEF ss
<1>4. IsASeq(ss) /\ Len(ss) = chunks
  BY <1>1, <1>2, ListIsASeq, Zenon
<1>5. /\ IsASeq(u) /\ Len(u) = 3 * chunks
      /\ \A i \in 1..chunks : \A q \in 1..3 : u[3 * (i - 1) + q] = ss[i][q]
  BY <1>3, <1>4, Triples
<1> HIDE DEF u
<1>6. IsASeq(<<>>) /\ Len(<<>>) = 0
  BY DEF IsASeq
<1>7. Joined(st, <<>>, u)
  <2>1. st = <<>> \o u
    BY Zenon DEF u, ss
  <2>2. Joined(<<>> \o u, <<>>, u)
    BY <1>5, <1>6, ConcatJoins, Zenon
  <2>3. QED BY <2>1, <2>2, Zenon
<1>8. IsASeq(st) /\ Len(st) = 3 * chunks /\ \A i \in 1..(3 * chunks) : st[i] = u[i]
  <2>1. IsASeq(st) /\ Len(st) = Len(<<>>) + Len(u) /\ \A i \in 1..Len(u) : st[Len(<<>>) + i] = u[i]
    BY <1>7, Zenon DEF Joined
  <2>2. 3 * chunks \in Nat
    BY <1>1
  <2> DEFINE m == 3 * chunks
  <2>3. Len(u) = m /\ m \in Nat
    BY <1>5, <2>2
  <2> HIDE DEF m
  <2>4. IsASeq(st) /\ Len(st) = m /\ \A i \in 1..m : st[i] = u[i]
    BY <1>6, <2>1, <2>3
  <2>5. QED BY <2>4 DEF m
<1>9. ASSUME NEW i \in 1..ChunksOf(T), NEW q \in 1..3 PROVE st[3 * (i - 1) + q] = OpsOf(0, T, i)[q]
  <2>1. i \in 1..chunks /\ 3 * (i - 1) + q \in 1..(3 * chunks)
    BY <1>1
  <2>2. st[3 * (i - 1) + q] = u[3 * (i - 1) + q]
    BY <1>8, <2>1, Zenon
  <2>3. QED BY <1>3, <1>5, <2>1, <2>2, Zenon
<1>10. Len(st) = 3 * ChunksOf(T)
  BY <1>1, <1>8
<1>11. QED BY <1>8, <1>9, <1>10, AllQueued, Zenon

\* What stays, with the batch, of the state of the children.
LEMMA StreamStays ==
  ASSUME Frozen, NEW c, StreamRight(c), OnStream(c)' <=> OnStream(c),
         OnStream(c) => FirstRow' = FirstRow /\ RowsDue(c)' = RowsDue(c),
         stream'[c] = stream[c], d_crops'[c] = d_crops[c], output'[c] = output[c],
         host'[c] = host[c]
  PROVE  StreamRight(c)'
<1>1. CropsOf(c)' = CropsOf(c) /\ RowsWanted(c)' = RowsWanted(c)
  BY CropsStay
<1>2. QED BY <1>1 DEF StreamRight

\* The outputs of a child stay.
LEMMA OutputsStay ==
  ASSUME Frozen, NEW c, OutRight(c), out'[c] = out[c], RowsDecoded(c)' = RowsDecoded(c)
  PROVE  OutRight(c)'
<1>1. CropsOf(c)' = CropsOf(c) /\ RowsWanted(c)' = RowsWanted(c) /\ Slots' = Slots
  BY CropsStay
<1>2. kept' = kept
  BY DEF Frozen
<1>3. QED BY <1>1, <1>2 DEF OutRight

\* So do the batch and the configuration.
LEMMA BatchStays ==
  ASSUME Frozen, BatchInv, pc \notin {"take", "rejected"}, ring' = ring
  PROVE  BatchInv'
BY DEF BatchInv, Frozen, Slots

\* A child's chunks queued on its own stream, the children before it being under way.
LEMMA EnqueueChildKeeps ==
  ASSUME CascadeInv, EnqueueChild
  PROVE  CascadeInv'
<1> DEFINE T == Len(Pass(ci))
           chunks == (T + ReadBatch - 1) \div ReadBatch
           tail == FlattenSeq([j \in 1..chunks |-> ChunkAt(ci, j)])
<1>1. /\ pc = "enqueue" /\ off' = off /\ Frozen /\ verdict' = verdict /\ ring' = ring
      /\ d_crops' = d_crops /\ output' = output /\ out' = out
      /\ host' = [host EXCEPT ![ci] = Grown(ci)]
      /\ IF ci + 1 \in Children THEN ci' = ci + 1 /\ pc' = pc ELSE ci' = 1 /\ pc' = "join"
  BY DEF EnqueueChild, Frozen
<1>2. stream' = [stream EXCEPT ![ci] = @ \o tail]
  BY Zenon DEF EnqueueChild
<1>3. ConfigInv /\ BatchInv /\ PlaceInv /\ BuffersInv /\ StreamsInv /\ OutInv
      /\ InHand /\ pc # "rejected" /\ AtChildren
  BY <1>1, BatchFacts DEF CascadeInv, AtChildren
<1>4. /\ Children' = Children /\ Slots' = Slots /\ ChildIds' = ChildIds
      /\ \A c : Pass(c)' = Pass(c) /\ CropsOf(c)' = CropsOf(c) /\ RowsWanted(c)' = RowsWanted(c)
  BY <1>1, CropsStay
<1>5. ci \in Children /\ off \in Nat
  BY <1>3 DEF PlaceInv
<1>6. /\ \A c \in Children : c \in ChildIds /\ c \in Nat /\ c # 0
      /\ \A c \in ChildIds : c \in Nat /\ c # 0 /\ c \in Children
      /\ 1 \in Children
      /\ \A c \in Children : c + 1 \notin Children => \A d \in Children : d <= c
  BY <1>3, <1>5, ChildFacts
<1>7. T \in Nat
  BY <1>3, PassFacts
<1>8. \A c \in ChildIds : OnStream(c)' <=> c <= ci
  BY <1>1, <1>5, <1>6 DEF OnStream
<1>9. pc' \in {"enqueue", "join"} /\ ci' \in Children
  BY <1>1, <1>6
<1>10. ConfigInv'
  BY <1>1, <1>3, <1>9, ConfigStays DEF Frozen
<1>11. BatchInv'
  BY <1>1, <1>3, BatchStays
<1>12. TilesInv' /\ PlaceInv'
  BY <1>1, <1>4, <1>5, <1>9 DEF TilesInv, PlaceInv
<1>13. DOMAIN host = ChildIds /\ DOMAIN stream = ChildIds /\ IsASeq(host[ci])
       /\ ReadBatch <= Len(host[ci])
  BY <1>3, <1>5, <1>6 DEF BuffersInv
<1>14. host'[ci] = Grown(ci) /\ \A c \in ChildIds : c # ci => host'[c] = host[c]
  BY <1>1, <1>5, <1>6, <1>13
<1>15. IsASeq(Grown(ci)) /\ Len(host[ci]) <= Len(Grown(ci)) /\ T <= Len(Grown(ci))
  BY <1>7, <1>13, GrownFacts
<1> HIDE DEF tail
<1>16. stream'[ci] = stream[ci] \o tail /\ \A c \in ChildIds : c # ci => stream'[c] = stream[c]
  BY <1>2, <1>5, <1>6, <1>13
<1>17. BuffersInv'
  <2>1. DOMAIN stream' = ChildIds /\ DOMAIN host' = ChildIds
    BY <1>1, <1>2, <1>13
  <2>2. ReadBatch <= Len(host'[ci])
    <3>1. Len(host[ci]) \in Nat /\ Len(Grown(ci)) \in Nat
      BY <1>13, <1>15 DEF IsASeq
    <3>2. QED BY <1>13, <1>14, <1>15, <3>1, CascadeAssumption
  <2>3. \A c \in ChildIds : IsASeq(host'[c]) /\ ReadBatch <= Len(host'[c])
    BY <1>3, <1>14, <1>15, <2>2 DEF BuffersInv
  <2>4. QED BY <1>1, <1>3, <1>4, <2>1, <2>3 DEF BuffersInv, ReadSlots
<1>18. StreamsInv'
  <2> PICK me : me = ci
    OBVIOUS
  <2>1. ASSUME NEW c \in ChildIds, c # me PROVE StreamRight(c)'
    <3>1. StreamRight(c)
      BY <1>3 DEF StreamsInv
    <3>2. OnStream(c)' <=> OnStream(c)
      BY <1>1, <1>5, <1>6, <1>8, <2>1 DEF OnStream
    <3>3. FirstRow' = FirstRow /\ RowsDue(c)' = RowsDue(c)
      BY <1>1, <1>4, <1>9 DEF FirstRow, RowsDue
    <3>4. stream'[c] = stream[c] /\ host'[c] = host[c]
      BY <1>14, <1>16, <2>1
    <3>5. QED BY <1>1, <3>1, <3>2, <3>3, <3>4, StreamStays
  <2>2. StreamRight(me)'
    <3>1. OnStream(me)' /\ me \in ChildIds
      BY <1>5, <1>6, <1>8
    <3>2. stream[me] = <<>>
      <4>1. ~OnStream(me)
        BY <1>1, <1>5, <1>6 DEF OnStream
      <4>2. QED BY <1>3, <3>1, <4>1 DEF StreamsInv, StreamRight
    <3>3. FirstRow' = 0 /\ RowsDue(me)' = T
      BY <1>4, <1>9 DEF RowsDue, FirstRow
    <3>4. stream'[me] = <<>> \o tail
      BY <1>16, <3>2
    <3>5. \A dc, ou, ho, crops, rows : Queued(stream'[me], dc, ou, ho, crops, rows, 0, T)
      BY <1>7, <3>4, EnqueuedAre DEF tail
    <3>6. T <= Len(host'[me])
      BY <1>14, <1>15
    <3>7. Queued(stream'[me], d_crops'[me], output'[me], host'[me], CropsOf(me)', RowsWanted(me)', 0, T)
      BY <3>5, Zenon
    <3>8. QED BY <3>1, <3>3, <3>6, <3>7 DEF StreamRight
  <2>3. QED BY <1>4, <2>1, <2>2 DEF StreamsInv
<1>19. OutInv'
  <2>1. \A c \in Children : RowsDecoded(c) = 0 /\ RowsDecoded(c)' = 0
    <3>1. \A c \in Children : ~(c < 1)
      BY <1>6
    <3>2. pc' = "join" => ci' = 1
      BY <1>1
    <3>3. \A c : RowsDecoded(c)' = IF pc' = "join" /\ c < ci' THEN Len(Pass(c))' ELSE 0
      BY <1>9 DEF RowsDecoded
    <3>4. \A c \in Children : RowsDecoded(c)' = 0
      BY <3>1, <3>2, <3>3
    <3>5. QED BY <1>1, <3>4 DEF RowsDecoded
  <2>2. DOMAIN out = Children /\ \A c \in Children : OutRight(c)
    BY <1>3 DEF OutInv
  <2>3. \A c \in Children : OutRight(c)'
    BY <1>1, <2>1, <2>2, OutputsStay
  <2>4. QED BY <1>1, <1>4, <2>2, <2>3 DEF OutInv
<1>20. QED BY <1>10, <1>11, <1>12, <1>17, <1>18, <1>19 DEF CascadeInv

-----------------------------------------------------------------------------
(* An operation done *)

\* What is due of a child on whose stream something may be.
LEMMA DueFacts ==
  ASSUME CascadeInv, NEW c \in ChildIds, OnStream(c)
  PROVE  /\ FirstRow \in Nat /\ RowsDue(c) \in Nat /\ FirstRow + RowsDue(c) <= Len(Pass(c))
         /\ Len(Pass(c)) \in Nat /\ c \in Children /\ InHand /\ AtChildren
         /\ pc = "serialWait" => c = ci /\ RowsDue(c) \in 1..ReadBatch
<1>1. pc \in {"enqueue", "join", "serialWait"} /\ AtChildren
  BY DEF OnStream, AtChildren
<1>2. ConfigInv /\ BatchInv /\ PlaceInv /\ InHand /\ pc # "rejected"
  BY <1>1, BatchFacts DEF CascadeInv
<1>3. Len(Pass(c)) \in Nat
  BY <1>2, PassFacts
<1>4. ci \in Children /\ off \in Nat
  BY <1>1, <1>2 DEF PlaceInv
<1>5. c \in Children
  BY <1>2, <1>4, ChildFacts
<1>6. pc = "serialWait" => c = ci /\ off < Len(Pass(c))
  BY <1>1, <1>2 DEF OnStream, PlaceInv
<1>7. pc = "serialWait" =>
        FirstRow = off /\ RowsDue(c) \in 1..ReadBatch /\ off + RowsDue(c) <= Len(Pass(c))
  <2>1. \A T \in Nat : off < T => Chunk(T, ReadBatch) \in 1..ReadBatch /\ off + Chunk(T, ReadBatch) <= T
    BY <1>4, CascadeAssumption DEF Chunk, Smaller
  <2>2. pc = "serialWait" => FirstRow = off /\ RowsDue(c) = Chunk(Len(Pass(c)), ReadBatch)
    BY DEF FirstRow, RowsDue
  <2>3. QED BY <1>3, <1>6, <2>1, <2>2
<1>8. pc # "serialWait" => FirstRow = 0 /\ RowsDue(c) = Len(Pass(c))
  BY DEF FirstRow, RowsDue
<1> DEFINE l == Len(Pass(c))
<1>9. l \in Nat
  BY <1>3
<1>10. FirstRow \in Nat /\ RowsDue(c) \in Nat /\ FirstRow + RowsDue(c) <= l
  <2> HIDE DEF l
  <2>1. pc = "serialWait" => off + RowsDue(c) <= l
    BY <1>7 DEF l
  <2>2. pc # "serialWait" => RowsDue(c) = l
    BY <1>8 DEF l
  <2>3. QED BY <1>4, <1>7, <1>8, <1>9, <2>1, <2>2
<1>11. QED BY <1>1, <1>2, <1>3, <1>5, <1>6, <1>7, <1>10

\* The frame copy of every crop routed to a child is that of the batch in hand.
LEMMA CropsAreFresh ==
  ASSUME BatchInv, InHand, pc \notin {"take", "rejected"}, NEW c, NEW p \in 1..Len(Pass(c))
  PROVE  /\ ring[CropsOf(c)[p].slot] = takes
         /\ RowsWanted(c)[p] = [engine |-> Child(c).engine, slot |-> CropsOf(c)[p].slot,
                                take |-> ring[CropsOf(c)[p].slot], rect |-> CropsOf(c)[p].rect]
<1>1. HoldsRouted(CropsOf(c), c) /\ Len(Pass(c)) = Len(CropsOf(c))
  BY ChildCrops
<1>2. PICK t \in Slots : batch[t].live /\ \E k \in DOMAIN kept[t] : CropsOf(c)[p] = CropAt(t, k)
  <2>1. p \in 1..Len(CropsOf(c))
    BY <1>1
  <2>2. QED BY <1>1, <2>1, Zenon DEF HoldsRouted
<1>3. CropsOf(c)[p].slot = t
  BY <1>2 DEF CropAt
<1>4. ring[CropsOf(c)[p].slot] = takes
  BY <1>2, <1>3 DEF BatchInv
<1>5. QED BY <1>4, RowsAgree

\* f2 is f but for c.
ButFor(f2, f, c) == DOMAIN f2 = DOMAIN f /\ \A d \in DOMAIN f : d # c => f2[d] = f[d]

\* EXCEPT changes one place.
LEMMA ButForOne ==
  ASSUME NEW f, NEW c \in DOMAIN f, NEW v, NEW f2, f2 = [f EXCEPT ![c] = v]
  PROVE  ButFor(f2, f, c) /\ f2[c] = v
BY DEF ButFor

\* What the operation at the head of child c's stream does to the child's buffers.
Does(c) ==
  LET o == Head(stream[c])
      Read(crop) == [engine |-> Child(c).engine, slot |-> crop.slot,
                     take |-> ring[crop.slot], rect |-> crop.rect]
  IN  \/ /\ o.op = "upload" /\ output'[c] = output[c] /\ host'[c] = host[c]
         /\ d_crops'[c] = [i \in ReadSlots |-> IF i <= o.n THEN CropsOf(c)[o.from + i]
                                               ELSE d_crops[c][i]]
      \/ /\ o.op = "infer" /\ d_crops'[c] = d_crops[c] /\ host'[c] = host[c]
         /\ output'[c] = [i \in ReadSlots |-> IF i <= o.n THEN Read(d_crops[c][i])
                                              ELSE output[c][i]]
      \/ /\ o.op = "fetch" /\ d_crops'[c] = d_crops[c] /\ output'[c] = output[c]
         /\ host'[c] = [i \in DOMAIN host[c] |-> IF i \in (o.at + 1)..(o.at + o.n)
                                                 THEN output[c][i - o.at] ELSE host[c][i]]

\* What RunOp(c) changes is the child's own.
LEMMA RunOpFrame ==
  ASSUME BuffersInv, NEW c \in ChildIds, RunOp(c)
  PROVE  /\ Frozen /\ verdict' = verdict /\ pc' = pc /\ ring' = ring /\ off' = off /\ ci' = ci
         /\ out' = out /\ todo' = todo /\ merge' = merge
         /\ stream[c] # <<>> /\ stream'[c] = Tail(stream[c]) /\ Does(c)
         /\ ButFor(stream', stream, c) /\ ButFor(d_crops', d_crops, c)
         /\ ButFor(output', output, c) /\ ButFor(host', host, c)
<1>1. /\ Frozen /\ verdict' = verdict /\ pc' = pc /\ ring' = ring /\ off' = off /\ ci' = ci
      /\ out' = out /\ todo' = todo /\ merge' = merge /\ stream[c] # <<>>
      /\ stream' = [stream EXCEPT ![c] = Tail(@)]
  BY Zenon DEF RunOp, Frozen, sahiVars
<1>2. c \in DOMAIN stream /\ c \in DOMAIN d_crops /\ c \in DOMAIN output /\ c \in DOMAIN host
  BY DEF BuffersInv
<1>3. ButFor(stream', stream, c) /\ stream'[c] = Tail(stream[c])
  BY <1>1, <1>2, ButForOne, Zenon
<1>4. \A f : ButFor(f, f, c)
  BY DEF ButFor
<1> DEFINE o == Head(stream[c])
           Read(crop) == [engine |-> Child(c).engine, slot |-> crop.slot,
                          take |-> ring[crop.slot], rect |-> crop.rect]
           d2 == [i \in ReadSlots |-> IF i <= o.n THEN CropsOf(c)[o.from + i] ELSE d_crops[c][i]]
           u2 == [i \in ReadSlots |-> IF i <= o.n THEN Read(d_crops[c][i]) ELSE output[c][i]]
           h2 == [i \in DOMAIN host[c] |-> IF i \in (o.at + 1)..(o.at + o.n)
                                           THEN output[c][i - o.at] ELSE host[c][i]]
<1>5. \/ o.op = "upload" /\ d_crops' = [d_crops EXCEPT ![c] = d2] /\ output' = output /\ host' = host
      \/ o.op = "infer" /\ output' = [output EXCEPT ![c] = u2] /\ d_crops' = d_crops /\ host' = host
      \/ o.op = "fetch" /\ host' = [host EXCEPT ![c] = h2] /\ d_crops' = d_crops /\ output' = output
  BY Zenon DEF RunOp
<1>6. Does(c) <=>
        \/ o.op = "upload" /\ output'[c] = output[c] /\ host'[c] = host[c] /\ d_crops'[c] = d2
        \/ o.op = "infer" /\ d_crops'[c] = d_crops[c] /\ host'[c] = host[c] /\ output'[c] = u2
        \/ o.op = "fetch" /\ d_crops'[c] = d_crops[c] /\ output'[c] = output[c] /\ host'[c] = h2
  BY Zenon DEF Does
<1> HIDE DEF o, d2, u2, h2
<1>7. CASE o.op = "upload" /\ d_crops' = [d_crops EXCEPT ![c] = d2] /\ output' = output /\ host' = host
  <2>1. ButFor(d_crops', d_crops, c) /\ d_crops'[c] = d2
    BY <1>2, <1>7, ButForOne, Zenon
  <2>2. QED BY <1>1, <1>3, <1>4, <1>6, <1>7, <2>1
<1>8. CASE o.op = "infer" /\ output' = [output EXCEPT ![c] = u2] /\ d_crops' = d_crops /\ host' = host
  <2>1. ButFor(output', output, c) /\ output'[c] = u2
    BY <1>2, <1>8, ButForOne, Zenon
  <2>2. QED BY <1>1, <1>3, <1>4, <1>6, <1>8, <2>1
<1>9. CASE o.op = "fetch" /\ host' = [host EXCEPT ![c] = h2] /\ d_crops' = d_crops /\ output' = output
  <2>1. ButFor(host', host, c) /\ host'[c] = h2
    BY <1>2, <1>9, ButForOne, Zenon
  <2>2. QED BY <1>1, <1>3, <1>4, <1>6, <1>9, <2>1
<1>10. QED BY <1>5, <1>7, <1>8, <1>9

\* The buffers keep their sizes.
LEMMA RunOpBuffers ==
  ASSUME BuffersInv, NEW c \in ChildIds, RunOp(c)
  PROVE  BuffersInv' /\ Len(host'[c]) = Len(host[c])
<1>1. /\ Frozen /\ Does(c)
      /\ ButFor(stream', stream, c) /\ ButFor(d_crops', d_crops, c)
      /\ ButFor(output', output, c) /\ ButFor(host', host, c)
  BY RunOpFrame
<1>2. ChildIds' = ChildIds /\ ReadSlots' = ReadSlots
  BY <1>1, CropsStay DEF ReadSlots
<1>3. DOMAIN d_crops[c] = ReadSlots /\ DOMAIN output[c] = ReadSlots
      /\ IsASeq(host[c]) /\ ReadBatch <= Len(host[c])
  BY DEF BuffersInv
<1>4. DOMAIN host[c] = 1..Len(host[c]) /\ Len(host[c]) \in Nat
  BY <1>3, IsASeqOver
<1>5. /\ DOMAIN d_crops'[c] = ReadSlots /\ DOMAIN output'[c] = ReadSlots
      /\ host'[c] = host[c] \/ host'[c] = [i \in 1..Len(host[c]) |-> host'[c][i]]
  BY <1>1, <1>3, <1>4 DEF Does
<1>6. IsASeq(host'[c]) /\ Len(host'[c]) = Len(host[c])
  BY <1>3, <1>4, <1>5, ListIsASeq, Zenon
<1>7. /\ DOMAIN stream' = ChildIds /\ DOMAIN d_crops' = ChildIds
      /\ DOMAIN output' = ChildIds /\ DOMAIN host' = ChildIds
  BY <1>1 DEF BuffersInv, ButFor
<1>8. ASSUME NEW d \in ChildIds
      PROVE  /\ DOMAIN d_crops'[d] = ReadSlots /\ DOMAIN output'[d] = ReadSlots
             /\ IsASeq(host'[d]) /\ ReadBatch <= Len(host'[d])
  <2>1. CASE d = c
    BY <1>3, <1>5, <1>6, <2>1
  <2>2. CASE d # c
    <3>1. d_crops'[d] = d_crops[d] /\ output'[d] = output[d] /\ host'[d] = host[d]
      BY <1>1, <2>2 DEF BuffersInv, ButFor
    <3>2. QED BY <3>1 DEF BuffersInv
  <2>3. QED BY <2>1, <2>2
<1>9. QED BY <1>2, <1>6, <1>7, <1>8, Zenon DEF BuffersInv

\* The operation at the head of what is left.
LEMMA NextIs ==
  ASSUME NEW st, NEW dc, NEW ou, NEW ho, NEW crops, NEW rows, NEW base, NEW T \in Nat,
         NEW j \in 1..(ChunksOf(T) + 1), NEW r \in 1..3, st # <<>>,
         LeftFrom(st, dc, ou, ho, crops, rows, base, T, j, r)
  PROVE  j \in 1..ChunksOf(T) /\ Head(st) = OpsOf(base, T, j)[r]
<1>1. OpsFrom(st, base, T, 3 * j + r) /\ (j = ChunksOf(T) + 1 => r = 1)
  BY Zenon DEF LeftFrom
<1>2. QED BY <1>1, NextOp, Zenon

\* What is due of child c, by name.
DueOf(c, base, T, crops, rows) ==
  base = FirstRow /\ T = RowsDue(c) /\ crops = CropsOf(c) /\ rows = RowsWanted(c)

\* What the device does next to what is left of a child's operations: after an upload its
\* crops are there, after inference its rows, after a fetch the host has them.
LEMMA RunOpAdvances ==
  ASSUME CascadeInv, NEW c \in ChildIds, RunOp(c), OnStream(c),
         NEW base, NEW T, NEW crops, NEW rows, DueOf(c, base, T, crops, rows),
         NEW j \in 1..(ChunksOf(T) + 1), NEW r \in 1..3,
         LeftFrom(stream[c], d_crops[c], output[c], host[c], crops, rows, base, T, j, r)
  PROVE  Queued(Tail(stream[c]), d_crops'[c], output'[c], host'[c], crops, rows, base, T)
<1> DEFINE l == Len(Pass(c))
           o == Head(stream[c])
           st == stream[c]
           dc == d_crops[c]
           ou == output[c]
           ho == host[c]
<1>1. base \in Nat /\ T \in Nat /\ base + T <= l /\ l \in Nat /\ InHand
      /\ pc \notin {"take", "rejected"}
  BY DueFacts DEF AtChildren, DueOf
<1>2. Does(c) /\ st # <<>>
  BY RunOpFrame DEF CascadeInv
<1>4. j \in 1..ChunksOf(T) /\ o = OpsOf(base, T, j)[r]
  <2>1. T \in Nat /\ st # <<>>
    BY <1>1, <1>2
  <2>2. QED BY <2>1, NextIs
<1> DEFINE b == Behind(j)
           n == RowsIn(T, j)
<1>5. ChunksOf(T) \in Nat /\ j \in Nat \ {0}
  <2>1. ChunksOf(T) \in Nat
    BY <1>1, ChunksFacts, Zenon
  <2>2. QED BY <1>4, <2>1
<1>6. b \in Nat /\ n \in Int /\ n <= ReadBatch /\ b + n <= T
  BY <1>1, <1>5, BehindFacts, RowsInFacts
<1>7. /\ r = 1 => o = Op("upload", base + b, n, b)
      /\ r = 2 => o = Op("infer", base + b, n, b)
      /\ r = 3 => o = Op("fetch", base + b, n, b)
  BY <1>4, OpsAre
<1>8. o.from = base + b /\ o.n = n /\ o.at = b
      /\ (o.op = "upload" <=> r = 1) /\ (o.op = "infer" <=> r = 2) /\ (o.op = "fetch" <=> r = 3)
  BY <1>7 DEF Op
<1>9. \A i \in 1..n : i \in ReadSlots /\ (base + b) + i \in 1..l
  <2> HIDE DEF l, b, n
  <2>1. QED BY <1>1, <1>6, CascadeAssumption DEF ReadSlots
<1> HIDE DEF o, n, b, l
<1>10. CASE r = 1
  <2>1. /\ output'[c] = ou /\ host'[c] = ho
        /\ d_crops'[c] = [i \in ReadSlots |-> IF i <= n THEN crops[(base + b) + i] ELSE dc[i]]
    BY <1>2, <1>8, <1>10 DEF Does, o, DueOf
  <2>2. \A i \in 1..n : d_crops'[c][i] = crops[(base + b) + i]
    BY <1>9, <2>1
  <2>3. LeftFrom(st, dc, ou, ho, crops, rows, base, T, j, 1)
    BY <1>10
  <2>4. LeftFrom(Tail(st), d_crops'[c], ou, ho, crops, rows, base, T, j, 2)
    BY <1>1, <1>2, <2>2, <2>3, Uploaded DEF n, b
  <2>5. 2 \in 1..3
    OBVIOUS
  <2>6. QED BY <2>1, <2>4, <2>5, Zenon DEF Queued
<1>11. CASE r = 2
  <2>1. /\ d_crops'[c] = dc /\ host'[c] = ho
        /\ output'[c] = [i \in ReadSlots |->
             IF i <= n THEN [engine |-> Child(c).engine, slot |-> dc[i].slot,
                             take |-> ring[dc[i].slot], rect |-> dc[i].rect]
             ELSE ou[i]]
    BY <1>2, <1>8, <1>11, SMTT(20) DEF Does, o, DueOf
  <2>2. \A i \in 1..n : dc[i] = crops[(base + b) + i]
    BY <1>11 DEF LeftFrom, b, n
  <2>3. \A i \in 1..n :
          rows[(base + b) + i] = [engine |-> Child(c).engine, slot |-> dc[i].slot,
                                  take |-> ring[dc[i].slot], rect |-> dc[i].rect]
    <3>1. \A p \in 1..l : rows[p] = [engine |-> Child(c).engine, slot |-> crops[p].slot,
                                     take |-> ring[crops[p].slot], rect |-> crops[p].rect]
      BY <1>1, CropsAreFresh DEF CascadeInv, l, DueOf
    <3>2. QED BY <1>9, <2>2, <3>1
  <2>4. \A i \in 1..n : output'[c][i] = rows[(base + b) + i]
    BY <1>9, <2>1, <2>3
  <2>5. LeftFrom(st, dc, ou, ho, crops, rows, base, T, j, 2)
    BY <1>11
  <2>6. LeftFrom(Tail(st), dc, output'[c], ho, crops, rows, base, T, j, 3)
    BY <1>1, <1>2, <2>4, <2>5, Inferred DEF n, b
  <2>7. 3 \in 1..3
    OBVIOUS
  <2>8. QED BY <2>1, <2>6, <2>7, Zenon DEF Queued
<1>12. CASE r = 3
  <2>1. /\ d_crops'[c] = dc /\ output'[c] = ou
        /\ host'[c] = [i \in DOMAIN ho |-> IF i \in (b + 1)..(b + n) THEN ou[i - b] ELSE ho[i]]
    BY <1>2, <1>8, <1>12 DEF Does, o, DueOf
  <2>2. DOMAIN ho = 1..Len(ho) /\ Len(ho) \in Nat
    BY IsASeqOver DEF CascadeInv, BuffersInv
  <2>3. T <= Len(ho)
    BY DEF CascadeInv, StreamsInv, StreamRight, DueOf
  <2>4. \A i \in 1..T : i <= b => host'[c][i] = ho[i]
    <3>1. \A i \in 1..T : i \in DOMAIN ho /\ (i <= b => i \notin (b + 1)..(b + n))
      BY <1>1, <1>6, <2>2, <2>3 DEF b
    <3>2. QED BY <2>1, <3>1
  <2>5. \A i \in 1..n : host'[c][b + i] = ou[i]
    <3>1. \A i \in 1..n : b + i \in DOMAIN ho /\ b + i \in (b + 1)..(b + n) /\ (b + i) - b = i
      BY <1>1, <1>6, <2>2, <2>3 DEF b, n
    <3>2. QED BY <2>1, <3>1
  <2>6. LeftFrom(st, dc, ou, ho, crops, rows, base, T, j, 3)
    BY <1>12
  <2>7. LeftFrom(Tail(st), dc, ou, host'[c], crops, rows, base, T, j + 1, 1)
    BY <1>1, <1>2, <2>4, <2>5, <2>6, Fetched DEF n, b
  <2>8. j + 1 \in 1..(ChunksOf(T) + 1) /\ 1 \in 1..3
    BY <1>4, <1>5
  <2>9. QED BY <2>1, <2>7, <2>8, Zenon DEF Queued
<1>13. QED BY <1>10, <1>11, <1>12

\* One operation of some child's stream, at any moment.
LEMMA RunOpKeeps ==
  ASSUME CascadeInv, NEW c \in DOMAIN stream, RunOp(c)
  PROVE  CascadeInv'
<1>1. ConfigInv /\ BatchInv /\ PlaceInv /\ BuffersInv /\ StreamsInv /\ OutInv
  BY DEF CascadeInv
<1>2. c \in ChildIds
  BY <1>1 DEF BuffersInv
<1>3. /\ Frozen /\ verdict' = verdict /\ pc' = pc /\ ring' = ring /\ off' = off /\ ci' = ci
      /\ out' = out /\ todo' = todo /\ merge' = merge
      /\ stream[c] # <<>> /\ stream'[c] = Tail(stream[c])
      /\ ButFor(stream', stream, c) /\ ButFor(d_crops', d_crops, c)
      /\ ButFor(output', output, c) /\ ButFor(host', host, c)
  BY <1>1, <1>2, RunOpFrame
<1>4. StreamRight(c) /\ OnStream(c)
  BY <1>1, <1>2, <1>3 DEF StreamsInv, StreamRight
<1>5. AtChildren /\ pc \notin {"take", "rejected", "tiles"}
  BY <1>2, <1>4, DueFacts DEF AtChildren
<1>6. /\ Children' = Children /\ Slots' = Slots /\ ChildIds' = ChildIds
      /\ \A d : Pass(d)' = Pass(d) /\ CropsOf(d)' = CropsOf(d) /\ RowsWanted(d)' = RowsWanted(d)
  BY <1>3, CropsStay
<1>7. BuffersInv' /\ Len(host'[c]) = Len(host[c])
  BY <1>1, <1>2, RunOpBuffers
<1>8. \A d : /\ OnStream(d)' <=> OnStream(d)
             /\ FirstRow' = FirstRow /\ RowsDue(d)' = RowsDue(d) /\ RowsDecoded(d)' = RowsDecoded(d)
  <2>1. \A d : OnStream(d)' <=> OnStream(d)
    BY <1>3 DEF OnStream
  <2>2. \A d : FirstRow' = FirstRow /\ RowsDue(d)' = RowsDue(d)
    BY <1>3, <1>6 DEF FirstRow, RowsDue, Chunk
  <2>3. \A d : RowsDecoded(d)' = RowsDecoded(d)
    BY <1>3, <1>6 DEF RowsDecoded
  <2>4. QED BY <2>1, <2>2, <2>3
<1>9. ASSUME NEW d \in ChildIds, d # c PROVE StreamRight(d)'
  <2>1. stream'[d] = stream[d] /\ d_crops'[d] = d_crops[d] /\ output'[d] = output[d]
        /\ host'[d] = host[d] /\ StreamRight(d)
    BY <1>1, <1>3, <1>9 DEF BuffersInv, ButFor, StreamsInv
  <2>2. QED BY <1>3, <1>8, <2>1, StreamStays
<1>10. StreamRight(c)'
  <2>1. RowsDue(c) <= Len(host[c])
        /\ Queued(stream[c], d_crops[c], output[c], host[c], CropsOf(c), RowsWanted(c),
                  FirstRow, RowsDue(c))
    BY <1>4 DEF StreamRight
  <2> DEFINE T == RowsDue(c)
             base == FirstRow
             crops == CropsOf(c)
             rows == RowsWanted(c)
  <2>2. PICK j \in 1..(ChunksOf(T) + 1) : \E r \in 1..3 :
          LeftFrom(stream[c], d_crops[c], output[c], host[c], crops, rows, base, T, j, r)
    BY <2>1, Zenon DEF Queued
  <2>3. PICK r \in 1..3 :
          LeftFrom(stream[c], d_crops[c], output[c], host[c], crops, rows, base, T, j, r)
    BY <2>2, Zenon
  <2>4. Queued(Tail(stream[c]), d_crops'[c], output'[c], host'[c], crops, rows, base, T)
    BY <1>2, <1>4, <2>3, RunOpAdvances DEF DueOf
  <2>5. QED BY <1>3, <1>4, <1>6, <1>7, <1>8, <2>1, <2>4 DEF StreamRight
<1>11. StreamsInv'
  BY <1>6, <1>9, <1>10 DEF StreamsInv
<1>12. ConfigInv'
  BY <1>1, <1>3 DEF ConfigInv, AtChildren, Frozen
<1>13. BatchInv'
  BY <1>1, <1>3, <1>5, BatchStays
<1>14. TilesInv' /\ PlaceInv'
  BY <1>1, <1>3, <1>5, <1>6 DEF TilesInv, PlaceInv, AtChildren
<1>15. OutInv'
  <2>1. DOMAIN out = Children /\ \A d \in Children : OutRight(d)
    BY <1>1, <1>5 DEF OutInv
  <2>2. \A d \in Children : OutRight(d)'
    BY <1>3, <1>8, <2>1, OutputsStay
  <2>3. QED BY <1>3, <1>6, <2>1, <2>2 DEF OutInv
<1>16. QED BY <1>7, <1>11, <1>12, <1>13, <1>14, <1>15 DEF CascadeInv

-----------------------------------------------------------------------------
(* Decoding *)

\* A child's outputs are laid out as the detections, and filled with its first D rows.
FilledUpTo(o, c, D) ==
  /\ DOMAIN o = Slots /\ \A s \in Slots : DOMAIN o[s] = DOMAIN kept[s]
  /\ Filled(o, CropsOf(c), RowsWanted(c), D)

\* Decode fills in the rows the host has of the child in hand, and touches no other child.
LEMMA DecodeFills ==
  ASSUME InHand, ci \in Children, DOMAIN out = Children,
         NEW from \in Nat, NEW n \in Nat, from + n <= Len(Pass(ci)),
         FilledUpTo(out[ci], ci, from), Hosts(host[ci], RowsWanted(ci), from, n), Decode(from, n)
  PROVE  ButFor(out', out, ci) /\ FilledUpTo(out'[ci], ci, from + n)
<1> DEFINE crops == CropsOf(ci)
           rows(s, k) == {i \in 1..n : Owner(ci, from + i).slot = s /\ Owner(ci, from + i).det = k}
           o == out[ci]
           o2 == [s \in DOMAIN o |-> [k \in DOMAIN o[s] |->
                    IF rows(s, k) = {} THEN o[s][k] ELSE host[ci][CHOOSE i \in rows(s, k) : TRUE]]]
<1>1. out' = [out EXCEPT ![ci] = o2]
  BY Zenon DEF Decode
<1>2. HoldsRouted(CropsOf(ci), ci) /\ Len(Pass(ci)) = Len(CropsOf(ci))
      /\ DOMAIN Pass(ci) = 1..Len(CropsOf(ci))
  BY ChildCrops
<1>3. ASSUME NEW i \in 1..n PROVE Owner(ci, from + i) = crops[from + i]
  <2>1. Len(CropsOf(ci)) \in Nat
    BY <1>2 DEF HoldsRouted, IsASeq
  <2>2. from + i \in DOMAIN Pass(ci)
    BY <1>2, <2>1
  <2> DEFINE p == from + i
  <2> HIDE DEF p
  <2>3. Owner(ci, p) = CropsOf(ci)[p]
    BY <2>2 DEF Owner, CropsOf, p
  <2>4. QED BY <2>3 DEF p
<1>4. \A s, k : rows(s, k) = Hits(crops, from, n, s, k)
  BY <1>3 DEF Hits
<1> HIDE DEF rows, crops
<1>5. DOMAIN o2 = DOMAIN o /\ \A s \in DOMAIN o : DOMAIN o2[s] = DOMAIN o[s]
  OBVIOUS
<1>6. ASSUME NEW s \in DOMAIN o, NEW k \in DOMAIN o[s]
      PROVE  o2[s][k] = IF rows(s, k) = {} THEN o[s][k]
                        ELSE host[ci][CHOOSE i \in rows(s, k) : TRUE]
  OBVIOUS
<1> HIDE DEF o2
<1>11. ASSUME NEW s \in DOMAIN o, NEW k \in DOMAIN o[s]
       PROVE  o2[s][k] = Rewritten(o[s][k], host[ci], crops, from, n, s, k)
  <2> DEFINE R == rows(s, k)
             Q == Hits(crops, from, n, s, k)
  <2>1. R = Q
    BY <1>4
  <2>2. o2[s][k] = IF R = {} THEN o[s][k] ELSE host[ci][CHOOSE i \in R : TRUE]
    BY <1>6
  <2>3. Rewritten(o[s][k], host[ci], crops, from, n, s, k)
          = IF Q = {} THEN o[s][k] ELSE host[ci][CHOOSE i \in Q : TRUE]
    BY Zenon DEF Rewritten
  <2> HIDE DEF R, Q
  <2>4. QED BY <2>1, <2>2, <2>3
<1>7. ButFor(out', out, ci) /\ out'[ci] = o2
  BY <1>1, ButForOne, Zenon
<1>8. Filled(o2, CropsOf(ci), RowsWanted(ci), from + n)
  <2>1. Filled(o, CropsOf(ci), RowsWanted(ci), from)
    BY DEF FilledUpTo
  <2>2. Agreeing(CropsOf(ci), RowsWanted(ci), from + n)
    <3> DEFINE l == Len(Pass(ci))
    <3>1. Agreeing(CropsOf(ci), RowsWanted(ci), l)
      BY RowsAgree
    <3>2. l \in Nat /\ from + n <= l
      BY <1>2 DEF HoldsRouted, IsASeq
    <3> HIDE DEF l
    <3>3. \A p \in 1..(from + n) : p \in 1..l
      BY <3>2
    <3>4. QED BY <3>1, <3>3 DEF Agreeing
  <2> HIDE DEF o
  <2>3. Decodes(o2, o, host[ci], CropsOf(ci), from, n)
    BY <1>5, <1>11, Zenon DEF Decodes, crops
  <2>4. QED BY <2>1, <2>2, <2>3, DecodedMore
<1>9. DOMAIN o2 = Slots /\ \A s \in Slots : DOMAIN o2[s] = DOMAIN kept[s]
  BY <1>5 DEF FilledUpTo
<1>10. QED BY <1>7, <1>8, <1>9 DEF FilledUpTo

\* The outputs of one child.
LEMMA OutRightIs ==
  ASSUME NEW c
  PROVE  OutRight(c) <=> FilledUpTo(out[c], c, RowsDecoded(c))
BY DEF OutRight, FilledUpTo

\* After a step that keeps the batch in hand.
LEMMA OutRightNext ==
  ASSUME Frozen, NEW c, NEW D, FilledUpTo(out'[c], c, D), RowsDecoded(c)' = D
  PROVE  OutRight(c)'
<1>1. CropsOf(c)' = CropsOf(c) /\ RowsWanted(c)' = RowsWanted(c) /\ Slots' = Slots
  BY CropsStay
<1>2. kept' = kept
  BY DEF Frozen
<1>3. QED BY <1>1, <1>2 DEF OutRight, FilledUpTo

\* When the stream of a child is empty, the host has all that was due.
LEMMA HostHasAll ==
  ASSUME CascadeInv, NEW c \in ChildIds, OnStream(c), stream[c] = <<>>
  PROVE  Hosts(host[c], RowsWanted(c), FirstRow, RowsDue(c))
<1> DEFINE T == RowsDue(c)
<1>1. T \in Nat
  BY DueFacts
<1>2. Queued(<<>>, d_crops[c], output[c], host[c], CropsOf(c), RowsWanted(c), FirstRow, T)
  BY DEF CascadeInv, StreamsInv, StreamRight
<1> HIDE DEF T
<1>3. \A i \in 1..T : host[c][i] = RowsWanted(c)[FirstRow + i]
  BY <1>1, <1>2, AllFetched
<1>4. QED BY <1>3, Zenon DEF Hosts, T

-----------------------------------------------------------------------------
(* The host between the children *)

\* What the invariant says while crops are read.
LEMMA ReadingFacts ==
  ASSUME CascadeInv, AtChildren
  PROVE  /\ ConfigInv /\ BatchInv /\ PlaceInv /\ BuffersInv /\ StreamsInv /\ InHand
         /\ pc \notin {"rejected", "take", "tiles", "crops", "results"}
         /\ DOMAIN out = Children /\ \A c \in Children : OutRight(c)
         /\ ci \in Children /\ ci \in ChildIds /\ off \in Nat /\ Len(Pass(ci)) \in Nat
         /\ \A c \in Children : c \in ChildIds /\ c \in Nat /\ c # 0
         /\ \A c \in ChildIds : c \in Nat /\ c # 0 /\ c \in Children
         /\ 1 \in Children
         /\ \A c \in Children : c + 1 \notin Children => \A d \in Children : d <= c
<1>1. pc \notin {"rejected", "take", "tiles", "crops", "results"}
  BY DEF AtChildren
<1>2. /\ ConfigInv /\ BatchInv /\ PlaceInv /\ BuffersInv /\ StreamsInv /\ OutInv /\ InHand
  BY <1>1, BatchFacts DEF CascadeInv
<1>3. ci \in Children /\ off \in Nat
  BY <1>2 DEF PlaceInv
<1>4. Len(Pass(ci)) \in Nat
  BY <1>2, PassFacts
<1>5. DOMAIN out = Children /\ \A c \in Children : OutRight(c)
  BY <1>2 DEF OutInv
<1>6. /\ \A c \in Children : c \in ChildIds /\ c \in Nat /\ c # 0
      /\ \A c \in ChildIds : c \in Nat /\ c # 0 /\ c \in Children
      /\ 1 \in Children
      /\ \A c \in Children : c + 1 \notin Children => \A d \in Children : d <= c
  BY <1>1, <1>2, <1>3, ChildFacts
<1>7. QED BY <1>1, <1>2, <1>3, <1>4, <1>5, <1>6

\* A step of the host that leaves streams and buffers alone.
LEMMA DeviceStays ==
  ASSUME CascadeInv, Frozen, childVars' = childVars
  PROVE  BuffersInv' /\ \A c : /\ stream'[c] = stream[c] /\ d_crops'[c] = d_crops[c]
                               /\ output'[c] = output[c] /\ host'[c] = host[c]
<1>1. BuffersInv'
  BY BuffersStay DEF CascadeInv, Frozen
<1>2. stream' = stream /\ d_crops' = d_crops /\ output' = output /\ host' = host
  BY DEF childVars
<1>3. QED BY <1>1, <1>2

\* A child joined: its stream is empty, so the host has all its rows.
LEMMA JoinChildKeeps ==
  ASSUME CascadeInv, JoinChild
  PROVE  CascadeInv'
<1> DEFINE T == Len(Pass(ci))
<1>1. /\ pc = "join" /\ off' = off /\ Frozen /\ verdict' = verdict /\ ring' = ring
      /\ childVars' = childVars /\ stream[ci] = <<>> /\ Decode(0, Len(Pass(ci)))
      /\ IF ci + 1 \in Children THEN ci' = ci + 1 /\ pc' = pc ELSE ci' = 1 /\ pc' = "results"
  BY DEF JoinChild, Frozen, Synchronize
<1>2. AtChildren
  BY <1>1 DEF AtChildren
<1>3. /\ ConfigInv /\ BatchInv /\ PlaceInv /\ BuffersInv /\ StreamsInv /\ InHand
      /\ pc \notin {"rejected", "take", "tiles", "crops", "results"}
      /\ DOMAIN out = Children /\ \A c \in Children : OutRight(c)
      /\ ci \in Children /\ ci \in ChildIds /\ off \in Nat /\ T \in Nat
  BY <1>2, ReadingFacts
<1>4. /\ \A c \in Children : c \in ChildIds /\ c \in Nat /\ c # 0
      /\ \A c \in ChildIds : c \in Nat /\ c # 0 /\ c \in Children
      /\ \A c \in Children : c + 1 \notin Children => \A d \in Children : d <= c
  BY <1>2, ReadingFacts
<1>5. /\ Children' = Children /\ Slots' = Slots /\ ChildIds' = ChildIds
      /\ \A c : Pass(c)' = Pass(c) /\ CropsOf(c)' = CropsOf(c) /\ RowsWanted(c)' = RowsWanted(c)
  BY <1>1, CropsStay
<1>6. BuffersInv' /\ \A c : /\ stream'[c] = stream[c] /\ d_crops'[c] = d_crops[c]
                            /\ output'[c] = output[c] /\ host'[c] = host[c]
  BY <1>1, DeviceStays
<1>7. ConfigInv' /\ BatchInv' /\ TilesInv'
  <2>1. pc' \in {"join", "results"}
    BY <1>1
  <2>2. ConfigInv'
    BY <1>1, <1>3, <2>1, ConfigStays DEF Frozen
  <2>3. BatchInv'
    BY <1>1, <1>3, BatchStays
  <2>4. QED BY <2>1, <2>2, <2>3 DEF TilesInv
<1>8. PlaceInv'
  BY <1>1, <1>3, <1>5 DEF PlaceInv, AtChildren
<1>9. OnStream(ci) /\ FirstRow = 0 /\ RowsDue(ci) = T
  BY <1>1, <1>3, <1>4 DEF OnStream, FirstRow, RowsDue
<1>10. StreamsInv'
  <2>1. ASSUME NEW c \in ChildIds PROVE StreamRight(c)'
    <3>1. StreamRight(c) /\ c \in Nat /\ ci \in Nat
      BY <1>3, <1>4 DEF StreamsInv
    <3>2. CASE OnStream(c)'
      <4>1. c >= ci + 1 /\ pc' = pc /\ OnStream(c)
        BY <1>1, <3>1, <3>2 DEF OnStream
      <4>2. FirstRow' = FirstRow /\ RowsDue(c)' = RowsDue(c)
        BY <1>1, <1>5, <4>1 DEF FirstRow, RowsDue
      <4>3. QED BY <1>1, <1>6, <3>1, <3>2, <4>1, <4>2, StreamStays
    <3>3. CASE ~OnStream(c)'
      <4>1. c <= ci
        <5>1. CASE ci + 1 \in Children
          BY <1>1, <3>1, <3>3, <5>1 DEF OnStream
        <5>2. CASE ci + 1 \notin Children
          BY <1>3, <1>4, <5>2
        <5>3. QED BY <5>1, <5>2
      <4>2. stream[c] = <<>>
        <5>1. CASE c = ci
          BY <1>1, <5>1
        <5>2. CASE c # ci
          <6>1. ~OnStream(c)
            BY <1>1, <3>1, <4>1, <5>2 DEF OnStream
          <6>2. QED BY <3>1, <6>1 DEF StreamRight
        <5>3. QED BY <5>1, <5>2
      <4>3. QED BY <1>6, <3>3, <4>2 DEF StreamRight
    <3>4. QED BY <3>2, <3>3
  <2>2. QED BY <1>5, <2>1 DEF StreamsInv
<1>11. ButFor(out', out, ci) /\ FilledUpTo(out'[ci], ci, T)
  <2>1. Hosts(host[ci], RowsWanted(ci), 0, T)
    <3>1. Hosts(host[ci], RowsWanted(ci), FirstRow, RowsDue(ci))
      BY <1>1, <1>3, <1>9, HostHasAll
    <3>2. QED BY <1>9, <3>1
  <2>2. FilledUpTo(out[ci], ci, 0)
    <3>1. RowsDecoded(ci) = 0
      BY <1>1, <1>3, <1>4 DEF RowsDecoded
    <3>2. QED BY <1>3, <3>1, OutRightIs
  <2>3. 0 \in Nat /\ 0 + T <= T /\ 0 + T = T
    BY <1>3
  <2>4. ButFor(out', out, ci) /\ FilledUpTo(out'[ci], ci, 0 + T)
    BY <1>1, <1>3, <2>1, <2>2, <2>3, DecodeFills
  <2>5. QED BY <2>3, <2>4
<1>12. OutInv'
  <2>1. DOMAIN out' = Children /\ \A c \in Children : c # ci => out'[c] = out[c]
    BY <1>3, <1>11 DEF ButFor
  <2>2. ASSUME NEW c \in Children PROVE OutRight(c)'
    <3>1. c \in Nat /\ ci \in Nat
      BY <1>3, <1>4
    <3>2. RowsDecoded(c)' = IF c <= ci THEN Len(Pass(c)) ELSE 0
      <4>1. CASE ci + 1 \in Children
        <5>1. pc' = "join" /\ ci' = ci + 1 /\ (c < ci + 1 <=> c <= ci)
          BY <1>1, <3>1, <4>1
        <5>2. QED BY <1>5, <5>1 DEF RowsDecoded
      <4>2. CASE ci + 1 \notin Children
        <5>1. pc' = "results" /\ c <= ci
          BY <1>1, <1>3, <1>4, <4>2
        <5>2. QED BY <1>5, <5>1 DEF RowsDecoded
      <4>3. QED BY <4>1, <4>2
    <3>3. RowsDecoded(c) = IF c < ci THEN Len(Pass(c)) ELSE 0
      BY <1>1 DEF RowsDecoded
    <3>4. CASE c = ci
      <4>1. FilledUpTo(out'[c], c, Len(Pass(c))) /\ RowsDecoded(c)' = Len(Pass(c))
        BY <1>11, <3>1, <3>2, <3>4
      <4>2. QED BY <1>1, <4>1, OutRightNext
    <3>5. CASE c # ci
      <4>1. RowsDecoded(c)' = RowsDecoded(c)
        BY <3>1, <3>2, <3>3, <3>5
      <4>2. QED BY <1>1, <1>3, <2>1, <3>5, <4>1, OutputsStay
    <3>6. QED BY <3>4, <3>5
  <2>3. QED BY <1>5, <2>1, <2>2 DEF OutInv
<1>13. QED BY <1>6, <1>7, <1>8, <1>10, <1>12 DEF CascadeInv

-----------------------------------------------------------------------------
(* cascade_serial *)

\* A single chunk, on an empty stream.
LEMMA OneChunkQueued ==
  ASSUME NEW base \in Nat, NEW n \in 1..ReadBatch
  PROVE  \A dc, ou, ho, crops, rows : Queued(ChunkOps(base, n, 0), dc, ou, ho, crops, rows, base, n)
<1>1. ReadBatch \in Nat /\ n \in Nat /\ n # 0
  BY CascadeAssumption
<1>2. ChunksOf(n) = 1
  BY <1>1, ChunksFacts
<1>3. Behind(1) = 0
  BY BehindFacts
<1>4. RowsIn(n, 1) = n /\ base + Behind(1) = base
  BY <1>1, <1>3 DEF RowsIn, Smaller
<1>5. OpsOf(base, n, 1) = ChunkOps(base, n, 0)
  BY <1>3, <1>4 DEF OpsOf
<1> DEFINE st == ChunkOps(base, n, 0)
<1>6. IsASeq(st) /\ Len(st) = 3
  BY DEF IsASeq, ChunkOps
<1> HIDE DEF st
<1>7. Len(st) = 3 * ChunksOf(n)
  BY <1>2, <1>6
<1>8. \A i \in 1..ChunksOf(n) : \A q \in 1..3 : st[3 * (i - 1) + q] = OpsOf(base, n, i)[q]
  <2>1. \A q \in 1..3 : 3 * (1 - 1) + q = q
    OBVIOUS
  <2>2. OpsOf(base, n, 1) = st
    BY <1>5 DEF st
  <2>3. \A i \in 1..1 : i = 1
    OBVIOUS
  <2>4. QED BY <1>2, <2>1, <2>2, <2>3
<1>9. \A dc, ou, ho, crops, rows : Queued(st, dc, ou, ho, crops, rows, base, n)
  BY <1>1, <1>6, <1>7, <1>8, AllQueued
<1>10. QED BY <1>9 DEF st

\* One chunk queued, to be waited for.
LEMMA SerialChunkKeeps ==
  ASSUME CascadeInv, SerialChunk
  PROVE  CascadeInv'
<1> DEFINE n == Chunk(Len(Pass(ci)), ReadBatch)
<1>1. /\ pc = "serial" /\ pc' = "serialWait" /\ off' = off /\ Frozen /\ verdict' = verdict
      /\ ring' = ring /\ ci' = ci /\ out' = out /\ off < Len(Pass(ci))
      /\ d_crops' = d_crops /\ output' = output /\ host' = host
  BY DEF SerialChunk, Frozen
<1>2. stream' = [stream EXCEPT ![ci] = ChunkOps(off, n, 0)]
  BY Zenon DEF SerialChunk
<1>3. /\ ConfigInv /\ BatchInv /\ PlaceInv /\ BuffersInv /\ StreamsInv /\ InHand
      /\ pc \notin {"rejected", "take", "tiles", "crops", "results"}
      /\ DOMAIN out = Children /\ \A c \in Children : OutRight(c)
      /\ ci \in Children /\ ci \in ChildIds /\ off \in Nat /\ Len(Pass(ci)) \in Nat
  BY <1>1, ReadingFacts DEF AtChildren
<1>4. /\ Children' = Children /\ Slots' = Slots /\ ChildIds' = ChildIds
      /\ \A c : Pass(c)' = Pass(c) /\ CropsOf(c)' = CropsOf(c) /\ RowsWanted(c)' = RowsWanted(c)
  BY <1>1, CropsStay
<1>5. n \in 1..ReadBatch
  <2>1. \A T \in Nat : off < T => Chunk(T, ReadBatch) \in 1..ReadBatch
    BY <1>3, CascadeAssumption DEF Chunk, Smaller
  <2>2. QED BY <1>1, <1>3, <2>1
<1> PICK m : m = n
  OBVIOUS
<1>6. m \in 1..ReadBatch /\ stream' = [stream EXCEPT ![ci] = ChunkOps(off, m, 0)]
  BY <1>2, <1>5
<1>7. ButFor(stream', stream, ci) /\ stream'[ci] = ChunkOps(off, m, 0)
  <2>1. ci \in DOMAIN stream
    BY <1>3 DEF BuffersInv
  <2>2. QED BY <1>6, <2>1, ButForOne, Zenon
<1>8. ConfigInv' /\ BatchInv' /\ TilesInv'
  <2>1. ConfigInv'
    BY <1>1, <1>3, ConfigStays DEF Frozen
  <2>2. BatchInv'
    BY <1>1, <1>3, BatchStays
  <2>3. QED BY <1>1, <2>1, <2>2 DEF TilesInv
<1>9. PlaceInv'
  BY <1>1, <1>3, <1>4 DEF PlaceInv, AtChildren
<1>10. BuffersInv'
  BY <1>1, <1>3, <1>4, <1>7 DEF BuffersInv, ButFor, ReadSlots
<1>11. \A c \in ChildIds : stream[c] = <<>>
  BY <1>1, <1>3, StreamsEmpty
<1>12. ASSUME NEW c \in ChildIds PROVE StreamRight(c)'
  <2>1. CASE c # ci
    <3>1. ~OnStream(c)' /\ stream'[c] = <<>>
      BY <1>1, <1>3, <1>7, <1>11, <2>1 DEF OnStream, BuffersInv, ButFor
    <3>2. QED BY <3>1 DEF StreamRight
  <2>2. CASE c = ci
    <3>1. OnStream(c)' /\ FirstRow' = off
      BY <1>1, <2>2 DEF OnStream, FirstRow
    <3>2. RowsDue(c)' = m
      BY <1>1, <1>4, <2>2 DEF RowsDue, Chunk
    <3>3. stream'[c] = ChunkOps(off, m, 0)
      BY <1>7, <2>2
    <3>4. \A dc, ou, ho, crops, rows : Queued(stream'[c], dc, ou, ho, crops, rows, off, m)
      BY <1>3, <1>6, <3>3, OneChunkQueued
    <3>5. m <= Len(host'[c])
      <4>1. ReadBatch <= Len(host[c]) /\ Len(host[c]) \in Nat
        BY <1>3 DEF BuffersInv, IsASeq
      <4>2. QED BY <1>1, <1>6, <4>1, CascadeAssumption
    <3>6. Queued(stream'[c], d_crops'[c], output'[c], host'[c], CropsOf(c)', RowsWanted(c)', off, m)
      BY <3>4, Zenon
    <3>7. QED BY <3>1, <3>2, <3>5, <3>6 DEF StreamRight
  <2>3. QED BY <2>1, <2>2
<1>13. StreamsInv'
  BY <1>4, <1>12 DEF StreamsInv
<1>14. OutInv'
  <2>1. ASSUME NEW c \in Children PROVE OutRight(c)'
    <3>1. RowsDecoded(c)' = RowsDecoded(c)
      BY <1>1, <1>4 DEF RowsDecoded
    <3>2. QED BY <1>1, <1>3, <3>1, OutputsStay
  <2>2. QED BY <1>1, <1>3, <1>4, <2>1 DEF OutInv
<1>15. QED BY <1>8, <1>9, <1>10, <1>13, <1>14 DEF CascadeInv

\* Its rows decoded, from the front of the host buffer.
LEMMA SerialDecodeKeeps ==
  ASSUME CascadeInv, SerialDecode
  PROVE  CascadeInv'
<1> PICK n : n = Chunk(Len(Pass(ci)), ReadBatch)
  OBVIOUS
<1>1. /\ pc = "serialWait" /\ pc' = "serial" /\ off' = off + n /\ Frozen /\ verdict' = verdict
      /\ ring' = ring /\ ci' = ci /\ childVars' = childVars /\ stream[ci] = <<>> /\ Decode(off, n)
  BY DEF SerialDecode, Frozen, Synchronize
<1>2. /\ ConfigInv /\ BatchInv /\ PlaceInv /\ BuffersInv /\ StreamsInv /\ InHand
      /\ pc \notin {"rejected", "take", "tiles", "crops", "results"}
      /\ DOMAIN out = Children /\ \A c \in Children : OutRight(c)
      /\ ci \in Children /\ ci \in ChildIds /\ off \in Nat /\ Len(Pass(ci)) \in Nat
  BY <1>1, ReadingFacts DEF AtChildren
<1>3. /\ Children' = Children /\ Slots' = Slots /\ ChildIds' = ChildIds
      /\ \A c : Pass(c)' = Pass(c) /\ CropsOf(c)' = CropsOf(c) /\ RowsWanted(c)' = RowsWanted(c)
  BY <1>1, CropsStay
<1>4. BuffersInv' /\ \A c : /\ stream'[c] = stream[c] /\ d_crops'[c] = d_crops[c]
                            /\ output'[c] = output[c] /\ host'[c] = host[c]
  BY <1>1, DeviceStays
<1>5. OnStream(ci) /\ FirstRow = off /\ RowsDue(ci) = n
  BY <1>1 DEF OnStream, FirstRow, RowsDue
<1>6. n \in Nat /\ off + n <= Len(Pass(ci))
  BY <1>2, <1>5, DueFacts
<1>7. ConfigInv' /\ BatchInv' /\ TilesInv'
  <2>1. ConfigInv'
    BY <1>1, <1>2, ConfigStays DEF Frozen
  <2>2. BatchInv'
    BY <1>1, <1>2, BatchStays
  <2>3. QED BY <1>1, <2>1, <2>2 DEF TilesInv
<1>8. PlaceInv'
  BY <1>1, <1>2, <1>3, <1>6 DEF PlaceInv, AtChildren
<1>9. StreamsInv'
  <2>1. ASSUME NEW c \in ChildIds PROVE StreamRight(c)'
    <3>1. ~OnStream(c)'
      BY <1>1 DEF OnStream
    <3>2. stream[c] = <<>>
      <4>1. CASE c = ci
        BY <1>1, <4>1
      <4>2. CASE c # ci
        <5>1. ~OnStream(c)
          BY <1>1, <4>2 DEF OnStream
        <5>2. QED BY <1>2, <5>1 DEF StreamsInv, StreamRight
      <4>3. QED BY <4>1, <4>2
    <3>3. QED BY <1>4, <3>1, <3>2 DEF StreamRight
  <2>2. QED BY <1>3, <2>1 DEF StreamsInv
<1>10. ButFor(out', out, ci) /\ FilledUpTo(out'[ci], ci, off + n)
  <2>1. Hosts(host[ci], RowsWanted(ci), off, n)
    <3>1. Hosts(host[ci], RowsWanted(ci), FirstRow, RowsDue(ci))
      BY <1>1, <1>2, <1>5, HostHasAll
    <3>2. QED BY <1>5, <3>1
  <2>2. FilledUpTo(out[ci], ci, off)
    <3>1. RowsDecoded(ci) = off
      <4>1. ~(ci < ci)
        BY <1>2, ReadingFacts, <1>1 DEF AtChildren
      <4>2. QED BY <1>1, <4>1 DEF RowsDecoded
    <3>2. QED BY <1>2, <3>1, OutRightIs
  <2>3. QED BY <1>1, <1>2, <1>6, <2>1, <2>2, DecodeFills
<1>11. OutInv'
  <2>1. DOMAIN out' = Children /\ \A c \in Children : c # ci => out'[c] = out[c]
    BY <1>2, <1>10 DEF ButFor
  <2>2. ASSUME NEW c \in Children PROVE OutRight(c)'
    <3>1. c \in Nat /\ ci \in Nat
      BY <1>1, <1>2, ReadingFacts DEF AtChildren
    <3>2. CASE c = ci
      <4>1. RowsDecoded(c)' = off + n
        BY <1>1, <3>1, <3>2 DEF RowsDecoded
      <4>2. FilledUpTo(out'[c], c, off + n)
        BY <1>10, <3>2
      <4>3. QED BY <1>1, <4>1, <4>2, OutRightNext
    <3>3. CASE c # ci
      <4>1. RowsDecoded(c)' = RowsDecoded(c)
        BY <1>1, <1>3, <3>3 DEF RowsDecoded
      <4>2. QED BY <1>1, <1>2, <2>1, <3>3, <4>1, OutputsStay
    <3>4. QED BY <3>2, <3>3
  <2>3. QED BY <1>3, <2>1, <2>2 DEF OutInv
<1>12. QED BY <1>4, <1>7, <1>8, <1>9, <1>11 DEF CascadeInv

\* On to the next child.
LEMMA SerialNextKeeps ==
  ASSUME CascadeInv, SerialNext
  PROVE  CascadeInv'
<1>1. /\ pc = "serial" /\ off' = 0 /\ off >= Len(Pass(ci)) /\ Frozen /\ verdict' = verdict
      /\ ring' = ring /\ childVars' = childVars /\ out' = out
      /\ IF ci + 1 \in Children THEN ci' = ci + 1 /\ pc' = pc ELSE ci' = 1 /\ pc' = "results"
  BY DEF SerialNext, Frozen
<1>2. /\ ConfigInv /\ BatchInv /\ PlaceInv /\ BuffersInv /\ StreamsInv /\ InHand
      /\ pc \notin {"rejected", "take", "tiles", "crops", "results"}
      /\ DOMAIN out = Children /\ \A c \in Children : OutRight(c)
      /\ ci \in Children /\ ci \in ChildIds /\ off \in Nat /\ Len(Pass(ci)) \in Nat
  BY <1>1, ReadingFacts DEF AtChildren
<1>3. /\ \A c \in Children : c \in ChildIds /\ c \in Nat /\ c # 0
      /\ \A c \in Children : c + 1 \notin Children => \A d \in Children : d <= c
  BY <1>1, ReadingFacts DEF AtChildren
<1>4. /\ Children' = Children /\ Slots' = Slots /\ ChildIds' = ChildIds
      /\ \A c : Pass(c)' = Pass(c) /\ CropsOf(c)' = CropsOf(c) /\ RowsWanted(c)' = RowsWanted(c)
  BY <1>1, CropsStay
<1>5. off = Len(Pass(ci))
  <2>1. off <= Len(Pass(ci))
    BY <1>1, <1>2 DEF PlaceInv
  <2> DEFINE l == Len(Pass(ci))
  <2>2. l \in Nat /\ off \in Nat /\ off <= l /\ off >= l
    BY <1>1, <1>2, <2>1
  <2> HIDE DEF l
  <2>3. off = l
    BY <2>2
  <2>4. QED BY <2>3 DEF l
<1>6. pc' \in {"serial", "results"}
  BY <1>1
<1>7. ConfigInv' /\ BatchInv' /\ TilesInv'
  <2>1. ConfigInv'
    BY <1>1, <1>2, <1>6, ConfigStays DEF Frozen
  <2>2. BatchInv'
    BY <1>1, <1>2, BatchStays
  <2>3. QED BY <1>6, <2>1, <2>2 DEF TilesInv
<1>8. PlaceInv'
  <2>1. \A c : Len(Pass(c)) \in Nat
    BY <1>2, PassFacts
  <2>2. \A c : 0 <= Len(Pass(c))'
    BY <1>4, <2>1
  <2>3. AtChildren' => ci' \in Children'
    BY <1>1, <1>4 DEF AtChildren
  <2>4. 0 <= Len(Pass(ci)')
    BY <2>1 DEF PlaceInv
  <2>5. QED BY <1>1, <1>6, <2>3, <2>4 DEF PlaceInv
<1>9. BuffersInv'
  BY <1>1, DeviceStays
<1>10. StreamsInv'
  <2>1. \A c \in ChildIds : stream[c] = <<>>
    BY <1>1, <1>2, StreamsEmpty
  <2>2. cfg' = cfg /\ stream' = stream
    BY <1>1 DEF Frozen, childVars
  <2>3. QED BY <1>6, <2>1, <2>2, StreamsStayEmpty
<1>11. OutInv'
  <2>1. ASSUME NEW c \in Children PROVE OutRight(c)'
    <3>1. c \in Nat /\ ci \in Nat
      BY <1>2, <1>3
    <3>2. RowsDecoded(c) = IF c <= ci THEN Len(Pass(c)) ELSE 0
      BY <1>1, <1>5, <3>1 DEF RowsDecoded
    <3>3. RowsDecoded(c)' = IF c <= ci THEN Len(Pass(c)) ELSE 0
      <4>1. CASE ci + 1 \in Children
        <5>1. pc' = "serial" /\ ci' = ci + 1 /\ (c < ci + 1 <=> c <= ci)
          BY <1>1, <3>1, <4>1
        <5>2. QED BY <1>1, <1>4, <5>1 DEF RowsDecoded
      <4>2. CASE ci + 1 \notin Children
        <5>1. pc' = "results" /\ c <= ci
          BY <1>1, <1>2, <1>3, <4>2
        <5>2. QED BY <1>4, <5>1 DEF RowsDecoded
      <4>3. QED BY <4>1, <4>2
    <3>4. QED BY <1>1, <1>2, <3>2, <3>3, OutputsStay
  <2>2. QED BY <1>1, <1>2, <1>4, <2>1 DEF OutInv
<1>12. QED BY <1>7, <1>8, <1>9, <1>10, <1>11 DEF CascadeInv

\* The results published: nothing is in hand any more.
LEMMA PublishResultsKeeps ==
  ASSUME CascadeInv, PublishResults
  PROVE  CascadeInv'
<1>1. /\ pc = "results" /\ pc' = "take" /\ batch' = <<>> /\ cfg' = cfg /\ verdict' = verdict
      /\ ring' = ring /\ off' = off /\ childVars' = childVars /\ stream' = stream
  BY DEF PublishResults, childVars
<1>2. ConfigInv'
  BY <1>1, ConfigStays DEF CascadeInv
<1>3. BatchInv'
  <2>1. 0 \in 0..MaxSlots /\ 1..0 = {}
    BY CascadeAssumption
  <2>2. batch' \in [1..0 -> [scene : Scenes, live : BOOLEAN]]
    BY <1>1, <2>1
  <2>3. DOMAIN ring' = 1..MaxSlots
    BY <1>1 DEF CascadeInv, BatchInv
  <2>4. QED BY <1>1, <2>1, <2>2, <2>3, Zenon DEF BatchInv
<1>4. TilesInv' /\ PlaceInv' /\ OutInv'
  BY <1>1 DEF CascadeInv, TilesInv, PlaceInv, OutInv, AtChildren
<1>5. BuffersInv'
  BY <1>1, BuffersStay DEF CascadeInv
<1>6. StreamsInv'
  <2>1. \A c \in ChildIds : stream[c] = <<>>
    BY <1>1, StreamsEmpty DEF CascadeInv
  <2>2. QED BY <1>1, <2>1, StreamsStayEmpty
<1>7. QED BY <1>2, <1>3, <1>4, <1>5, <1>6 DEF CascadeInv

-----------------------------------------------------------------------------
(* The theorems *)

\* The invariant holds in every state of every run: what is left on a child's CUDA stream is
\* a tail of what was queued, what the earlier operations did is in the buffers, the frame
\* copies under the batch in hand are its own, and outputs hold the rows decoded so far.
THEOREM CascadeInvariant == Spec => []CascadeInv
<1>1. CascadeInv /\ [Next]_vars => CascadeInv'
  <2> SUFFICES ASSUME CascadeInv, [Next]_vars PROVE CascadeInv'
    OBVIOUS
  <2>1. CASE TakeBatch
    BY <2>1, TakeBatchKeeps
  <2>2. CASE InferTiles
    BY <2>2, InferTilesKeeps
  <2>3. CASE MergeTiles
    BY <2>3, MergeTilesKeeps
  <2>4. CASE MakeCrops
    BY <2>4, MakeCropsKeeps
  <2>5. CASE EnqueueChild
    BY <2>5, EnqueueChildKeeps
  <2>6. CASE JoinChild
    BY <2>6, JoinChildKeeps
  <2>7. CASE SerialChunk
    BY <2>7, SerialChunkKeeps
  <2>8. CASE SerialDecode
    BY <2>8, SerialDecodeKeeps
  <2>9. CASE SerialNext
    BY <2>9, SerialNextKeeps
  <2>10. CASE PublishResults
    BY <2>10, PublishResultsKeeps
  <2>11. ASSUME NEW c \in DOMAIN stream, RunOp(c) PROVE CascadeInv'
    BY <2>11, RunOpKeeps
  <2>12. CASE UNCHANGED vars
    <3>1. /\ Frozen /\ verdict' = verdict /\ pc' = pc /\ ring' = ring /\ off' = off /\ ci' = ci
          /\ out' = out /\ todo' = todo /\ merge' = merge /\ childVars' = childVars
      BY <2>12 DEF vars, Frozen
    <3>2. /\ Children' = Children /\ Slots' = Slots /\ ChildIds' = ChildIds
          /\ \A c : Pass(c)' = Pass(c) /\ CropsOf(c)' = CropsOf(c) /\ RowsWanted(c)' = RowsWanted(c)
      BY <3>1, CropsStay
    <3>3. ConfigInv' /\ BatchInv' /\ TilesInv' /\ PlaceInv'
      <4>1. ConfigInv'
        BY <3>1 DEF CascadeInv, ConfigInv, AtChildren, Frozen
      <4>2. BatchInv'
        BY <3>1, <3>2 DEF CascadeInv, BatchInv, Frozen
      <4>3. TilesInv' /\ PlaceInv'
        BY <3>1, <3>2 DEF CascadeInv, TilesInv, PlaceInv, AtChildren
      <4>4. QED BY <4>1, <4>2, <4>3
    <3>4. BuffersInv' /\ \A c : /\ stream'[c] = stream[c] /\ d_crops'[c] = d_crops[c]
                                /\ output'[c] = output[c] /\ host'[c] = host[c]
      BY <3>1, DeviceStays
    <3>5. \A c : /\ OnStream(c)' <=> OnStream(c)
                 /\ FirstRow' = FirstRow /\ RowsDue(c)' = RowsDue(c) /\ RowsDecoded(c)' = RowsDecoded(c)
      <4>1. \A c : OnStream(c)' <=> OnStream(c)
        BY <3>1 DEF OnStream
      <4>2. \A c : FirstRow' = FirstRow /\ RowsDue(c)' = RowsDue(c)
        BY <3>1, <3>2 DEF FirstRow, RowsDue, Chunk
      <4>3. \A c : RowsDecoded(c)' = RowsDecoded(c)
        BY <3>1, <3>2 DEF RowsDecoded
      <4>4. QED BY <4>1, <4>2, <4>3
    <3>6. StreamsInv'
      <4>1. \A c \in ChildIds : StreamRight(c)'
        BY <3>1, <3>4, <3>5, StreamStays DEF CascadeInv, StreamsInv
      <4>2. QED BY <3>2, <4>1 DEF StreamsInv
    <3>7. OutInv'
      <4>1. ASSUME pc = "results" \/ AtChildren PROVE \A c \in Children : OutRight(c)'
        BY <3>1, <3>5, <4>1, OutputsStay DEF CascadeInv, OutInv
      <4>2. AtChildren' <=> AtChildren
        BY <3>1 DEF AtChildren
      <4>3. QED BY <3>1, <3>2, <4>1, <4>2 DEF CascadeInv, OutInv
    <3>8. QED BY <3>3, <3>4, <3>6, <3>7 DEF CascadeInv
  <2>13. QED
    BY <2>1, <2>2, <2>3, <2>4, <2>5, <2>6, <2>7, <2>8, <2>9, <2>10, <2>11, <2>12
    DEF Next, HostStep
<1>2. QED BY <1>1, InitHolds, PTL DEF Spec

\* Once the results are built, every detection has what its wires say.
LEMMA OutputsOf ==
  ASSUME CascadeInv, pc = "results", NEW c \in DOMAIN ChildLayers(cfg), NEW s \in Slots,
         batch[s].live, NEW k \in DOMAIN kept[s]
  PROVE  LET rect == CropRect(kept[s][k], batch[s].scene)
             routed == \A i \in Wired(c, "Select") : Passes(StepAt(cfg, i), kept[s][k], rect)
         IN  IF routed
             THEN \E e \in Wired(c, "Engine") :
                    out[c][s][k] = [engine |-> e, slot |-> s, take |-> takes, rect |-> rect]
             ELSE out[c][s][k] = None
<1> DEFINE rect == CropRect(kept[s][k], batch[s].scene)
           routed == \A i \in Wired(c, "Select") : Passes(StepAt(cfg, i), kept[s][k], rect)
           crops == CropsOf(c)
           rows == RowsWanted(c)
           l == Len(Pass(c))
           v == out[c][s][k]
<1>1. cfg \in Configs /\ Verdict(cfg) = "ok" /\ InHand
  BY BatchFacts DEF CascadeInv, ConfigInv
<1>2. /\ c \in Children /\ Wired(c, "Engine") = {Child(c).engine}
      /\ Wired(c, "Select") = IF Child(c).select = NoStep THEN {} ELSE {Child(c).select}
  BY <1>1, PlanFollowsWires
<1>3. routed <=> RoutedTo(c, s, k)
  BY <1>2 DEF RoutedTo
<1>4. FilledAt(v, crops, rows, l, s, k)
  <2>1. OutRight(c) /\ RowsDecoded(c) = l
    BY <1>2 DEF CascadeInv, OutInv, RowsDecoded
  <2>2. s \in DOMAIN out[c] /\ k \in DOMAIN out[c][s]
    BY <2>1 DEF OutRight
  <2>3. QED BY <2>1, <2>2 DEF OutRight, Filled
<1>5. HoldsRouted(crops, c) /\ l = Len(crops)
  BY <1>1, ChildCrops
<1>6. \A p \in 1..l : rows[p] = [engine |-> Child(c).engine, slot |-> crops[p].slot,
                                 take |-> takes, rect |-> crops[p].rect]
  BY <1>1, RowsAgree
<1>7. \A t, j : CropAt(t, j).slot = t /\ CropAt(t, j).det = j
  BY DEF CropAt
<1>8. CropAt(s, k).rect = rect
  BY DEF CropAt
<1> HIDE DEF crops, rows, v, rect, l
<1>9. CASE RoutedTo(c, s, k)
  <2>1. PICK p \in 1..Len(crops) : crops[p] = CropAt(s, k)
    BY <1>5, <1>9, Zenon DEF HoldsRouted
  <2>2. p \in 1..l /\ crops[p].slot = s /\ crops[p].det = k /\ crops[p].rect = rect
    BY <1>5, <1>7, <1>8, <2>1
  <2>3. v = rows[p]
    BY <1>4, <2>2 DEF FilledAt
  <2>4. v = [engine |-> Child(c).engine, slot |-> s, take |-> takes, rect |-> rect]
    BY <1>6, <2>2, <2>3
  <2>5. QED BY <1>2, <1>3, <1>9, <2>4 DEF v, rect
<1>10. CASE ~RoutedTo(c, s, k)
  <2>1. ASSUME NEW p \in 1..l, crops[p].slot = s /\ crops[p].det = k PROVE FALSE
    <3>1. PICK t \in Slots : batch[t].live /\ \E j \in DOMAIN kept[t] :
                               RoutedTo(c, t, j) /\ crops[p] = CropAt(t, j)
      <4>1. p \in 1..Len(crops)
        BY <1>5
      <4>2. QED BY <1>5, <4>1, Zenon DEF HoldsRouted
    <3>2. PICK j \in DOMAIN kept[t] : RoutedTo(c, t, j) /\ crops[p] = CropAt(t, j)
      BY <3>1, Zenon
    <3>3. t = s /\ j = k
      BY <1>7, <2>1, <3>2
    <3>4. QED BY <1>10, <3>2, <3>3
  <2>2. v = None
    BY <1>4, <2>1 DEF FilledAt
  <2>3. QED BY <1>3, <1>10, <2>2 DEF v, rect
<1>11. QED BY <1>9, <1>10

\* GpuLoop gives every detection, for every child layer, what that layer's engine says of
\* that detection's pixels in that very frame, or nothing if a Select drops it; whatever
\* the number of crops, the batch sizes, the tiles and the pace of the CUDA streams.
THEOREM EveryOutputFollowsItsWires == Spec => []OutputsFollowWires
<1>1. CascadeInv => OutputsFollowWires
  BY OutputsOf, Zenon DEF OutputsFollowWires
<1>2. QED BY <1>1, CascadeInvariant, PTL

\* Pipeline::Validate accepts a graph whose wires exist exactly when it is a tree of depth
\* two that the executor can run, for every configuration.
THEOREM AcceptedGraphsAreTrees == Spec => []AcceptedIffTree
<1>1. CascadeInv => AcceptedIffTree
  <2> SUFFICES ASSUME CascadeInv, verdict \in {"ok", "graph", "chained"}, WiresExist(cfg)
               PROVE  verdict = "ok" <=> IsTree(cfg)
    BY Zenon DEF AcceptedIffTree
  <2>1. cfg \in Configs /\ verdict = Verdict(cfg)
    BY DEF CascadeInv, ConfigInv
  <2>2. GraphTyped(cfg)
    BY <2>1, ConfigIsTyped
  <2>3. QED BY <2>1, <2>2, AcceptedIffTreeOf
<1>2. QED BY <1>1, CascadeInvariant, PTL

-----------------------------------------------------------------------------
(* The compiler, step by step *)

\* The recursion of FoldLeft over a layer's steps, as AddLayer uses it, for the steps of
\* each set of places up to m.
StepFold(p, steps, base, m, f) ==
  \A T \in SUBSET (1..m) :
    f[T] = IF T = {} THEN base ELSE AddStep(p, f[T \ {Max(T)}], steps[Max(T)])

\* One step more.
LEMMA StepFoldGrows ==
  ASSUME NEW p, NEW steps, NEW base, NEW m \in Nat, NEW f, StepFold(p, steps, base, m, f)
  PROVE  \E g : StepFold(p, steps, base, m + 1, g)
<1> DEFINE g == [T \in SUBSET (1..(m + 1)) |->
                   IF m + 1 \in T THEN AddStep(p, f[T \ {m + 1}], steps[m + 1]) ELSE f[T]]
<1>1. \A T \in SUBSET (1..(m + 1)) :
        g[T] = IF m + 1 \in T THEN AddStep(p, f[T \ {m + 1}], steps[m + 1]) ELSE f[T]
  BY Zenon
<1>2. \A T \in SUBSET (1..(m + 1)) : \A x : T \ {x} \in SUBSET (1..(m + 1))
  OBVIOUS
<1>3. \A T \in SUBSET (1..(m + 1)) : m + 1 \notin T => T \in SUBSET (1..m)
  OBVIOUS
<1> HIDE DEF g
<1>4. ASSUME NEW T \in SUBSET (1..(m + 1))
      PROVE  g[T] = IF T = {} THEN base ELSE AddStep(p, g[T \ {Max(T)}], steps[Max(T)])
  <2>1. CASE m + 1 \in T
    <3>1. Max(T) = m + 1 /\ T # {}
      BY <2>1, MaxIs
    <3>2. g[T \ {m + 1}] = f[T \ {m + 1}]
      <4>1. m + 1 \notin T \ {m + 1} /\ T \ {m + 1} \in SUBSET (1..(m + 1))
        BY <1>2
      <4>2. QED BY <1>1, <4>1, Zenon
    <3>3. QED BY <1>1, <2>1, <3>1, <3>2, Zenon
  <2>2. CASE m + 1 \notin T
    <3>1. T \in SUBSET (1..m)
      BY <1>3, <2>2
    <3>2. f[T] = IF T = {} THEN base ELSE AddStep(p, f[T \ {Max(T)}], steps[Max(T)])
      BY <3>1, Zenon DEF StepFold
    <3>3. g[T] = f[T]
      BY <1>1, <2>2, Zenon
    <3>4. g[T \ {Max(T)}] = f[T \ {Max(T)}]
      <4>1. m + 1 \notin T \ {Max(T)} /\ T \ {Max(T)} \in SUBSET (1..(m + 1))
        BY <1>2, <2>2
      <4>2. QED BY <1>1, <4>1, Zenon
    <3>5. QED BY <3>2, <3>3, <3>4, Zenon
  <2>3. QED BY <2>1, <2>2
<1>5. QED BY <1>4, Zenon DEF StepFold

\* The last of the places up to m.
LEMMA LastPlace ==
  ASSUME NEW n \in Nat, NEW m \in 1..n
  PROVE  1..m # {} /\ (1..m) \ {m} = 1..(m - 1) /\ Max(1..m) = m
<1> DEFINE k == m - 1
<1>1. k \in Nat /\ m = k + 1
  OBVIOUS
<1> HIDE DEF k
<1> DEFINE T == 1..(k + 1)
<1>2. T \in SUBSET (1..(k + 1)) /\ k + 1 \in T /\ T \ {k + 1} = 1..((k + 1) - 1)
  BY <1>1
<1> HIDE DEF T
<1>3. Max(T) = k + 1
  BY <1>1, <1>2, MaxIs
<1>4. QED BY <1>1, <1>2, <1>3 DEF T

\* What AddLayer folds over the steps.
AllSteps(p, base, steps) == FoldLeft(LAMBDA a, o : AddStep(p, a, o), base, steps)

\* It takes one step after another: what is compiled after m of them is acc[m].
OneByOne(p, steps, base, acc) ==
  /\ acc[0] = base
  /\ \A m \in 1..Len(steps) : acc[m] = AddStep(p, acc[m - 1], steps[m])

\* So FoldLeft folds them.
LEMMA StepsOneByOne ==
  ASSUME NEW p, NEW steps, IsASeq(steps), NEW base
  PROVE  \E acc : OneByOne(p, steps, base, acc) /\ AllSteps(p, base, steps) = acc[Len(steps)]
<1> DEFINE n == Len(steps)
           S == DOMAIN steps
           G == {m \in Nat : \E f : StepFold(p, steps, base, m, f)}
           Rec(f) == f = [T \in SUBSET S |->
                            IF T = {} THEN base ELSE AddStep(p, f[T \ {Max(T)}], steps[Max(T)])]
<1>1. n \in Nat /\ S = 1..n
  BY IsASeqOver
<1>2. 0 \in G
  <2>1. 1..0 = {}
    OBVIOUS
  <2>2. \A T \in SUBSET (1..0) : T = {}
    BY <2>1
  <2>3. StepFold(p, steps, base, 0, [T \in {{}} |-> base])
    BY <2>2 DEF StepFold
  <2>4. QED BY <2>3
<1>3. \A m \in 0..(n - 1) : m \in G => m + 1 \in G
  <2>1. SUFFICES ASSUME NEW m \in Nat, m \in G PROVE m + 1 \in G
    OBVIOUS
  <2>2. m + 1 \in Nat
    OBVIOUS
  <2>3. QED BY <2>1, <2>2, StepFoldGrows, Zenon
<1> HIDE DEF G
<1>4. n \in G
  <2>1. \A m \in 0..n : m \in G
    BY <1>1, <1>2, <1>3, UpTo, Zenon
  <2>2. QED BY <1>1, <2>1
<1>5. PICK f : StepFold(p, steps, base, n, f)
  BY <1>4 DEF G
<1> DEFINE r == [T \in SUBSET S |-> f[T]]
<1>6. \A T \in SUBSET S : r[T] = f[T] /\ T \ {Max(T)} \in SUBSET S
  OBVIOUS
<1>7. Rec(r)
  <2>1. \A T \in SUBSET S :
          f[T] = IF T = {} THEN base ELSE AddStep(p, r[T \ {Max(T)}], steps[Max(T)])
    BY <1>1, <1>5, <1>6, Zenon DEF StepFold
  <2>2. QED BY <2>1, Zenon
<1> DEFINE b == CHOOSE f_ : Rec(f_)
<1>8. Rec(b)
  BY <1>7, Zenon
<1>9. AllSteps(p, base, steps) = b[S]
  BY Zenon DEF AllSteps, FoldLeft, MapThenFoldSet
<1> HIDE DEF b
<1>10. \A T \in SUBSET (1..n) :
         b[T] = IF T = {} THEN base ELSE AddStep(p, b[T \ {Max(T)}], steps[Max(T)])
  BY <1>1, <1>8, Zenon
<1> DEFINE acc == [m \in 0..n |-> b[1..m]]
<1>11. \A m \in 0..n : acc[m] = b[1..m] /\ 1..m \in SUBSET (1..n)
  BY <1>1
<1>12. acc[0] = base
  <2>1. 1..0 = {} /\ 0 \in 0..n
    BY <1>1
  <2>2. QED BY <1>10, <1>11, <2>1, Zenon
<1>13. ASSUME NEW m \in 1..n PROVE acc[m] = AddStep(p, acc[m - 1], steps[m])
  <2>1. m - 1 \in Nat /\ m - 1 \in 0..n /\ m \in 0..n /\ (m - 1) + 1 = m /\ m \in 1..m
    BY <1>1
  <2>2. 1..m # {} /\ (1..m) \ {m} = 1..(m - 1) /\ Max(1..m) = m
    BY <2>1, LastPlace
  <2>3. b[1..m] = AddStep(p, b[1..(m - 1)], steps[m])
    BY <1>10, <1>11, <2>1, <2>2, Zenon
  <2>4. QED BY <1>11, <2>1, <2>3, Zenon
<1> HIDE DEF acc
<1>14. OneByOne(p, steps, base, acc)
  BY <1>12, <1>13, Zenon DEF OneByOne
<1>15. n \in 0..n
  BY <1>1
<1>16. QED BY <1>1, <1>9, <1>11, <1>14, <1>15, Zenon

-----------------------------------------------------------------------------
(* And layer by layer *)

\* The recursion of FoldLeft over a program's layers, as CompileLayers uses it, for the
\* layers of each set of places up to m.
LayerFold(p, layers, base, m, f) ==
  \A T \in SUBSET (1..m) :
    f[T] = IF T = {} THEN base ELSE AddLayer(p, f[T \ {Max(T)}], layers[Max(T)])

\* One layer more.
LEMMA LayerFoldGrows ==
  ASSUME NEW p, NEW layers, NEW base, NEW m \in Nat, NEW f, LayerFold(p, layers, base, m, f)
  PROVE  \E g : LayerFold(p, layers, base, m + 1, g)
<1> DEFINE g == [T \in SUBSET (1..(m + 1)) |->
                   IF m + 1 \in T THEN AddLayer(p, f[T \ {m + 1}], layers[m + 1]) ELSE f[T]]
<1>1. \A T \in SUBSET (1..(m + 1)) :
        g[T] = IF m + 1 \in T THEN AddLayer(p, f[T \ {m + 1}], layers[m + 1]) ELSE f[T]
  BY Zenon
<1>2. \A T \in SUBSET (1..(m + 1)) : \A x : T \ {x} \in SUBSET (1..(m + 1))
  OBVIOUS
<1>3. \A T \in SUBSET (1..(m + 1)) : m + 1 \notin T => T \in SUBSET (1..m)
  OBVIOUS
<1> HIDE DEF g
<1>4. ASSUME NEW T \in SUBSET (1..(m + 1))
      PROVE  g[T] = IF T = {} THEN base ELSE AddLayer(p, g[T \ {Max(T)}], layers[Max(T)])
  <2>1. CASE m + 1 \in T
    <3>1. Max(T) = m + 1 /\ T # {}
      BY <2>1, MaxIs
    <3>2. g[T \ {m + 1}] = f[T \ {m + 1}]
      <4>1. m + 1 \notin T \ {m + 1} /\ T \ {m + 1} \in SUBSET (1..(m + 1))
        BY <1>2
      <4>2. QED BY <1>1, <4>1, Zenon
    <3>3. QED BY <1>1, <2>1, <3>1, <3>2, Zenon
  <2>2. CASE m + 1 \notin T
    <3>1. T \in SUBSET (1..m)
      BY <1>3, <2>2
    <3>2. f[T] = IF T = {} THEN base ELSE AddLayer(p, f[T \ {Max(T)}], layers[Max(T)])
      BY <3>1, Zenon DEF LayerFold
    <3>3. g[T] = f[T]
      BY <1>1, <2>2, Zenon
    <3>4. g[T \ {Max(T)}] = f[T \ {Max(T)}]
      <4>1. m + 1 \notin T \ {Max(T)} /\ T \ {Max(T)} \in SUBSET (1..(m + 1))
        BY <1>2, <2>2
      <4>2. QED BY <1>1, <4>1, Zenon
    <3>5. QED BY <3>2, <3>3, <3>4, Zenon
  <2>3. QED BY <2>1, <2>2
<1>5. QED BY <1>4, Zenon DEF LayerFold

\* What CompileLayers folds over the layers.
AllLayers(p, base, layers) == FoldLeft(LAMBDA a, o : AddLayer(p, a, o), base, layers)

\* It takes one layer after another: what is compiled after m of them is acc[m].
InTurn(p, layers, base, acc) ==
  /\ acc[0] = base
  /\ \A m \in 1..Len(layers) : acc[m] = AddLayer(p, acc[m - 1], layers[m])

\* So FoldLeft folds them.
LEMMA LayersInTurn ==
  ASSUME NEW p, NEW layers, IsASeq(layers), NEW base
  PROVE  \E acc : InTurn(p, layers, base, acc) /\ AllLayers(p, base, layers) = acc[Len(layers)]
<1> DEFINE n == Len(layers)
           S == DOMAIN layers
           G == {m \in Nat : \E f : LayerFold(p, layers, base, m, f)}
           Rec(f) == f = [T \in SUBSET S |->
                            IF T = {} THEN base ELSE AddLayer(p, f[T \ {Max(T)}], layers[Max(T)])]
<1>1. n \in Nat /\ S = 1..n
  BY IsASeqOver
<1>2. 0 \in G
  <2>1. 1..0 = {}
    OBVIOUS
  <2>2. \A T \in SUBSET (1..0) : T = {}
    BY <2>1
  <2>3. LayerFold(p, layers, base, 0, [T \in {{}} |-> base])
    BY <2>2 DEF LayerFold
  <2>4. QED BY <2>3
<1>3. \A m \in 0..(n - 1) : m \in G => m + 1 \in G
  <2>1. SUFFICES ASSUME NEW m \in Nat, m \in G PROVE m + 1 \in G
    OBVIOUS
  <2>2. m + 1 \in Nat
    OBVIOUS
  <2>3. QED BY <2>1, <2>2, LayerFoldGrows, Zenon
<1> HIDE DEF G
<1>4. n \in G
  <2>1. \A m \in 0..n : m \in G
    BY <1>1, <1>2, <1>3, UpTo, Zenon
  <2>2. QED BY <1>1, <2>1
<1>5. PICK f : LayerFold(p, layers, base, n, f)
  BY <1>4 DEF G
<1> DEFINE r == [T \in SUBSET S |-> f[T]]
<1>6. \A T \in SUBSET S : r[T] = f[T] /\ T \ {Max(T)} \in SUBSET S
  OBVIOUS
<1>7. Rec(r)
  <2>1. \A T \in SUBSET S :
          f[T] = IF T = {} THEN base ELSE AddLayer(p, r[T \ {Max(T)}], layers[Max(T)])
    BY <1>1, <1>5, <1>6, Zenon DEF LayerFold
  <2>2. QED BY <2>1, Zenon
<1> DEFINE b == CHOOSE f_ : Rec(f_)
<1>8. Rec(b)
  BY <1>7, Zenon
<1>9. AllLayers(p, base, layers) = b[S]
  BY Zenon DEF AllLayers, FoldLeft, MapThenFoldSet
<1> HIDE DEF b
<1>10. \A T \in SUBSET (1..n) :
         b[T] = IF T = {} THEN base ELSE AddLayer(p, b[T \ {Max(T)}], layers[Max(T)])
  BY <1>1, <1>8, Zenon
<1> DEFINE acc == [m \in 0..n |-> b[1..m]]
<1>11. \A m \in 0..n : acc[m] = b[1..m] /\ 1..m \in SUBSET (1..n)
  BY <1>1
<1>12. acc[0] = base
  <2>1. 1..0 = {} /\ 0 \in 0..n
    BY <1>1
  <2>2. QED BY <1>10, <1>11, <2>1, Zenon
<1>13. ASSUME NEW m \in 1..n PROVE acc[m] = AddLayer(p, acc[m - 1], layers[m])
  <2>1. m - 1 \in Nat /\ m - 1 \in 0..n /\ m \in 0..n /\ (m - 1) + 1 = m /\ m \in 1..m
    BY <1>1
  <2>2. 1..m # {} /\ (1..m) \ {m} = 1..(m - 1) /\ Max(1..m) = m
    BY <2>1, LastPlace
  <2>3. b[1..m] = AddLayer(p, b[1..(m - 1)], layers[m])
    BY <1>10, <1>11, <2>1, <2>2, Zenon
  <2>4. QED BY <1>11, <2>1, <2>3, Zenon
<1> HIDE DEF acc
<1>14. InTurn(p, layers, base, acc)
  BY <1>12, <1>13, Zenon DEF InTurn
<1>15. n \in 0..n
  BY <1>1
<1>16. QED BY <1>1, <1>9, <1>11, <1>14, <1>15, Zenon

\* L is the first m sequences one after the other, the j-th behind the first at[j - 1]
\* elements.
PlacedUpTo(ss, m, at, L) ==
  /\ IsASeq(L) /\ Len(L) = at[m] /\ at[0] = 0
  /\ \A j \in 1..m : at[j - 1] \in Nat /\ at[j] = at[j - 1] + Len(ss[j])
  /\ \A j \in 1..m : \A i \in 1..Len(ss[j]) :
       at[j - 1] + i \in 1..Len(L) /\ L[at[j - 1] + i] = ss[j][i]
  /\ \A k \in 1..Len(L) : \E j \in 1..m : \E i \in 1..Len(ss[j]) : k = at[j - 1] + i

Placed(ss, at, L) == PlacedUpTo(ss, Len(ss), at, L)

\* One sequence more.
LEMMA PlacedOneMore ==
  ASSUME NEW ss, NEW m \in Nat, NEW at, NEW L, PlacedUpTo(ss, m, at, L), IsASeq(ss[m + 1]),
         at[m + 1] = at[m] + Len(ss[m + 1])
  PROVE  PlacedUpTo(ss, m + 1, at, L \o ss[m + 1])
<1> DEFINE t == ss[m + 1]
           u == L \o t
           a == at[m]
<1>0. IsASeq(L) /\ IsASeq(t)
  BY Zenon DEF PlacedUpTo
<1>1. /\ IsASeq(u) /\ Len(u) = Len(L) + Len(t)
      /\ \A p \in 1..Len(L) : u[p] = L[p]
      /\ \A p \in 1..Len(t) : u[Len(L) + p] = t[p]
  <2>1. Joined(u, L, t)
    BY <1>0, ConcatJoins, Zenon
  <2>2. QED BY <2>1, Zenon DEF Joined
<1>2. Len(L) \in Nat /\ Len(t) \in Nat /\ Len(L) = a /\ at[0] = 0 /\ at[m + 1] = a + Len(t)
  BY DEF IsASeq, PlacedUpTo
<1>3. (m + 1) - 1 = m /\ m + 1 \in 1..(m + 1) /\ (\A j \in 1..(m + 1) : j = m + 1 \/ j \in 1..m)
      /\ \A j \in 1..m : j \in 1..(m + 1)
  OBVIOUS
<1> HIDE DEF t, u, a
<1>4. ASSUME NEW j \in 1..(m + 1) PROVE at[j - 1] \in Nat /\ at[j] = at[j - 1] + Len(ss[j])
  <2>1. CASE j = m + 1
    BY <1>2, <1>3, <2>1 DEF a, t
  <2>2. CASE j \in 1..m
    BY <2>2 DEF PlacedUpTo
  <2>3. QED BY <1>3, <2>1, <2>2
<1>5. ASSUME NEW j \in 1..(m + 1), NEW i \in 1..Len(ss[j])
      PROVE  at[j - 1] + i \in 1..Len(u) /\ u[at[j - 1] + i] = ss[j][i]
  <2>1. CASE j = m + 1
    <3>1. at[j - 1] = Len(L) /\ ss[j] = t /\ i \in 1..Len(t)
      BY <1>2, <1>3, <2>1 DEF a, t
    <3>2. Len(L) + i \in 1..Len(u)
      BY <1>1, <1>2, <3>1
    <3>3. QED BY <1>1, <3>1, <3>2
  <2>2. CASE j \in 1..m
    <3>1. at[j - 1] + i \in 1..Len(L) /\ L[at[j - 1] + i] = ss[j][i]
      BY <2>2 DEF PlacedUpTo
    <3>2. at[j - 1] + i \in 1..Len(u)
      BY <1>1, <1>2, <3>1
    <3>3. QED BY <1>1, <3>1, <3>2
  <2>3. QED BY <1>3, <2>1, <2>2
<1>6. ASSUME NEW k \in 1..Len(u)
      PROVE  \E j \in 1..(m + 1) : \E i \in 1..Len(ss[j]) : k = at[j - 1] + i
  <2>1. CASE k <= Len(L)
    <3>1. k \in 1..Len(L)
      BY <1>1, <1>2, <2>1
    <3>2. PICK j \in 1..m : \E i \in 1..Len(ss[j]) : k = at[j - 1] + i
      BY <3>1 DEF PlacedUpTo
    <3>3. QED BY <1>3, <3>2
  <2>2. CASE k > Len(L)
    <3>1. k - Len(L) \in 1..Len(t) /\ k = a + (k - Len(L))
      BY <1>1, <1>2, <2>2
    <3>2. at[(m + 1) - 1] = a /\ ss[m + 1] = t
      BY <1>3 DEF a, t
    <3>3. QED BY <1>3, <3>1, <3>2
  <2>3. QED BY <1>1, <1>2, <2>1, <2>2
<1>7. Len(u) = at[m + 1]
  BY <1>1, <1>2
<1>8. PlacedUpTo(ss, m + 1, at, u)
  BY <1>1, <1>2, <1>4, <1>5, <1>6, <1>7, Zenon DEF PlacedUpTo
<1>9. QED BY <1>8 DEF u, t

\* The empty sequence in front of another.
LEMMA NothingBefore ==
  ASSUME NEW s, IsASeq(s)
  PROVE  << >> \o s = s
<1>1. IsASeq(<< >>) /\ Len(<< >>) = 0 /\ Len(s) \in Nat /\ s = [i \in 1..Len(s) |-> s[i]]
  BY DEF IsASeq
<1> DEFINE u == << >> \o s
<1>2. /\ IsASeq(u) /\ Len(u) = Len(<< >>) + Len(s)
      /\ \A i \in 1..Len(s) : u[Len(<< >>) + i] = s[i]
  BY <1>1, ConcatFacts
<1> HIDE DEF u
<1>3. Len(u) = Len(s) /\ (\A i \in 1..Len(s) : u[i] = s[i]) /\ u = [i \in 1..Len(u) |-> u[i]]
  BY <1>1, <1>2 DEF IsASeq
<1>4. u = s
  BY <1>1, <1>3
<1>5. QED BY <1>4 DEF u

\* FlattenSeq puts them so.
LEMMA FlattenPlaces ==
  ASSUME NEW ss, IsSeqs(ss)
  PROVE  \E at : Placed(ss, at, FlattenSeq(ss))
<1>1. Len(ss) \in Nat /\ IsASeq(ss)
  BY DEF IsSeqs, IsASeq
<1>2. CASE Len(ss) = 0
  <2>1. FlattenSeq(ss) = ss
    BY <1>2 DEF FlattenSeq
  <2> DEFINE at == [j \in {0} |-> 0]
  <2>2. PlacedUpTo(ss, 0, at, ss)
    BY <1>1, <1>2 DEF PlacedUpTo
  <2>3. QED BY <1>2, <2>1, <2>2 DEF Placed
<1>3. CASE Len(ss) # 0
  <2> DEFINE n == Len(ss)
  <2>1. PICK f : Flattening(ss, n, f) /\ FlattenSeq(ss) = f[n]
    BY <1>1, <1>3, FlatteningExists, Zenon
  <2> DEFINE P(m) == IF m = 0 THEN << >> ELSE f[m]
             at == [j \in 0..n |-> Len(P(j))]
             G == {m \in Nat : m <= n => PlacedUpTo(ss, m, at, P(m))}
  <2>2. \A m \in 0..n : at[m] = Len(P(m))
    OBVIOUS
  <2>3. P(0) = << >> /\ P(n) = f[n] /\ n \in 0..n /\ 0 \in 0..n
    BY <1>1, <1>3
  <2>4. ASSUME NEW m \in 0..(n - 1) PROVE P(m + 1) = P(m) \o ss[m + 1] /\ IsASeq(ss[m + 1])
    <3>1. m + 1 \in 1..n /\ (m + 1) - 1 = m /\ m + 1 # 0 /\ (m + 1 = 1 <=> m = 0)
      BY <1>1
    <3>2. IsASeq(ss[m + 1])
      BY <3>1 DEF IsSeqs
    <3>3. f[m + 1] = IF m = 0 THEN ss[m + 1] ELSE f[m] \o ss[m + 1]
      BY <2>1, <3>1, Zenon DEF Flattening
    <3>4. << >> \o ss[m + 1] = ss[m + 1]
      BY <3>2, NothingBefore, Zenon
    <3>5. QED BY <3>1, <3>2, <3>3, <3>4, Zenon
  <2> HIDE DEF P, at
  <2>5. 0 \in G
    <3>1. IsASeq(<< >>) /\ Len(<< >>) = 0
      BY DEF IsASeq
    <3>2. at[0] = 0
      BY <2>2, <2>3, <3>1
    <3>3. PlacedUpTo(ss, 0, at, << >>)
      BY <3>1, <3>2 DEF PlacedUpTo
    <3>4. QED BY <2>3, <3>3
  <2>6. \A m \in 0..(n - 1) : m \in G => m + 1 \in G
    <3> SUFFICES ASSUME NEW m \in 0..(n - 1), m \in G PROVE m + 1 \in G
      OBVIOUS
    <3>1. m \in Nat /\ m + 1 \in Nat /\ m \in 0..n /\ m + 1 \in 0..n /\ m <= n
      BY <1>1
    <3>2. PlacedUpTo(ss, m, at, P(m))
      BY <3>1
    <3>3. at[m + 1] = at[m] + Len(ss[m + 1])
      <4>1. IsASeq(P(m)) /\ IsASeq(ss[m + 1])
        BY <2>4, <3>2 DEF PlacedUpTo
      <4>2. Len(P(m) \o ss[m + 1]) = Len(P(m)) + Len(ss[m + 1])
        BY <4>1, ConcatFacts
      <4>3. QED BY <2>2, <2>4, <3>1, <4>2
    <3>4. PlacedUpTo(ss, m + 1, at, P(m) \o ss[m + 1])
      BY <2>4, <3>1, <3>2, <3>3, PlacedOneMore, Zenon
    <3>5. QED BY <2>4, <3>1, <3>4
  <2> HIDE DEF G
  <2>7. n \in G
    <3>1. \A m \in 0..n : m \in G
      BY <1>1, <2>5, <2>6, UpTo, Zenon
    <3>2. QED BY <2>3, <3>1
  <2>8. PlacedUpTo(ss, n, at, FlattenSeq(ss))
    <3>1. n <= n
      BY <1>1
    <3>2. QED BY <2>1, <2>3, <2>7, <3>1 DEF G
  <2>9. QED BY <2>8, Zenon DEF Placed
<1>4. QED BY <1>2, <1>3

-----------------------------------------------------------------------------
(* What has been compiled so far *)

IsAcc(a) == DOMAIN a = {"ok", "index", "steps", "layers", "local"}

\* x is where object o was listed last among the first n of L, counted from 0, or where
\* the streams are.
LastListing(L, n, o, x) ==
  /\ x \in Int
  /\ IF o = StreamsObject THEN x = -1
     ELSE /\ x + 1 \in 1..n /\ L[x + 1] = o
          /\ \A m \in (x + 2)..n : L[m] # o

\* A step is its object with that as its input.
StepRight(p, L, s, k) ==
  /\ s = StepDesc(p.objects[L[k]], s.input)
  /\ LastListing(L, k - 1, p.objects[L[k]].input, s.input)

\* The first n objects that L lists were compiled.
Compiled(p, a, L, n) ==
  /\ IsAcc(a)
  /\ a.ok => /\ IsASeq(a.steps) /\ Len(a.steps) = n
             /\ \A o \in DOMAIN a.index : LastListing(L, n, o, a.index[o])
             /\ \A k \in 1..n : StepRight(p, L, a.steps[k], k)

\* An object listed once more.
LEMMA ListedOnce ==
  ASSUME NEW L, NEW n \in Nat, NEW o, NEW x, LastListing(L, n, o, x), o # L[n + 1]
  PROVE  LastListing(L, n + 1, o, x)
<1>1. CASE o = StreamsObject
  BY <1>1 DEF LastListing
<1>2. CASE o # StreamsObject
  <2>1. x \in Int /\ x + 1 \in 1..n /\ L[x + 1] = o /\ \A m \in (x + 2)..n : L[m] # o
    BY <1>2 DEF LastListing
  <2>2. x + 1 \in 1..(n + 1)
    BY <2>1
  <2>3. \A m \in (x + 2)..(n + 1) : L[m] # o
    BY <2>1
  <2>4. QED BY <1>2, <2>1, <2>2, <2>3, Zenon DEF LastListing
<1>3. QED BY <1>1, <1>2

\* Its place is the new one.
LEMMA ListedNow ==
  ASSUME NEW L, NEW n \in Nat, L[n + 1] # StreamsObject
  PROVE  LastListing(L, n + 1, L[n + 1], n)
BY DEF LastListing

\* AddStep, where it adds one.
Adds(p, a, o, r) ==
  /\ a.ok /\ p.objects[o].input \in DOMAIN a.index
  /\ r.steps = Append(a.steps, StepDesc(p.objects[o], a.index[p.objects[o].input]))
  /\ r.index = IndexOf(a.index, o, Len(a.steps))
  /\ r.local = Append(a.local, Len(a.steps))
  /\ r.layers = a.layers

\* It leaves a record of the same shape, and adds a step unless the program is refused.
LEMMA AddStepIs ==
  ASSUME NEW p, NEW a, IsAcc(a), NEW o
  PROVE  IsAcc(AddStep(p, a, o)) /\ (AddStep(p, a, o).ok => Adds(p, a, o, AddStep(p, a, o)))
<1> DEFINE r == AddStep(p, a, o)
           in == p.objects[o].input
           s  == StepDesc(p.objects[o], a.index[in])
<1>1. CASE ~a.ok \/ in \notin DOMAIN a.index
  <2>1. r = [a EXCEPT !.ok = FALSE]
    BY <1>1, Zenon DEF AddStep
  <2>2. DOMAIN r = DOMAIN a /\ r.ok = FALSE
    BY <2>1 DEF IsAcc
  <2>3. QED BY <2>2, Zenon DEF IsAcc
<1>2. CASE a.ok /\ in \in DOMAIN a.index
  <2>1. r = [a EXCEPT !.steps = Append(a.steps, s), !.index = IndexOf(a.index, o, Len(a.steps)),
                      !.local = Append(a.local, Len(a.steps))]
    BY <1>2, Zenon DEF AddStep, NewIdx
  <2> HIDE DEF s, r
  <2>2. /\ DOMAIN r = DOMAIN a /\ r.steps = Append(a.steps, s)
        /\ r.index = IndexOf(a.index, o, Len(a.steps)) /\ r.local = Append(a.local, Len(a.steps))
        /\ r.layers = a.layers
    BY <2>1 DEF IsAcc
  <2>3. IsAcc(r) /\ Adds(p, a, o, r)
    BY <1>2, <2>2, Zenon DEF IsAcc, Adds, s
  <2>4. QED BY <2>3, Zenon DEF r
<1>3. QED BY <1>1, <1>2

\* An element more, and the ones before.
LEMMA AppendPlaces ==
  ASSUME NEW s, IsASeq(s), NEW x
  PROVE  Append(s, x)[Len(s) + 1] = x /\ \A k \in 1..Len(s) : Append(s, x)[k] = s[k]
<1> DEFINE S == {s[i] : i \in 1..Len(s)} \cup {x}
<1>1. (\A i \in 1..Len(s) : s[i] \in S) /\ x \in S
  OBVIOUS
<1> HIDE DEF S
<1>2. s \in Seq(S)
  BY <1>1, IsASeqOver
<1>3. QED BY <1>1, <1>2

\* One step more.
LEMMA StepCompiled ==
  ASSUME NEW p, NEW a, NEW L, NEW n \in Nat, Compiled(p, a, L, n), L[n + 1] # StreamsObject,
         NEW r, IsAcc(r), r.ok => Adds(p, a, L[n + 1], r)
  PROVE  Compiled(p, r, L, n + 1)
<1> DEFINE o == L[n + 1]
           in == p.objects[o].input
           s  == StepDesc(p.objects[o], a.index[in])
<1>1. SUFFICES ASSUME r.ok
               PROVE  /\ IsASeq(r.steps) /\ Len(r.steps) = n + 1
                      /\ \A x \in DOMAIN r.index : LastListing(L, n + 1, x, r.index[x])
                      /\ \A k \in 1..(n + 1) : StepRight(p, L, r.steps[k], k)
  BY Zenon DEF Compiled
<1>2. /\ a.ok /\ in \in DOMAIN a.index /\ r.steps = Append(a.steps, s)
      /\ r.index = IndexOf(a.index, o, Len(a.steps))
  BY <1>1, Zenon DEF Adds
<1>3. /\ IsASeq(a.steps) /\ Len(a.steps) = n
      /\ \A x \in DOMAIN a.index : LastListing(L, n, x, a.index[x])
      /\ \A k \in 1..n : StepRight(p, L, a.steps[k], k)
  BY <1>2, Zenon DEF Compiled
<1>4. s = StepDesc(p.objects[o], s.input) /\ s.input = a.index[in]
  BY DEF StepDesc
<1> HIDE DEF s
<1>5. IsASeq(r.steps) /\ Len(r.steps) = n + 1
  BY <1>2, <1>3, AppendIsASeq
<1>6. r.steps[n + 1] = s /\ \A k \in 1..n : r.steps[k] = a.steps[k]
  BY <1>2, <1>3, AppendPlaces
<1>7. ASSUME NEW k \in 1..(n + 1) PROVE StepRight(p, L, r.steps[k], k)
  <2>1. CASE k = n + 1
    <3>1. k - 1 = n
      BY <2>1
    <3>2. LastListing(L, n, in, s.input)
      BY <1>2, <1>3, <1>4, Zenon
    <3>3. QED BY <1>4, <1>6, <2>1, <3>1, <3>2, Zenon DEF StepRight
  <2>2. CASE k # n + 1
    <3>1. k \in 1..n
      BY <2>2
    <3>2. QED BY <1>3, <1>6, <3>1, Zenon
  <2>3. QED BY <2>1, <2>2
<1>8. ASSUME NEW x \in DOMAIN r.index PROVE LastListing(L, n + 1, x, r.index[x])
  <2>1. x \in DOMAIN a.index \cup {o} /\ r.index[x] = IF x = o THEN n ELSE a.index[x]
    BY <1>2, <1>3 DEF IndexOf
  <2>2. CASE x = o
    BY <2>1, <2>2, ListedNow, Zenon
  <2>3. CASE x # o
    <3>1. LastListing(L, n, x, a.index[x]) /\ r.index[x] = a.index[x]
      BY <1>3, <2>1, <2>3
    <3>2. QED BY <2>3, <3>1, ListedOnce, Zenon
  <2>4. QED BY <2>2, <2>3
<1>9. QED BY <1>5, <1>7, <1>8

\* The local numbers of m steps compiled after the first n.
Local(s, n, m) == IsASeq(s) /\ Len(s) = m /\ \A i \in 1..m : s[i] = (n + i) - 1

\* In the middle of a layer that L lists after the first n, m steps of it compiled.
InLayer(p, start, L, n, m, a) ==
  /\ Compiled(p, a, L, n + m)
  /\ a.ok => start.ok /\ a.layers = start.layers /\ Local(a.local, n, m)

\* One step more.
LEMMA LayerGoesOn ==
  ASSUME NEW p, NEW start, NEW L, NEW n \in Nat, NEW m \in Nat, NEW a,
         InLayer(p, start, L, n, m, a), L[(n + m) + 1] # StreamsObject
  PROVE  InLayer(p, start, L, n, m + 1, AddStep(p, a, L[(n + m) + 1]))
<1> DEFINE o == L[(n + m) + 1]
           r == AddStep(p, a, o)
<1>1. n + m \in Nat /\ (n + m) + 1 = n + (m + 1)
  OBVIOUS
<1>2. Compiled(p, a, L, n + m) /\ IsAcc(a)
  BY Zenon DEF InLayer, Compiled
<1>3. IsAcc(r) /\ (r.ok => Adds(p, a, o, r))
  BY <1>2, AddStepIs, Zenon
<1> HIDE DEF r
<1>4. Compiled(p, r, L, (n + m) + 1)
  BY <1>1, <1>2, <1>3, StepCompiled, Zenon
<1>5. ASSUME r.ok PROVE start.ok /\ r.layers = start.layers /\ Local(r.local, n, m + 1)
  <2>1. a.ok /\ r.local = Append(a.local, Len(a.steps)) /\ r.layers = a.layers
    BY <1>3, <1>5, Zenon DEF Adds
  <2>2. start.ok /\ a.layers = start.layers /\ Local(a.local, n, m) /\ Len(a.steps) = n + m
    BY <1>2, <2>1, Zenon DEF InLayer, Compiled
  <2>3. IsASeq(a.local) /\ Len(a.local) = m /\ \A i \in 1..m : a.local[i] = (n + i) - 1
    BY <2>2, Zenon DEF Local
  <2>4. /\ IsASeq(r.local) /\ Len(r.local) = m + 1 /\ r.local[m + 1] = n + m
        /\ \A k \in 1..m : r.local[k] = a.local[k]
    BY <2>1, <2>2, <2>3, AppendIsASeq, AppendPlaces
  <2>5. ASSUME NEW i \in 1..(m + 1) PROVE r.local[i] = (n + i) - 1
    <3>1. CASE i = m + 1
      BY <2>4, <3>1
    <3>2. CASE i # m + 1
      <4>1. i \in 1..m
        BY <3>2
      <4>2. QED BY <2>3, <2>4, <4>1
    <3>3. QED BY <3>1, <3>2
  <2>6. QED BY <2>1, <2>2, <2>4, <2>5, Zenon DEF Local
<1>6. InLayer(p, start, L, n, m + 1, r)
  BY <1>1, <1>4, <1>5, Zenon DEF InLayer
<1>7. QED BY <1>6 DEF r

\* All the steps of a layer.
LEMMA LayerDone ==
  ASSUME NEW p, NEW start, NEW L, NEW n \in Nat, Compiled(p, start, L, n),
         start.ok => Local(start.local, n, 0),
         NEW steps, IsASeq(steps),
         \A i \in 1..Len(steps) : L[n + i] = steps[i] /\ steps[i] # StreamsObject
  PROVE  InLayer(p, start, L, n, Len(steps), AllSteps(p, start, steps))
<1>1. PICK acc : OneByOne(p, steps, start, acc) /\ AllSteps(p, start, steps) = acc[Len(steps)]
  BY StepsOneByOne, Zenon
<1> DEFINE len == Len(steps)
           G == {m \in Nat : InLayer(p, start, L, n, m, acc[m])}
<1>2. len \in Nat
  BY DEF IsASeq
<1>3. 0 \in G
  <2>1. n + 0 = n /\ acc[0] = start
    BY <1>1 DEF OneByOne
  <2>2. InLayer(p, start, L, n, 0, acc[0])
    BY <2>1, Zenon DEF InLayer
  <2>3. QED BY <2>2
<1>4. \A m \in 0..(len - 1) : m \in G => m + 1 \in G
  <2> SUFFICES ASSUME NEW m \in 0..(len - 1), m \in G PROVE m + 1 \in G
    OBVIOUS
  <2>1. m \in Nat /\ m + 1 \in Nat /\ m + 1 \in 1..len /\ (m + 1) - 1 = m
        /\ n + (m + 1) = (n + m) + 1
    BY <1>2
  <2>2. L[(n + m) + 1] = steps[m + 1] /\ L[(n + m) + 1] # StreamsObject
    BY <2>1
  <2>3. acc[m + 1] = AddStep(p, acc[m], L[(n + m) + 1])
    BY <1>1, <2>1, <2>2, Zenon DEF OneByOne
  <2>4. InLayer(p, start, L, n, m, acc[m])
    OBVIOUS
  <2>5. InLayer(p, start, L, n, m + 1, AddStep(p, acc[m], L[(n + m) + 1]))
    BY <2>1, <2>2, <2>4, LayerGoesOn, Zenon
  <2>5a. InLayer(p, start, L, n, m + 1, acc[m + 1])
    BY <2>3, <2>5, Zenon
  <2>6. QED BY <2>1, <2>5a
<1> HIDE DEF G
<1>5. len \in G
  <2>1. \A m \in 0..len : m \in G
    BY <1>2, <1>3, <1>4, UpTo, Zenon
  <2>2. QED BY <1>2, <2>1
<1>6. QED BY <1>1, <1>5 DEF G

\* A layer compiled when n steps are.
LayerRight(l, d, n) == "steps" \in DOMAIN d /\ Local(d.steps, n, Len(l.steps))

\* A layer that L lists after the first n objects.
ListedAt(L, n, steps) ==
  \A i \in 1..Len(steps) : L[n + i] = steps[i] /\ steps[i] # StreamsObject

\* Compiled, it leaves r.
LayerJoins(p, a, L, n, l, r) ==
  /\ Compiled(p, r, L, n + Len(l.steps))
  /\ r.ok => /\ a.ok
             /\ \E d : r.layers = Append(a.layers, d) /\ LayerRight(l, d, n)

\* One layer more.
LEMMA LayerAdded ==
  ASSUME NEW p, NEW a, NEW L, NEW n \in Nat, Compiled(p, a, L, n), NEW l, IsASeq(l.steps),
         ListedAt(L, n, l.steps)
  PROVE  LayerJoins(p, a, L, n, l, AddLayer(p, a, l))
<1> DEFINE start == [a EXCEPT !.local = <<>>]
           done == AllSteps(p, start, l.steps)
           r == AddLayer(p, a, l)
           desc == [key \in DOMAIN NewLayerDesc \cup {"steps"} |->
                      IF key = "steps" THEN done.local ELSE NewLayerDesc[key]]
           d == IF Given(l.sahi) THEN ApplySahi(desc, ValueOr(l.sahi, <<>>)) ELSE desc
           known == \A x \in l.sahi : DOMAIN x \subseteq SahiKeys
<1>1. r = [done EXCEPT !.ok = @ /\ known, !.layers = Append(@, d)]
  BY Zenon DEF AddLayer, AllSteps
<1> HIDE DEF r
<1>2. IsAcc(a)
  BY DEF Compiled
<1>3. /\ IsAcc(start) /\ start.ok = a.ok /\ start.index = a.index /\ start.steps = a.steps
      /\ start.layers = a.layers /\ start.local = <<>>
  BY <1>2 DEF IsAcc
<1> HIDE DEF start
<1>4. Compiled(p, start, L, n)
  BY <1>3, Zenon DEF Compiled
<1>5. Local(start.local, n, 0)
  BY <1>3 DEF Local, IsASeq
<1>6. InLayer(p, start, L, n, Len(l.steps), done)
  BY <1>4, <1>5, LayerDone, Zenon DEF ListedAt
<1> HIDE DEF done
<1>7. IsAcc(done) /\ Compiled(p, done, L, n + Len(l.steps))
  BY <1>6, Zenon DEF InLayer, Compiled
<1> HIDE DEF d, known
<1>8. /\ IsAcc(r) /\ (r.ok => done.ok /\ known) /\ r.index = done.index /\ r.steps = done.steps
      /\ r.layers = Append(done.layers, d)
  BY <1>1, <1>7 DEF IsAcc
<1>9. Compiled(p, r, L, n + Len(l.steps))
  BY <1>7, <1>8, Zenon DEF Compiled
<1>10. ASSUME r.ok PROVE a.ok /\ r.layers = Append(a.layers, d) /\ LayerRight(l, d, n)
  <2>1. start.ok /\ done.layers = start.layers /\ Local(done.local, n, Len(l.steps)) /\ known
    BY <1>6, <1>8, <1>10, Zenon DEF InLayer
  <2>2. desc.steps = done.local /\ "steps" \in DOMAIN desc
    OBVIOUS
  <2>3. d.steps = done.local /\ "steps" \in DOMAIN d
    <3>1. CASE ~Given(l.sahi)
      BY <2>2, <3>1, Zenon DEF d
    <3>2. CASE Given(l.sahi)
      <4> DEFINE v == ValueOr(l.sahi, <<>>)
      <4>1. v \in l.sahi
        BY <3>2 DEF Given, ValueOr
      <4>2. DOMAIN v \subseteq SahiKeys
        BY <2>1, <4>1 DEF known
      <4> HIDE DEF v
      <4>3. "steps" \notin DOMAIN v /\ "steps" \in DOMAIN desc
        BY <4>2 DEF SahiKeys
      <4>4. ApplySahi(desc, v).steps = desc.steps /\ "steps" \in DOMAIN ApplySahi(desc, v)
        <5> HIDE DEF desc
        <5>1. QED BY <4>3 DEF ApplySahi
      <4>5. d = ApplySahi(desc, v)
        BY <3>2, Zenon DEF d, v
      <4>6. QED BY <2>2, <4>4, <4>5
    <3>3. QED BY <3>1, <3>2
  <2>4. QED BY <1>3, <1>8, <2>1, <2>3, Zenon DEF LayerRight
<1>11. LayerJoins(p, a, L, n, l, r)
  BY <1>9, <1>10, Zenon DEF LayerJoins
<1>12. QED BY <1>11 DEF r

\* The steps of each layer.
StepsOf(layers) == [j \in DOMAIN layers |-> layers[j].steps]

\* What IsProgram says of the layers, as the lemmas want it.
LEMMA ProgramFacts ==
  ASSUME NEW p, IsProgram(p)
  PROVE  /\ IsASeq(p.layers) /\ DOMAIN p.layers = 1..Len(p.layers) /\ Len(p.layers) \in Nat
         /\ IsSeqs(StepsOf(p.layers)) /\ Len(StepsOf(p.layers)) = Len(p.layers)
         /\ \A j \in 1..Len(p.layers) : StepsOf(p.layers)[j] = p.layers[j].steps
         /\ IsASeq(p.objects) /\ DOMAIN p.objects = 1..Len(p.objects)
         /\ \A j \in 1..Len(p.layers) : \A i \in 1..Len(p.layers[j].steps) :
              p.layers[j].steps[i] \in 1..Len(p.objects)
<1>1. IsASeq(p.layers) /\ IsASeq(p.objects)
  BY SeqIsASeq DEF IsProgram
<1>2. /\ DOMAIN p.layers = 1..Len(p.layers) /\ Len(p.layers) \in Nat
      /\ DOMAIN p.objects = 1..Len(p.objects)
  BY <1>1, IsASeqOver
<1>3. ASSUME NEW j \in 1..Len(p.layers)
      PROVE  /\ IsASeq(p.layers[j].steps)
             /\ \A i \in 1..Len(p.layers[j].steps) : p.layers[j].steps[i] \in 1..Len(p.objects)
  <2>1. p.layers[j].steps \in Seq(1..Len(p.objects))
    BY <1>2 DEF IsProgram
  <2>2. QED BY <2>1, SeqIsASeq
<1> DEFINE ss == StepsOf(p.layers)
<1>4. ss = [j \in 1..Len(p.layers) |-> p.layers[j].steps]
  BY <1>2, Zenon DEF StepsOf
<1>5. IsASeq(ss) /\ Len(ss) = Len(p.layers) /\ \A j \in 1..Len(p.layers) : ss[j] = p.layers[j].steps
  BY <1>2, <1>4 DEF IsASeq
<1> HIDE DEF ss
<1>6. IsSeqs(ss)
  BY <1>3, <1>5 DEF IsSeqs
<1>7. QED BY <1>1, <1>2, <1>3, <1>5, <1>6 DEF ss

\* Each of the first m layers was compiled at its place.
LayersRight(p, ds, at, m) ==
  /\ IsASeq(ds) /\ Len(ds) = m
  /\ \A j \in 1..m : LayerRight(p.layers[j], ds[j], at[j - 1])

\* After m layers, their steps are compiled.
CompiledUpTo(p, a, at, L, m) ==
  /\ Compiled(p, a, L, at[m])
  /\ a.ok => LayersRight(p, a.layers, at, m)

\* One layer more keeps that.
LEMMA OneLayerMore ==
  ASSUME NEW p, NEW at, NEW L, NEW m \in Nat, NEW a, CompiledUpTo(p, a, at, L, m),
         at[m] \in Nat, at[m + 1] = at[m] + Len(p.layers[m + 1].steps),
         IsASeq(p.layers[m + 1].steps),
         ListedAt(L, at[m], p.layers[m + 1].steps)
  PROVE  CompiledUpTo(p, AddLayer(p, a, p.layers[m + 1]), at, L, m + 1)
<1> DEFINE l == p.layers[m + 1]
           r == AddLayer(p, a, l)
<1>1. Compiled(p, a, L, at[m])
  BY Zenon DEF CompiledUpTo
<1>2. LayerJoins(p, a, L, at[m], l, r)
  BY <1>1, LayerAdded, Zenon
<1> HIDE DEF r
<1>3. /\ Compiled(p, r, L, at[m] + Len(l.steps))
      /\ r.ok => a.ok /\ \E d : r.layers = Append(a.layers, d) /\ LayerRight(l, d, at[m])
  BY <1>2, Zenon DEF LayerJoins
<1>4. Compiled(p, r, L, at[m + 1])
  BY <1>3
<1>5. ASSUME r.ok PROVE LayersRight(p, r.layers, at, m + 1)
  <2>1. a.ok
    BY <1>3, <1>5
  <2>2. PICK d : r.layers = Append(a.layers, d) /\ LayerRight(l, d, at[m])
    BY <1>3, <1>5
  <2>3. LayersRight(p, a.layers, at, m)
    BY <2>1, Zenon DEF CompiledUpTo
  <2>4. /\ IsASeq(r.layers) /\ Len(r.layers) = m + 1
        /\ r.layers[m + 1] = d /\ \A k \in 1..m : r.layers[k] = a.layers[k]
    BY <2>2, <2>3, AppendIsASeq, AppendPlaces DEF LayersRight
  <2>5. ASSUME NEW j \in 1..(m + 1) PROVE LayerRight(p.layers[j], r.layers[j], at[j - 1])
    <3>1. CASE j = m + 1
      <4>1. j - 1 = m
        BY <3>1
      <4>2. QED BY <2>2, <2>4, <3>1, <4>1, Zenon
    <3>2. CASE j # m + 1
      <4>1. j \in 1..m
        BY <3>2
      <4>2. QED BY <2>3, <2>4, <4>1, Zenon DEF LayersRight
    <3>3. QED BY <3>1, <3>2
  <2>6. QED BY <2>4, <2>5, Zenon DEF LayersRight
<1>6. QED BY <1>4, <1>5, Zenon DEF CompiledUpTo, r

\* All the layers.
LEMMA LayersCompiled ==
  ASSUME NEW p, IsProgram(p), NEW at, NEW L, Placed(StepsOf(p.layers), at, L)
  PROVE  CompiledUpTo(p, CompileLayers(p), at, L, Len(p.layers))
<1> DEFINE base == [ok |-> TRUE, index |-> [o \in {StreamsObject} |-> -1], steps |-> <<>>,
                    layers |-> <<>>, local |-> <<>>]
           n == Len(p.layers)
           ss == StepsOf(p.layers)
<1>0. IsASeq(p.layers) /\ n \in Nat
  BY ProgramFacts, Zenon
<1>1. PICK acc : InTurn(p, p.layers, base, acc) /\ AllLayers(p, base, p.layers) = acc[n]
  BY <1>0, LayersInTurn, Zenon
<1>2. CompileLayers(p) = acc[n]
  BY <1>1, Zenon DEF CompileLayers, AllLayers
<1>3. /\ Len(ss) = n /\ \A j \in 1..n : ss[j] = p.layers[j].steps /\ IsASeq(ss[j])
      /\ \A j \in 1..n : \A i \in 1..Len(ss[j]) : ss[j][i] \in 1..Len(p.objects)
  BY ProgramFacts DEF IsSeqs
<1> HIDE DEF ss
<1>4. at[0] = 0 /\ \A j \in 1..n : /\ at[j - 1] \in Nat /\ at[j] = at[j - 1] + Len(ss[j])
                                   /\ \A i \in 1..Len(ss[j]) : L[at[j - 1] + i] = ss[j][i]
  BY <1>3 DEF Placed, PlacedUpTo, ss
<1> DEFINE G == {m \in Nat : CompiledUpTo(p, acc[m], at, L, m)}
<1>5. 0 \in G
  <2>1. /\ IsAcc(base) /\ base.steps = <<>> /\ base.layers = <<>>
        /\ DOMAIN base.index = {StreamsObject} /\ base.index[StreamsObject] = -1
    BY DEF IsAcc
  <2>2. acc[0] = base
    BY <1>1, Zenon DEF InTurn
  <2> HIDE DEF base
  <2>3. IsASeq(base.steps) /\ Len(base.steps) = 0 /\ IsASeq(base.layers) /\ Len(base.layers) = 0
    BY <2>1 DEF IsASeq
  <2>4. LastListing(L, 0, StreamsObject, -1)
    BY DEF LastListing
  <2>5. \A o \in DOMAIN base.index : LastListing(L, 0, o, base.index[o])
    BY <2>1, <2>4
  <2>6. \A k \in 1..0 : FALSE
    OBVIOUS
  <2>7. Compiled(p, base, L, 0)
    BY <2>1, <2>3, <2>5, <2>6, Zenon DEF Compiled
  <2>8. LayersRight(p, base.layers, at, 0)
    BY <2>3, <2>6, Zenon DEF LayersRight
  <2>9. CompiledUpTo(p, acc[0], at, L, 0)
    BY <1>4, <2>2, <2>7, <2>8, Zenon DEF CompiledUpTo
  <2>10. QED BY <2>9
<1>6. \A m \in 0..(n - 1) : m \in G => m + 1 \in G
  <2> SUFFICES ASSUME NEW m \in 0..(n - 1), m \in G PROVE m + 1 \in G
    OBVIOUS
  <2>1. m \in Nat /\ m + 1 \in Nat /\ m + 1 \in 1..n /\ (m + 1) - 1 = m
    BY <1>0
  <2>2. acc[m + 1] = AddLayer(p, acc[m], p.layers[m + 1])
    BY <1>1, <2>1, Zenon DEF InTurn
  <2>3. /\ at[m] \in Nat /\ at[m + 1] = at[m] + Len(p.layers[m + 1].steps)
        /\ IsASeq(p.layers[m + 1].steps)
    BY <1>3, <1>4, <2>1, Zenon
  <2>4. ASSUME NEW i \in 1..Len(p.layers[m + 1].steps)
        PROVE  /\ L[at[m] + i] = p.layers[m + 1].steps[i]
               /\ p.layers[m + 1].steps[i] # StreamsObject
    <3>1. ss[m + 1] = p.layers[m + 1].steps /\ i \in 1..Len(ss[m + 1])
      BY <1>3, <2>1, Zenon
    <3>2. L[at[m] + i] = ss[m + 1][i] /\ ss[m + 1][i] \in 1..Len(p.objects)
      BY <1>3, <1>4, <2>1, <3>1, Zenon
    <3>3. \A x \in 1..Len(p.objects) : x # StreamsObject
      BY DEF StreamsObject
    <3>4. QED BY <3>1, <3>2, <3>3, Zenon
  <2>5. CompiledUpTo(p, acc[m], at, L, m) /\ ListedAt(L, at[m], p.layers[m + 1].steps)
    BY <2>4, Zenon DEF ListedAt, G
  <2>6. CompiledUpTo(p, AddLayer(p, acc[m], p.layers[m + 1]), at, L, m + 1)
    BY <2>1, <2>3, <2>5, OneLayerMore, Zenon
  <2>7. CompiledUpTo(p, acc[m + 1], at, L, m + 1)
    BY <2>2, <2>6, Zenon
  <2>8. QED BY <2>1, <2>7
<1> HIDE DEF G
<1>7. n \in G
  <2>1. \A m \in 0..n : m \in G
    BY <1>0, <1>5, <1>6, UpTo, Zenon
  <2>2. QED BY <1>0, <2>1
<1>8. QED BY <1>2, <1>7 DEF G

\* The last argument that may still change a layer leaves its steps alone.
LEMMA LegacySahiKeepsSteps ==
  ASSUME NEW p, LegacySahiOk(p), NEW ds, IsASeq(ds), NEW at, NEW n \in Nat,
         LayersRight(p, ds, at, n)
  PROVE  LayersRight(p, LegacySahi(p, ds), at, n)
<1>1. CASE ~(Given(p.args.sahi) /\ ~Given(p.layers[1].sahi))
  BY <1>1, Zenon DEF LegacySahi
<1>2. CASE Given(p.args.sahi) /\ ~Given(p.layers[1].sahi)
  <2> DEFINE v == ValueOr(p.args.sahi, <<>>)
             e == ApplySahi(ds[1], v)
             r == LegacySahi(p, ds)
  <2>1. v \in p.args.sahi
    BY <1>2 DEF Given, ValueOr
  <2>2. DOMAIN v \subseteq SahiKeys
    BY <1>2, <2>1 DEF LegacySahiOk
  <2>3. r = [ds EXCEPT ![1] = e]
    BY <1>2, Zenon DEF LegacySahi
  <2> HIDE DEF v
  <2>4. ~("steps" \in DOMAIN v)
    BY <2>2 DEF SahiKeys
  <2>5. "steps" \in DOMAIN ds[1] => e.steps = ds[1].steps /\ "steps" \in DOMAIN e
    BY <2>4 DEF ApplySahi
  <2> HIDE DEF e, r
  <2>6. IsASeq(r) /\ Len(r) = Len(ds) /\ \A j \in 1..Len(ds) : r[j] = IF j = 1 THEN e ELSE ds[j]
    <3>1. ds = [j \in 1..Len(ds) |-> ds[j]] /\ Len(ds) \in Nat
      BY DEF IsASeq
    <3>2. r = [j \in 1..Len(ds) |-> IF j = 1 THEN e ELSE ds[j]]
      BY <2>3, <3>1
    <3>3. QED BY <3>1, <3>2 DEF IsASeq
  <2>7. Len(ds) = n /\ \A j \in 1..n : LayerRight(p.layers[j], ds[j], at[j - 1])
    BY Zenon DEF LayersRight
  <2>8. ASSUME NEW j \in 1..n PROVE LayerRight(p.layers[j], r[j], at[j - 1])
    <3>1. LayerRight(p.layers[j], ds[j], at[j - 1]) /\ r[j] = IF j = 1 THEN e ELSE ds[j]
      BY <2>6, <2>7, Zenon
    <3>2. CASE j = 1
      <4>1. "steps" \in DOMAIN e /\ e.steps = ds[j].steps
        BY <2>5, <3>1, <3>2, Zenon DEF LayerRight
      <4>2. QED BY <3>1, <3>2, <4>1, Zenon DEF LayerRight
    <3>3. QED BY <3>1, <3>2, Zenon
  <2>9. LayersRight(p, r, at, n)
    BY <2>6, <2>7, <2>8, Zenon DEF LayersRight
  <2>10. QED BY <2>9 DEF r
<1>3. QED BY <1>1, <1>2

\* The objects as the layers of a program list them.
ListingOf(p) == FlattenSeq(StepsOf(p.layers))

\* A configuration that is the program's objects, listed as at says.
GraphRight(p, c, at) ==
  /\ Placed(StepsOf(p.layers), at, ListingOf(p))
  /\ IsASeq(c.steps) /\ Len(c.steps) = Len(ListingOf(p))
  /\ \A k \in 1..Len(ListingOf(p)) : StepRight(p, ListingOf(p), c.steps[k], k)
  /\ LayersRight(p, c.layers, at, Len(p.layers))

\* What Compile hands over was accepted on the way.
LEMMA CompiledFrom ==
  ASSUME NEW p, NEW c \in Compile(p)
  PROVE  /\ ConstructorsAccept(p) /\ CompileLayers(p).ok /\ LegacySahiOk(p)
         /\ c.steps = CompileLayers(p).steps
         /\ c.layers = LegacySahi(p, CompileLayers(p).layers)
<1> DEFINE graph == CompileLayers(p)
           accepted == /\ ConstructorsAccept(p) /\ ArgsOk(p.args) /\ graph.ok
                       /\ LegacySahiOk(p) /\ SinkInputsKnown(p, graph.index)
           all == [streams |-> [i \in DOMAIN p.streams |-> StreamDesc(p.streams[i])],
                   steps   |-> graph.steps,
                   layers  |-> LegacySahi(p, graph.layers),
                   sinks   |-> [i \in DOMAIN p.sinks |-> SinkDesc(p.sinks[i], graph.index)],
                   ring_depth |-> p.args.ring_depth,
                   cascade_serial |-> p.args.cascade_serial]
<1>1. Compile(p) = IF ~accepted THEN {} ELSE {all}
  BY Zenon DEF Compile
<1>2. all.steps = graph.steps /\ all.layers = LegacySahi(p, graph.layers)
  OBVIOUS
<1> HIDE DEF all
<1>3. accepted /\ c = all
  BY <1>1
<1>4. QED BY <1>2, <1>3

\* The compiler at its end.
LEMMA CompileIsRight ==
  ASSUME NEW p, IsProgram(p), NEW c \in Compile(p)
  PROVE  \E at : GraphRight(p, c, at)
<1> DEFINE graph == CompileLayers(p)
           ss == StepsOf(p.layers)
           L == ListingOf(p)
           n == Len(p.layers)
<1>1. IsSeqs(ss) /\ Len(ss) = n /\ n \in Nat
  BY ProgramFacts, Zenon
<1>2. PICK at : Placed(ss, at, L)
  BY <1>1, FlattenPlaces, Zenon DEF ListingOf
<1>3. CompiledUpTo(p, graph, at, L, n)
  BY <1>2, LayersCompiled, Zenon
<1>4. at[n] = Len(L)
  BY <1>1, <1>2, Zenon DEF Placed, PlacedUpTo
<1>5. /\ graph.ok /\ LegacySahiOk(p) /\ c.steps = graph.steps
      /\ c.layers = LegacySahi(p, graph.layers)
  BY CompiledFrom, Zenon
<1> HIDE DEF graph, L, ss
<1>6. /\ IsASeq(c.steps) /\ Len(c.steps) = Len(L)
      /\ \A k \in 1..Len(L) : StepRight(p, L, c.steps[k], k)
  BY <1>3, <1>4, <1>5, Zenon DEF CompiledUpTo, Compiled
<1>7. LayersRight(p, graph.layers, at, n) /\ IsASeq(graph.layers)
  BY <1>3, <1>5, Zenon DEF CompiledUpTo, LayersRight
<1>8. LayersRight(p, c.layers, at, n)
  BY <1>1, <1>5, <1>7, LegacySahiKeepsSteps, Zenon
<1>9. QED BY <1>2, <1>6, <1>8, Zenon DEF GraphRight, L, ss

\* The layers number the steps from 0 on, one after another.
LEMMA StepsNumbered ==
  ASSUME NEW p, IsProgram(p), NEW c, NEW at, GraphRight(p, c, at)
  PROVE  FlattenSeq(StepsOf(c.layers)) = [k \in 1..Len(ListingOf(p)) |-> k - 1]
<1> DEFINE ss == StepsOf(p.layers)
           ts == StepsOf(c.layers)
           n == Len(p.layers)
           L == ListingOf(p)
           M == FlattenSeq(ts)
<1>1. Len(ss) = n /\ n \in Nat /\ \A j \in 1..n : ss[j] = p.layers[j].steps
  BY ProgramFacts, Zenon
<1>2. /\ IsASeq(c.layers) /\ Len(c.layers) = n
      /\ \A j \in 1..n : Local(c.layers[j].steps, at[j - 1], Len(p.layers[j].steps))
  BY Zenon DEF GraphRight, LayersRight, LayerRight
<1>3. DOMAIN c.layers = 1..n
  BY <1>2, IsASeqOver
<1>4. ts = [j \in 1..n |-> c.layers[j].steps]
  BY <1>3, Zenon DEF StepsOf
<1>5. IsASeq(ts) /\ Len(ts) = n /\ \A j \in 1..n : ts[j] = c.layers[j].steps
  BY <1>1, <1>4 DEF IsASeq
<1>6. Placed(ss, at, L)
  BY Zenon DEF GraphRight
<1> HIDE DEF ss, ts, L
<1>7. \A j \in 1..n : /\ IsASeq(ts[j]) /\ Len(ts[j]) = Len(ss[j])
                      /\ \A i \in 1..Len(ss[j]) : ts[j][i] = (at[j - 1] + i) - 1
  BY <1>1, <1>2, <1>5, Zenon DEF Local
<1>8. IsSeqs(ts)
  BY <1>5, <1>7, Zenon DEF IsSeqs
<1>9. PICK bt : Placed(ts, bt, M)
  BY <1>8, FlattenPlaces, Zenon
<1> HIDE DEF M
<1>10. /\ at[0] = 0 /\ at[n] = Len(L)
       /\ \A j \in 1..n : at[j - 1] \in Nat /\ at[j] = at[j - 1] + Len(ss[j])
  BY <1>1, <1>6, Zenon DEF Placed, PlacedUpTo
<1>10a. PlacedUpTo(ts, n, bt, M)
  BY <1>5, <1>9, Zenon DEF Placed
<1>11. /\ IsASeq(M) /\ bt[0] = 0 /\ bt[n] = Len(M)
       /\ \A j \in 1..n : bt[j - 1] \in Nat /\ bt[j] = bt[j - 1] + Len(ts[j])
       /\ \A j \in 1..n : \A i \in 1..Len(ts[j]) : M[bt[j - 1] + i] = ts[j][i]
       /\ \A k \in 1..Len(M) : \E j \in 1..n : \E i \in 1..Len(ts[j]) : k = bt[j - 1] + i
  BY <1>10a, Zenon DEF PlacedUpTo
<1>12. \A j \in 0..n : at[j] = bt[j]
  <2> DEFINE G == {j \in Nat : at[j] = bt[j]}
  <2>1. 0 \in G
    BY <1>10, <1>11
  <2>2. \A m \in 0..(n - 1) : m \in G => m + 1 \in G
    <3> SUFFICES ASSUME NEW m \in 0..(n - 1), m \in G PROVE m + 1 \in G
      OBVIOUS
    <3>1. m + 1 \in 1..n /\ (m + 1) - 1 = m /\ m + 1 \in Nat /\ at[m] = bt[m]
      BY <1>1
    <3>2. /\ at[m + 1] = at[(m + 1) - 1] + Len(ss[m + 1])
          /\ bt[m + 1] = bt[(m + 1) - 1] + Len(ts[m + 1])
          /\ Len(ts[m + 1]) = Len(ss[m + 1])
      BY <1>7, <1>10, <1>11, <3>1, Zenon
    <3>2a. at[m + 1] = bt[m + 1]
      BY <3>1, <3>2, Zenon
    <3>3. QED BY <3>1, <3>2a
  <2> HIDE DEF G
  <2>3. \A j \in 0..n : j \in G
    BY <1>1, <2>1, <2>2, UpTo, Zenon
  <2>4. QED BY <2>3 DEF G
<1>13. Len(M) = Len(L)
  <2>1. n \in 0..n
    BY <1>1
  <2>2. QED BY <1>10, <1>11, <1>12, <2>1, Zenon
<1>14. ASSUME NEW k \in 1..Len(M) PROVE M[k] = k - 1
  <2>1. PICK j \in 1..n : \E i \in 1..Len(ts[j]) : k = bt[j - 1] + i
    BY <1>11
  <2>2. PICK i \in 1..Len(ts[j]) : k = bt[j - 1] + i
    BY <2>1
  <2>3. j - 1 \in 0..n
    BY <1>1
  <2>4. M[k] = ts[j][i]
    BY <1>11, <2>2, Zenon
  <2>5. ts[j][i] = (at[j - 1] + i) - 1
    BY <1>7, Zenon
  <2>6. QED BY <1>12, <2>2, <2>3, <2>4, <2>5
<1>15. M = [k \in 1..Len(M) |-> M[k]]
  BY <1>11 DEF IsASeq
<1>16. M = [k \in 1..Len(L) |-> k - 1]
  BY <1>13, <1>14, <1>15
<1>17. QED BY <1>16 DEF M, L, ts

-----------------------------------------------------------------------------
(* The program that runs *)

\* What an application holds is what was compiled of a program that may be built.
BuiltFrom == config # {} => prog \in ProgramsToRun /\ config = Compile(prog)

\* And it runs once the graph was accepted and its engines are there.
RunsAccepted ==
  phase = "running" => config # {} /\ Verdict(Cfg) = "ok" /\ EnginesExist(Cfg)

CompilesFirst == phase = "compiled" => config # {}

ApplicationInv == BuiltFrom /\ CompilesFirst /\ RunsAccepted

\* The induction.
LEMMA ApplicationInduction ==
  ASSUME ApplicationInv, [AppNext]_appVars
  PROVE  ApplicationInv'
<1> USE DEF ApplicationInv, BuiltFrom, CompilesFirst, RunsAccepted
<1>1. CASE Size
  <2>1. phase' = phase /\ prog' = prog /\ config' = config
    BY <1>1, Zenon DEF Size
  <2>2. Cfg' = Cfg
    BY <2>1 DEF Cfg
  <2>3. QED BY <2>1, <2>2, Zenon DEF EnginesExist
<1>2. CASE Build
  <2>1. /\ prog' \in ProgramsToRun /\ config' = Compile(prog')
        /\ phase' = IF config' = {} THEN "ValueError" ELSE "compiled"
    BY <1>2, Zenon DEF Build
  <2>2. phase' # "running" /\ (phase' = "compiled" => config' # {})
    BY <2>1
  <2>3. QED BY <2>1, <2>2, Zenon
<1>3. CASE Construct
  <2>1. /\ phase = "compiled" /\ prog' = prog /\ config' = config
        /\ phase' = IF Verdict(Cfg) = "ok" /\ EnginesExist(Cfg) THEN "running" ELSE "RuntimeError"
    BY <1>3, Zenon DEF Construct
  <2>2. Cfg' = Cfg
    BY <2>1 DEF Cfg
  <2>3. phase' # "compiled" /\ (phase' = "running" => Verdict(Cfg) = "ok" /\ EnginesExist(Cfg))
    BY <2>1
  <2>4. QED BY <2>1, <2>2, <2>3, Zenon DEF EnginesExist
<1>4. CASE Poll
  <2>1. phase' = phase /\ prog' = prog /\ config' = config
    BY <1>4, Zenon DEF Poll
  <2>2. Cfg' = Cfg
    BY <2>1 DEF Cfg
  <2>3. QED BY <2>1, <2>2, Zenon DEF EnginesExist
<1>5. CASE UNCHANGED appVars
  <2>1. phase' = phase /\ prog' = prog /\ config' = config
    BY <1>5, Zenon DEF appVars
  <2>2. Cfg' = Cfg
    BY <2>1 DEF Cfg
  <2>3. QED BY <2>1, <2>2, Zenon DEF EnginesExist
<1>6. QED BY <1>1, <1>2, <1>3, <1>4, <1>5, Zenon DEF AppNext

\* What an application holds was compiled of its program; what runs was accepted.
THEOREM ApplicationInvariant == AppSpec => []ApplicationInv
<1>1. AppInit => ApplicationInv
  BY DEF AppInit, ApplicationInv, BuiltFrom, CompilesFirst, RunsAccepted
<1>2. ApplicationInv /\ [AppNext]_appVars => ApplicationInv'
  BY ApplicationInduction
<1>3. QED BY <1>1, <1>2, PTL DEF AppSpec

\* A step of the graph is its object, its input the last listing of that one's.
LEMMA RightGraphIsTheObjects ==
  ASSUME ApplicationInv
  PROVE  GraphIsTheObjects
<1> SUFFICES ASSUME NEW c \in config
             PROVE  /\ Len(c.steps) = Len(Listing)
                    /\ \A k \in DOMAIN Listing :
                         LET o  == prog.objects[Listing[k]]
                             in == c.steps[k].input + 1
                         IN  /\ c.steps[k].kind = o.kind /\ c.steps[k].path = o.path
                             /\ IF o.input = StreamsObject THEN in = 0
                                ELSE /\ in \in 1..(k - 1) /\ Listing[in] = o.input
                                     /\ \A m \in (in + 1)..(k - 1) : Listing[m] # o.input
                    /\ FlattenSeq([j \in DOMAIN c.layers |-> c.layers[j].steps])
                         = [k \in DOMAIN Listing |-> k - 1]
  BY Zenon DEF GraphIsTheObjects
<1>1. prog \in ProgramsToRun /\ c \in Compile(prog)
  BY DEF ApplicationInv, BuiltFrom
<1>2. IsProgram(prog)
  BY <1>1, ProgramsAssumption
<1>3. PICK at : GraphRight(prog, c, at)
  BY <1>1, <1>2, CompileIsRight, Zenon
<1>4. Listing = ListingOf(prog)
  BY Zenon DEF Listing, ListingOf, StepsOf
<1>5. /\ Len(c.steps) = Len(Listing) /\ IsASeq(Listing)
      /\ \A k \in 1..Len(Listing) : StepRight(prog, Listing, c.steps[k], k)
  BY <1>3, <1>4, Zenon DEF GraphRight, Placed, PlacedUpTo
<1>6. DOMAIN Listing = 1..Len(Listing) /\ Len(Listing) \in Nat
  BY <1>5, IsASeqOver
<1>7. FlattenSeq([j \in DOMAIN c.layers |-> c.layers[j].steps]) = [k \in DOMAIN Listing |-> k - 1]
  BY <1>2, <1>3, <1>4, <1>6, StepsNumbered, Zenon DEF StepsOf
<1> HIDE DEF Listing
<1>8. ASSUME NEW k \in DOMAIN Listing
      PROVE  LET o  == prog.objects[Listing[k]]
                 in == c.steps[k].input + 1
             IN  /\ c.steps[k].kind = o.kind /\ c.steps[k].path = o.path
                 /\ IF o.input = StreamsObject THEN in = 0
                    ELSE /\ in \in 1..(k - 1) /\ Listing[in] = o.input
                         /\ \A m \in (in + 1)..(k - 1) : Listing[m] # o.input
  <2> DEFINE o == prog.objects[Listing[k]]
             s == c.steps[k]
  <2>1. k \in 1..Len(Listing) /\ k \in Nat
    BY <1>6
  <2>2. s = StepDesc(o, s.input) /\ LastListing(Listing, k - 1, o.input, s.input)
    BY <1>5, <2>1, Zenon DEF StepRight
  <2> HIDE DEF o, s
  <2>3. StepDesc(o, s.input).kind = o.kind /\ StepDesc(o, s.input).path = o.path
    BY DEF StepDesc
  <2>4. s.kind = o.kind /\ s.path = o.path
    BY <2>2, <2>3
  <2>5. CASE o.input = StreamsObject
    <3>1. s.input + 1 = 0
      BY <2>2, <2>5 DEF LastListing
    <3>2. QED BY <2>4, <2>5, <3>1, Zenon DEF o, s
  <2>6. CASE o.input # StreamsObject
    <3>1. /\ s.input \in Int /\ s.input + 1 \in 1..(k - 1) /\ Listing[s.input + 1] = o.input
          /\ \A m \in (s.input + 2)..(k - 1) : Listing[m] # o.input
      BY <2>2, <2>6, Zenon DEF LastListing
    <3>2. (s.input + 1) + 1 = s.input + 2
      BY <3>1
    <3>3. QED BY <2>4, <2>6, <3>1, <3>2, Zenon DEF o, s
  <2>7. QED BY <2>5, <2>6
<1>9. QED BY <1>5, <1>7, <1>8

\* GraphIsTheObjects (Pipeline.__init__, GraphCompiler): for every program.
THEOREM CompiledGraphIsTheObjects == AppSpec => []GraphIsTheObjects
BY ApplicationInvariant, RightGraphIsTheObjects, PTL

\* Whether detection d of frame f is routed to a child.
ReachedBy(c, child, f, d) ==
  \/ child.select = NoStep
  \/ Passes(StepAt(c, child.select), d, CropOf(d, f))

\* The row its engine answers.
RowFor(c, child, d) == Logits[StepAt(c, child.engine).path][d.who]

\* What a child reports of a frame, in the field of its family.
ChildSays(c, child, f, said) ==
  /\ child.family = "Argmax" =>
       /\ said.labels = [i \in DOMAIN f.dets |->
                          IF ReachedBy(c, child, f, f.dets[i])
                          THEN Argmax(RowFor(c, child, f.dets[i])) ELSE 0]
       /\ said.label_scores = [i \in DOMAIN f.dets |->
                          IF ReachedBy(c, child, f, f.dets[i])
                          THEN RowFor(c, child, f.dets[i])[Argmax(RowFor(c, child, f.dets[i])) + 1]
                          ELSE 0]
  /\ child.family = "Embedding" =>
       said.vectors = [i \in DOMAIN f.dets |-> IF ReachedBy(c, child, f, f.dets[i])
                                              THEN RowFor(c, child, f.dets[i]) ELSE <<>>]
  /\ child.family = "Ctc" =>
       said.texts = [i \in DOMAIN f.dets |-> IF ReachedBy(c, child, f, f.dets[i])
                                            THEN Reading[f.dets[i].who] ELSE ""]

\* It is what ChildOutputOf holds.
LEMMA ChildOutputIs ==
  ASSUME NEW c, NEW child, NEW f
  PROVE  ChildSays(c, child, f, ChildOutputOf(c, child, f))
<1>1. ASSUME child.family = "Argmax"
      PROVE  ChildOutputOf(c, child, f).labels
               = [i \in DOMAIN f.dets |-> IF ReachedBy(c, child, f, f.dets[i])
                                          THEN Argmax(RowFor(c, child, f.dets[i])) ELSE 0]
  BY <1>1 DEF ChildOutputOf, ReachedBy, RowFor
<1>2. ASSUME child.family = "Argmax"
      PROVE  ChildOutputOf(c, child, f).label_scores
               = [i \in DOMAIN f.dets |->
                    IF ReachedBy(c, child, f, f.dets[i])
                    THEN RowFor(c, child, f.dets[i])[Argmax(RowFor(c, child, f.dets[i])) + 1]
                    ELSE 0]
  BY <1>2 DEF ChildOutputOf, ReachedBy, RowFor
<1>3. ASSUME child.family = "Embedding"
      PROVE  ChildOutputOf(c, child, f).vectors
               = [i \in DOMAIN f.dets |-> IF ReachedBy(c, child, f, f.dets[i])
                                          THEN RowFor(c, child, f.dets[i]) ELSE <<>>]
  BY <1>3 DEF ChildOutputOf, ReachedBy, RowFor
<1>4. ASSUME child.family = "Ctc"
      PROVE  ChildOutputOf(c, child, f).texts
               = [i \in DOMAIN f.dets |-> IF ReachedBy(c, child, f, f.dets[i])
                                          THEN Reading[f.dets[i].who] ELSE ""]
  BY <1>4 DEF ChildOutputOf, ReachedBy, RowFor
<1>5. QED BY <1>1, <1>2, <1>3, <1>4, Zenon DEF ChildSays

-----------------------------------------------------------------------------
(* What a child says of a detection *)

\* A nonempty row has a first greatest number.
LEMMA ArgmaxIsGreatest ==
  ASSUME NEW v, v \in Seq(Int), v # <<>>
  PROVE  /\ Argmax(v) + 1 \in DOMAIN v
         /\ v[Argmax(v) + 1] = CHOOSE x \in Range(v) : \A y \in Range(v) : y <= x
<1> DEFINE n == Len(v)
           First(m, i) == \A j \in 1..m : v[j] < v[i] \/ (v[j] = v[i] /\ i <= j)
           G == {m \in Nat : m = 0 \/ \E i \in 1..m : First(m, i)}
<1>1. n \in Nat /\ n # 0 /\ DOMAIN v = 1..n /\ \A i \in 1..n : v[i] \in Int
  OBVIOUS
<1> HIDE DEF n
<1>2. 0 \in G
  OBVIOUS
<1>3. \A m \in 0..(n - 1) : m \in G => m + 1 \in G
  <2> SUFFICES ASSUME NEW m \in 0..(n - 1), m \in G PROVE \E i \in 1..(m + 1) : First(m + 1, i)
    BY <1>1
  <2>1. m + 1 \in 1..n /\ v[m + 1] \in Int /\ \A j \in 1..m : v[j] \in Int
    BY <1>1
  <2>2. CASE m = 0
    <3>1. First(m + 1, m + 1)
      BY <2>1, <2>2
    <3>2. QED BY <2>1, <3>1
  <2>3. CASE m # 0
    <3>1. PICK i \in 1..m : First(m, i)
      BY <2>3
    <3>2. CASE v[m + 1] > v[i]
      <4>1. First(m + 1, m + 1)
        BY <2>1, <3>1, <3>2
      <4>2. QED BY <2>1, <4>1
    <3>3. CASE ~(v[m + 1] > v[i])
      <4>1. First(m + 1, i) /\ i \in 1..(m + 1)
        BY <2>1, <3>1, <3>3
      <4>2. QED BY <4>1
    <3>4. QED BY <3>2, <3>3
  <2>4. QED BY <2>2, <2>3
<1> HIDE DEF G
<1>4. n \in G
  <2>1. \A m \in 0..n : m \in G
    BY <1>1, <1>2, <1>3, UpTo, Zenon
  <2>2. QED BY <1>1, <2>1
<1>5. \E i \in DOMAIN v : \A j \in DOMAIN v : v[j] < v[i] \/ (v[j] = v[i] /\ i <= j)
  BY <1>1, <1>4 DEF G
<1> DEFINE a == CHOOSE i \in DOMAIN v : \A j \in DOMAIN v : v[j] < v[i] \/ (v[j] = v[i] /\ i <= j)
<1>6. a \in 1..n /\ \A j \in 1..n : v[j] < v[a] \/ (v[j] = v[a] /\ a <= j)
  BY <1>1, <1>5
<1>7. Argmax(v) = a - 1
  BY Zenon DEF Argmax
<1> HIDE DEF a
<1>8. Argmax(v) + 1 = a
  BY <1>6, <1>7
<1>9. v[a] \in Range(v) /\ \A y \in Range(v) : y <= v[a]
  BY <1>1, <1>6 DEF Range
<1>10. ASSUME NEW x \in Range(v), \A y \in Range(v) : y <= x PROVE x = v[a]
  <2>1. v[a] <= x /\ x <= v[a]
    BY <1>9, <1>10
  <2>2. v[a] \in Int /\ x \in Int
    BY <1>1, <1>6 DEF Range
  <2>3. QED BY <2>1, <2>2
<1>11. v[a] = CHOOSE x \in Range(v) : \A y \in Range(v) : y <= x
  BY <1>9, <1>10
<1>12. QED BY <1>1, <1>6, <1>8, <1>11

\* What the program means by a Select that lets d through.
Wanted(o, f, d) ==
  /\ \A cs \in o.classes : d.cls \in cs
  /\ \A v \in o.min_score \ {NaN} : d.score >= v
  /\ \A v \in o.min_size \ {NaN} : ClampedMinSide(d, f.w, f.h) >= v

\* What IsProgram says of a step's criteria.
Criteria(o) ==
  /\ IsOption(o.classes, SUBSET Numbers)
  /\ IsOption(o.min_score, Thresholds) /\ IsOption(o.min_size, Thresholds)

\* x is what an option gives, or the default.
OptionGives(option, default, V, x) ==
  \/ option = {} /\ x = default
  \/ option = {x} /\ x \in V

\* An option is none or one value.
LEMMA OptionIs ==
  ASSUME NEW option, NEW V, IsOption(option, V), NEW default
  PROVE  OptionGives(option, default, V, ValueOr(option, default))
<1> USE DEF OptionGives
<1>1. CASE option = {}
  BY <1>1 DEF ValueOr, Given
<1>2. CASE option # {}
  <2>1. ValueOr(option, default) \in option
    BY <1>2 DEF ValueOr, Given
  <2>2. QED BY <2>1 DEF IsOption
<1>3. QED BY <1>1, <1>2

\* What an accepted threshold that is a number turns into.
ThresholdGives(option, x) ==
  \/ option = {} /\ x = 0
  \/ option = {NaN} /\ x = 0
  \/ option = {x} /\ x \in Nat /\ x # NaN

\* What the executor makes of a threshold the constructor accepted.
LEMMA ThresholdIs ==
  ASSUME NEW option, IsOption(option, Thresholds),
         \A v \in option : v = NaN \/ (IsNumber(v) /\ v >= 0)
  PROVE  ThresholdGives(option, Threshold(option))
<1>1. CASE NaN \in option
  BY <1>1 DEF Threshold, ThresholdGives, IsOption
<1>2. CASE NaN \notin option
  <2> DEFINE x == ValueOr(option, 0)
  <2>1. Threshold(option) = x
    BY <1>2 DEF Threshold
  <2>2. OptionGives(option, 0, Thresholds, x)
    BY OptionIs, Zenon
  <2> HIDE DEF x
  <2>3. CASE option = {} /\ x = 0
    BY <2>1, <2>3 DEF ThresholdGives
  <2>4. CASE option = {x} /\ x \in Thresholds
    <3>1. x # NaN /\ x # NotANumber /\ x >= 0
      BY <1>2, <2>4 DEF IsNumber
    <3>2. x \in Nat
      BY <2>4, <3>1 DEF Thresholds, Numbers
    <3>3. QED BY <2>1, <2>4, <3>1, <3>2 DEF ThresholdGives
  <2>5. QED BY <2>2, <2>3, <2>4 DEF OptionGives
<1>3. QED BY <1>1, <1>2

\* Passes, given what the compiler makes of a Select, says what the program means.
LEMMA PassesAsWanted ==
  ASSUME NEW o, SelectOk(o), Criteria(o), NEW in, NEW f, f.w \in Int, f.h \in Int,
         NEW d, d.x \in Int, d.y \in Int, d.w \in Int, d.h \in Int, d.score \in Nat
  PROVE  Passes(StepDesc(o, in), d, CropOf(d, f)) <=> Wanted(o, f, d)
<1> DEFINE s == StepDesc(o, in)
           cs == ValueOr(o.classes, {})
           sc == Threshold(o.min_score)
           sz == Threshold(o.min_size)
           rect == CropOf(d, f)
           side == ClampedMinSide(d, f.w, f.h)
<1>1. s.classes = cs /\ s.min_score = sc /\ s.min_size = sz
  BY DEF StepDesc
<1> HIDE DEF s
<1>2. /\ OptionGives(o.classes, {}, SUBSET Numbers, cs)
      /\ ThresholdGives(o.min_score, sc) /\ ThresholdGives(o.min_size, sz)
  BY OptionIs, ThresholdIs, Zenon DEF Criteria, SelectOk
<1> HIDE DEF cs, sc, sz
<1>3. (s.classes = {} \/ d.cls \in s.classes) <=> \A x \in o.classes : d.cls \in x
  <2>1. \A x \in o.classes : x # {}
    BY DEF SelectOk
  <2>2. QED BY <1>1, <1>2, <2>1 DEF OptionGives
<1>4. (s.min_score > 0 => d.score >= s.min_score) <=> \A v \in o.min_score \ {NaN} : d.score >= v
  <2>1. CASE o.min_score \ {NaN} = {} /\ sc = 0
    BY <1>1, <2>1
  <2>2. CASE o.min_score = {sc} /\ sc \in Nat /\ sc # NaN
    BY <1>1, <2>2
  <2>3. QED BY <1>2, <2>1, <2>2 DEF ThresholdGives
<1>5. /\ rect.w \in Int /\ rect.h \in Int /\ rect.w >= 1 /\ rect.h >= 1
      /\ side = IF rect.w <= rect.h THEN rect.w ELSE rect.h
  <2> DEFINE X == Larger(0, Smaller(Rounded(d.x), f.w - 1))
             Y == Larger(0, Smaller(Rounded(d.y), f.h - 1))
             W == Larger(1, Smaller(Rounded(d.w), f.w - X))
             H == Larger(1, Smaller(Rounded(d.h), f.h - Y))
  <2>1. rect = Rect(X, Y, W, H) /\ side = Smaller(W, H)
    BY Zenon DEF CropOf, ClampedMinSide
  <2>2. Rounded(d.x) \in Int /\ Rounded(d.y) \in Int /\ Rounded(d.w) \in Int /\ Rounded(d.h) \in Int
    BY DEF Rounded
  <2>3. X \in Int /\ Y \in Int
    BY <2>2 DEF Larger, Smaller
  <2> HIDE DEF X, Y
  <2>4. W \in Int /\ H \in Int /\ W >= 1 /\ H >= 1
    BY <2>2, <2>3 DEF Larger, Smaller
  <2> HIDE DEF W, H
  <2>5. rect.w = W /\ rect.h = H
    BY <2>1 DEF Rect
  <2>6. QED BY <2>1, <2>4, <2>5 DEF Smaller
<1> HIDE DEF rect, side
<1>6. (s.min_size > 0 => rect.w >= s.min_size /\ rect.h >= s.min_size)
        <=> \A v \in o.min_size \ {NaN} : side >= v
  <2>1. CASE o.min_size \ {NaN} = {} /\ sz = 0
    BY <1>1, <2>1
  <2>2. CASE o.min_size = {sz} /\ sz \in Nat /\ sz # NaN
    BY <1>1, <1>5, <2>2
  <2>3. QED BY <1>2, <2>1, <2>2 DEF ThresholdGives
<1>7. QED BY <1>3, <1>4, <1>6, Zenon DEF Passes, Wanted, s, rect, side

\* Different names have different places.
LEMMA DistinctAre ==
  ASSUME NEW names, IsASeq(names), Cardinality(Range(names)) = Len(names)
  PROVE  \A j, k \in 1..Len(names) : names[j] = names[k] => j = k
<1> DEFINE n == Len(names)
           T == Range(names)
<1>1. n \in Nat /\ DOMAIN names = 1..n
  BY IsASeqOver
<1>2. names \in Surjection(1..n, T)
  BY <1>1 DEF Surjection, Range, IsASeq
<1>3. IsFiniteSet(1..n) /\ Cardinality(T) = Cardinality(1..n)
  <2> HIDE DEF n
  <2>1. IsFiniteSet(1..n) /\ Cardinality(1..n) = n
    BY <1>1, Places
  <2>2. QED BY <2>1 DEF n
<1> HIDE DEF n, T
<1>4. names \in Injection(1..n, T)
  BY <1>2, <1>3, FS_Surjection, Zenon
<1>5. QED BY <1>1, <1>4 DEF Injection, IsInjective, n

\* No name is given twice.
Unambiguous(p) ==
  \A x, y \in 1..Len(p.layers) : p.layers[x].name = p.layers[y].name => x = y

\* outputs has, under the name of the layer at place j, what that layer's child says.
OutputFrom(p, c, f, pts, j) ==
  /\ Result(p, c, f, pts).outputs[p.layers[j].name]
       = Payload(FrameResult(c, f, pts), ChildFamilies(p), j - 1)
  /\ FrameResult(c, f, pts).children[j - 1] = ChildOutputOf(c, Plan(c).children[j - 1], f)

\* As the names are read.
LEMMA OutputIs ==
  ASSUME NEW p, IsASeq(p.layers), Unambiguous(p), NEW j \in 2..Len(p.layers), NEW c,
         DOMAIN Plan(c).children = 1..(Len(p.layers) - 1), NEW f, NEW pts
  PROVE  OutputFrom(p, c, f, pts, j)
<1> DEFINE n == Len(p.layers)
           r == FrameResult(c, f, pts)
           names == LayerNames(p)
           fam == ChildFamilies(p)
           name == p.layers[j].name
           Is(k) == names[k] = name /\ \A m \in DOMAIN names : names[m] = name => m <= k
<1>1. Result(p, c, f, pts).outputs = Outputs(r, names, fam)
  BY DEF Result
<1>2. DOMAIN names = 1..n /\ \A k \in 1..n : names[k] = p.layers[k].name
  BY IsASeqOver DEF LayerNames
<1>3. j \in 1..n /\ j - 1 \in 1..(n - 1) /\ j # 1
  BY IsASeqOver
<1>4. r.children = [k \in 1..(n - 1) |-> ChildOutputOf(c, Plan(c).children[k], f)]
  BY DEF FrameResult
<1>4a. \A x, y \in 1..n : p.layers[x].name = p.layers[y].name => x = y
  BY DEF Unambiguous
<1> HIDE DEF r, names, fam, n
<1>5. name \in Range(names)
  BY <1>2, <1>3 DEF Range
<1>6. Outputs(r, names, fam)[name] = OutputOf(r, names, fam, CHOOSE k \in DOMAIN names : Is(k))
  BY <1>5 DEF Outputs
<1>7. (CHOOSE k \in DOMAIN names : Is(k)) = j
  <2>1. j \in DOMAIN names /\ Is(j)
    BY <1>2, <1>3, <1>4a
  <2>2. \A k \in DOMAIN names : Is(k) => k = j
    BY <1>2, <1>3, <1>4a
  <2>3. QED BY <2>1, <2>2
<1>8. OutputOf(r, names, fam, j) = Payload(r, fam, j - 1)
  BY <1>3, <1>4 DEF OutputOf
<1>9. QED BY <1>1, <1>3, <1>4, <1>6, <1>7, <1>8 DEF r, fam, OutputFrom

\* What Validate asks of an accepted graph's layers.
LEMMA AcceptedLayers ==
  ASSUME NEW c, GraphTyped(c), Verdict(c) = "ok"
  PROVE  /\ Len(c.layers) # 0 /\ WiresExist(c) /\ DetectorOk(c, c.layers[1])
         /\ \A j \in 2..Len(c.layers) : ChildOk(c, c.layers[j])
<1> DEFINE children == ChildLayers(c)
           bad == {j \in DOMAIN children : ChildVerdict(c, children[j]) # "ok"}
           first == CHOOSE j \in bad : \A i \in bad : j <= i
           n == Len(c.layers)
<1>1. Verdict(c) =
        IF ~StreamsOk(c) THEN "stream"
        ELSE IF ~WiresExist(c) \/ c.layers = <<>> THEN "graph"
        ELSE IF c.ring_depth < 2 THEN "ring_depth"
        ELSE IF ~DetectorOk(c, c.layers[1]) THEN "graph"
        ELSE IF ~SahiOk(c) THEN "sahi"
        ELSE IF bad # {} THEN ChildVerdict(c, children[first])
        ELSE IF \A j \in DOMAIN c.sinks : SinkOk(c, c.sinks[j]) THEN "ok" ELSE "sink"
  BY Zenon DEF Verdict
<1>2. /\ IsASeq(c.layers) /\ n \in Nat /\ (c.layers = <<>> <=> n = 0)
  BY LayersTyped
<1> HIDE DEF bad, first, children
<1>3. /\ WiresExist(c) /\ ~(c.layers = <<>>) /\ DetectorOk(c, c.layers[1])
      /\ bad = {} \/ ChildVerdict(c, children[first]) = "ok"
  BY <1>1
<1>4. n # 0 /\ n - 1 \in Nat
  BY <1>2, <1>3
<1>5. /\ DOMAIN children = 1..(n - 1)
      /\ \A j \in 1..(n - 1) : children[j] = c.layers[j + 1]
  BY <1>4, ChildLayersAre DEF children
<1>6. bad = {}
  <2>1. ASSUME bad # {} PROVE FALSE
    <3>1. bad \subseteq 1..(n - 1)
      BY <1>5, <2>1 DEF bad
    <3>2. \E j \in bad : \A i \in bad : j <= i
      BY <1>4, <2>1, <3>1, EarliestOf
    <3>4. first \in bad
      BY <3>2, Zenon DEF first
    <3>5. QED BY <1>3, <2>1, <3>4 DEF bad
  <2>2. QED BY <2>1
<1>7. ASSUME NEW j \in 2..n PROVE ChildOk(c, c.layers[j])
  <2>1. j - 1 \in 1..(n - 1) /\ (j - 1) + 1 = j
    BY <1>2
  <2>2. ChildVerdict(c, c.layers[j]) = "ok"
    <3>1. ChildVerdict(c, children[j - 1]) = "ok"
      BY <1>5, <1>6, <2>1 DEF bad
    <3>2. QED BY <1>5, <2>1, <3>1
  <2>3. QED BY <2>2, ChildVerdicts
<1>8. QED BY <1>3, <1>4, <1>7

\* The object behind a step.
ObjectOf(p, x) == p.objects[ListingOf(p)[x + 1]]

\* Every wire of the graph is a reference between the objects.
FollowsReferences(p, c) ==
  \A x \in StepIds(c) :
    /\ \E o \in DOMAIN p.objects : ObjectOf(p, x) = p.objects[o]
    /\ StepAt(c, x) = StepDesc(ObjectOf(p, x), StepAt(c, x).input)
    /\ StepAt(c, x).input \in StepIds(c) =>
         p.objects[ObjectOf(p, x).input] = ObjectOf(p, StepAt(c, x).input)

\* And every layer its objects.
Layered(p, c) ==
  /\ Len(c.layers) = Len(p.layers)
  /\ \A j \in 1..Len(p.layers) :
       /\ Len(c.layers[j].steps) = Len(p.layers[j].steps)
       /\ \A i \in 1..Len(p.layers[j].steps) :
            ObjectOf(p, c.layers[j].steps[i]) = p.objects[p.layers[j].steps[i]]

\* A right graph is both, and typed as the lemmas on StageGraph want it.
LEMMA RightGraphWires ==
  ASSUME NEW p, IsProgram(p), NEW c, NEW at, GraphRight(p, c, at)
  PROVE  FollowsReferences(p, c) /\ Layered(p, c) /\ GraphTyped(c)
<1> DEFINE ss == StepsOf(p.layers)
           n == Len(p.layers)
           L == ListingOf(p)
<1>1. /\ Len(ss) = n /\ n \in Nat /\ DOMAIN p.objects = 1..Len(p.objects)
      /\ \A j \in 1..n : ss[j] = p.layers[j].steps /\ IsASeq(ss[j])
      /\ \A j \in 1..n : \A i \in 1..Len(ss[j]) : ss[j][i] \in 1..Len(p.objects)
  BY ProgramFacts, Zenon DEF IsSeqs
<1>2. PlacedUpTo(ss, n, at, L)
  BY <1>1, Zenon DEF GraphRight, Placed
<1>3. /\ IsASeq(c.steps) /\ Len(c.steps) = Len(L)
      /\ \A k \in 1..Len(L) : StepRight(p, L, c.steps[k], k)
      /\ IsASeq(c.layers) /\ Len(c.layers) = n
      /\ \A j \in 1..n : LayerRight(p.layers[j], c.layers[j], at[j - 1])
  BY Zenon DEF GraphRight, LayersRight
<1> HIDE DEF ss, L
<1>4. /\ IsASeq(L) /\ \A j \in 1..n : at[j - 1] \in Nat
      /\ \A j \in 1..n : \A i \in 1..Len(ss[j]) :
           at[j - 1] + i \in 1..Len(L) /\ L[at[j - 1] + i] = ss[j][i]
      /\ \A k \in 1..Len(L) : \E j \in 1..n : \E i \in 1..Len(ss[j]) : k = at[j - 1] + i
  BY <1>2, Zenon DEF PlacedUpTo
<1>5. Len(L) \in Nat
  BY <1>4 DEF IsASeq
<1>6. ASSUME NEW k \in 1..Len(L) PROVE L[k] \in DOMAIN p.objects
  <2>1. PICK j \in 1..n : \E i \in 1..Len(ss[j]) : k = at[j - 1] + i
    BY <1>4
  <2>2. PICK i \in 1..Len(ss[j]) : k = at[j - 1] + i
    BY <2>1
  <2>3. L[k] = ss[j][i]
    BY <1>4, <2>2, Zenon
  <2>4. QED BY <1>1, <2>3
<1>7. ASSUME NEW x \in StepIds(c)
      PROVE  /\ x + 1 \in 1..Len(L) /\ (x + 1) - 1 = x
             /\ StepAt(c, x) = StepDesc(ObjectOf(p, x), StepAt(c, x).input)
             /\ LastListing(L, x, ObjectOf(p, x).input, StepAt(c, x).input)
  <2>1. x + 1 \in 1..Len(L) /\ (x + 1) - 1 = x
    BY <1>3, <1>5 DEF StepIds
  <2>2. StepRight(p, L, c.steps[x + 1], x + 1)
    BY <1>3, <2>1
  <2>3. QED BY <2>1, <2>2, Zenon DEF StepRight, StepAt, ObjectOf, L
<1>8. FollowsReferences(p, c)
  <2> SUFFICES ASSUME NEW x \in StepIds(c)
               PROVE  /\ \E o \in DOMAIN p.objects : ObjectOf(p, x) = p.objects[o]
                      /\ StepAt(c, x) = StepDesc(ObjectOf(p, x), StepAt(c, x).input)
                      /\ StepAt(c, x).input \in StepIds(c) =>
                           p.objects[ObjectOf(p, x).input] = ObjectOf(p, StepAt(c, x).input)
    BY Zenon DEF FollowsReferences
  <2>1. L[x + 1] \in DOMAIN p.objects
    BY <1>6, <1>7
  <2>2. \E o \in DOMAIN p.objects : ObjectOf(p, x) = p.objects[o]
    BY <2>1, Zenon DEF ObjectOf, L
  <2>3. ASSUME StepAt(c, x).input \in StepIds(c)
        PROVE  L[StepAt(c, x).input + 1] = ObjectOf(p, x).input
    <3>1. StepAt(c, x).input # -1
      BY <2>3 DEF StepIds
    <3>2. QED BY <1>7, <3>1 DEF LastListing
  <2>4. ASSUME StepAt(c, x).input \in StepIds(c)
        PROVE  p.objects[ObjectOf(p, x).input] = ObjectOf(p, StepAt(c, x).input)
    <3> DEFINE y == StepAt(c, x).input
    <3>1. ObjectOf(p, y) = p.objects[L[y + 1]]
      BY Zenon DEF ObjectOf, L
    <3>2. QED BY <2>3, <2>4, <3>1
  <2>5. QED BY <1>7, <2>2, <2>4
<1>9. ASSUME NEW j \in 1..n
      PROVE  /\ IsASeq(c.layers[j].steps) /\ Len(c.layers[j].steps) = Len(ss[j])
             /\ \A i \in 1..Len(ss[j]) :
                  c.layers[j].steps[i] = (at[j - 1] + i) - 1 /\ c.layers[j].steps[i] \in Int
                  /\ ObjectOf(p, c.layers[j].steps[i]) = p.objects[ss[j][i]]
  <2>1. /\ IsASeq(c.layers[j].steps) /\ Len(c.layers[j].steps) = Len(ss[j])
        /\ \A i \in 1..Len(ss[j]) : c.layers[j].steps[i] = (at[j - 1] + i) - 1
    BY <1>1, <1>3, Zenon DEF LayerRight, Local
  <2>2. ASSUME NEW i \in 1..Len(ss[j])
        PROVE  /\ c.layers[j].steps[i] \in Int
               /\ ObjectOf(p, c.layers[j].steps[i]) = p.objects[ss[j][i]]
    <3>1. /\ c.layers[j].steps[i] = (at[j - 1] + i) - 1 /\ at[j - 1] \in Nat /\ i \in Nat
          /\ L[at[j - 1] + i] = ss[j][i]
      BY <1>4, <2>1
    <3>2. c.layers[j].steps[i] + 1 = at[j - 1] + i /\ c.layers[j].steps[i] \in Int
      BY <3>1
    <3>3. ObjectOf(p, c.layers[j].steps[i]) = p.objects[L[c.layers[j].steps[i] + 1]]
      BY Zenon DEF ObjectOf, L
    <3>4. QED BY <3>1, <3>2, <3>3
  <2>3. QED BY <2>1, <2>2
<1>10. Layered(p, c)
  <2>1. ASSUME NEW j \in 1..n
        PROVE  /\ Len(c.layers[j].steps) = Len(p.layers[j].steps)
               /\ \A i \in 1..Len(p.layers[j].steps) :
                    ObjectOf(p, c.layers[j].steps[i]) = p.objects[p.layers[j].steps[i]]
    <3>1. ss[j] = p.layers[j].steps
      BY <1>1
    <3>2. QED BY <1>9, <3>1
  <2>2. QED BY <1>3, <2>1, Zenon DEF Layered
<1>11. GraphTyped(c)
  <2>1. ASSUME NEW k \in 1..Len(c.steps) PROVE c.steps[k].input \in Int
    BY <1>3, Zenon DEF StepRight, LastListing
  <2>2. ASSUME NEW j \in 1..Len(c.layers)
        PROVE  /\ IsASeq(c.layers[j].steps)
               /\ \A k \in 1..Len(c.layers[j].steps) : c.layers[j].steps[k] \in Int
    BY <1>3, <1>9, Zenon
  <2>3. QED BY <1>3, <2>1, <2>2, Zenon DEF GraphTyped
<1>12. QED BY <1>8, <1>10, <1>11

\* The objects behind a layer's end.
PostObject(p, layer) == p.objects[layer.steps[Len(layer.steps)]]
EngineObject(p, layer) == p.objects[PostObject(p, layer).input]
SourceObject(p, layer) == p.objects[EngineObject(p, layer).input]

IsObject(p, o) == \E k \in DOMAIN p.objects : o = p.objects[k]

\* What the plan has of them.
ChildIs(p, c, l, layer) ==
  /\ StepAt(c, PostOf(l)).family \in ReadFamilies
  /\ PostObject(p, layer).kind = "Postprocess" /\ IsObject(p, PostObject(p, layer))
  /\ StepAt(c, PostOf(l)).family = Families[PostObject(p, layer).family]
  /\ EngineOf(l) \in StepIds(c) /\ StepAt(c, EngineOf(l)).kind = "Engine"
  /\ StepAt(c, EngineOf(l)).path = EngineObject(p, layer).path
  /\ SelectOf(c, l) = NoStep => SourceObject(p, layer).kind # "Select"
  /\ SelectOf(c, l) # NoStep =>
       /\ SourceObject(p, layer).kind = "Select" /\ IsObject(p, SourceObject(p, layer))
       /\ \E in : StepAt(c, SelectOf(c, l)) = StepDesc(SourceObject(p, layer), in)

\* Step s is what became of object o.
Describes(p, s, o) ==
  /\ IsObject(p, o) /\ s.kind = o.kind /\ s.path = o.path
  /\ s.kind = "Postprocess" => s.family = Families[o.family]
  /\ \E in : s = StepDesc(o, in)

\* A step is described by its object.
LEMMA DescribedBy ==
  ASSUME NEW p, NEW c, FollowsReferences(p, c), NEW x \in StepIds(c)
  PROVE  Describes(p, StepAt(c, x), ObjectOf(p, x))
<1> DEFINE s == StepAt(c, x)
           o == ObjectOf(p, x)
<1>1. s = StepDesc(o, s.input) /\ IsObject(p, o)
  BY Zenon DEF FollowsReferences, IsObject
<1> HIDE DEF s, o
<1>2. /\ StepDesc(o, s.input).kind = o.kind /\ StepDesc(o, s.input).path = o.path
      /\ o.kind = "Postprocess" => StepDesc(o, s.input).family = Families[o.family]
  BY DEF StepDesc
<1>3. /\ s.kind = o.kind /\ s.path = o.path
      /\ s.kind = "Postprocess" => s.family = Families[o.family]
  BY <1>1, <1>2
<1>4. QED BY <1>1, <1>3, Zenon DEF s, o, Describes

\* The steps a layer of two or three ends in.
LEMMA EndsInSteps ==
  ASSUME NEW c, NEW l, LayerTyped(l), Len(l.steps) \in {2, 3}, StepsExist(c, l)
  PROVE  /\ l.steps[1] \in StepIds(c) /\ EngineOf(l) \in StepIds(c) /\ PostOf(l) \in StepIds(c)
<1>1. DOMAIN l.steps = 1..Len(l.steps)
  BY IsASeqOver DEF LayerTyped
<1>2. 1 \in DOMAIN l.steps /\ Len(l.steps) - 1 \in DOMAIN l.steps /\ Len(l.steps) \in DOMAIN l.steps
  <2>1. \A n \in {2, 3} : 1 \in 1..n /\ n - 1 \in 1..n /\ n \in 1..n
    OBVIOUS
  <2>2. QED BY <1>1, <2>1, Zenon
<1>3. QED BY <1>2 DEF StepsExist, EngineOf, PostOf

\* A child's wires are its objects' references.
LEMMA ChildWires ==
  ASSUME NEW p, NEW c, FollowsReferences(p, c), GraphTyped(c), WiresExist(c),
         LayerTyped(c.layers[1]), DetectorOk(c, c.layers[1]),
         NEW l, LayerTyped(l), ChildOk(c, l), NEW layer,
         ObjectOf(p, PostOf(l)) = PostObject(p, layer)
  PROVE  ChildIs(p, c, l, layer)
<1> DEFINE po == PostOf(l)
           en == EngineOf(l)
           in == StepAt(c, en).input
           det == DetectorPost(c)
<1>1. l.steps[1] \in StepIds(c) /\ en \in StepIds(c) /\ po \in StepIds(c)
  BY EndsInSteps, Zenon DEF ChildOk
<1>2. det \in StepIds(c) /\ StepAt(c, det).kind = "Postprocess"
  <2>1. PostOf(c.layers[1]) \in StepIds(c)
    BY EndsInSteps, Zenon DEF DetectorOk
  <2>2. QED BY <2>1, Zenon DEF DetectorOk, DetectorPost, IsStep
<1>3. /\ StepAt(c, po).kind = "Postprocess" /\ StepAt(c, po).input = en
      /\ StepAt(c, po).family \in ReadFamilies
  BY Zenon DEF ChildOk, ReadOk, IsStep
<1>4. /\ StepAt(c, en).kind = "Engine"
      /\ \/ Routed(l) /\ in = l.steps[1]
         \/ in = det
         \/ in >= 0 /\ StepAt(c, in).kind = "Select"
  BY Zenon DEF ChildOk, EngineOk, SharedSelect, IsStep
<1>5. Routed(l) => StepAt(c, l.steps[1]).kind = "Select"
  BY Zenon DEF ChildOk, OwnSelectOk, IsStep
<1>6. in \in StepIds(c) /\ (in # det => StepAt(c, in).kind = "Select") /\ in # NoStep
  <2>1. in \in Int /\ in < Len(c.steps) /\ Len(c.steps) \in Nat
    BY <1>1, StepFacts DEF WiresExist
  <2>2. in >= 0 => in \in StepIds(c)
    BY <2>1 DEF StepIds
  <2>3. in \in StepIds(c) /\ (in # det => StepAt(c, in).kind = "Select")
    BY <1>1, <1>2, <1>4, <1>5, <2>2
  <2>4. \A x \in StepIds(c) : x # NoStep
    BY <2>1 DEF StepIds, NoStep
  <2>5. QED BY <2>3, <2>4
<1>7. SelectOf(c, l) = IF in = det THEN NoStep ELSE in
  BY Zenon DEF SelectOf
<1> DEFINE PO == PostObject(p, layer)
           EO == EngineObject(p, layer)
           SO == SourceObject(p, layer)
<1> HIDE DEF po, en, det
<1>8. ObjectOf(p, en) = EO
  <2>1. p.objects[ObjectOf(p, po).input] = ObjectOf(p, en)
    BY <1>1, <1>3, Zenon DEF FollowsReferences
  <2>2. QED BY <2>1, Zenon DEF EngineObject, po
<1>9. ObjectOf(p, in) = SO
  <2>1. p.objects[ObjectOf(p, en).input] = ObjectOf(p, in)
    BY <1>1, <1>6, Zenon DEF FollowsReferences
  <2>2. QED BY <1>8, <2>1, Zenon DEF SourceObject
<1>10. PO.kind = "Postprocess" /\ IsObject(p, PO) /\ StepAt(c, po).family = Families[PO.family]
  <2>1. ObjectOf(p, po) = PO
    BY DEF po
  <2>2. Describes(p, StepAt(c, po), ObjectOf(p, po))
    BY <1>1, DescribedBy, Zenon
  <2>3. Describes(p, StepAt(c, po), PO)
    BY <2>1, <2>2
  <2>4. QED BY <1>3, <2>3, Zenon DEF Describes
<1>11. StepAt(c, en).path = EO.path
  <2>1. Describes(p, StepAt(c, en), ObjectOf(p, en))
    BY <1>1, DescribedBy, Zenon
  <2>2. QED BY <1>8, <2>1, Zenon DEF Describes
<1>12. /\ StepAt(c, in).kind = SO.kind /\ IsObject(p, SO)
       /\ \E i : StepAt(c, in) = StepDesc(SO, i)
  <2>1. Describes(p, StepAt(c, in), ObjectOf(p, in))
    BY <1>6, DescribedBy, Zenon
  <2>2. Describes(p, StepAt(c, in), SO)
    BY <1>9, <2>1
  <2>3. QED BY <2>2, Zenon DEF Describes
<1> HIDE DEF PO, EO, SO, in
<1>13. SelectOf(c, l) = NoStep => SO.kind # "Select"
  BY <1>2, <1>6, <1>7, <1>12
<1>14. SelectOf(c, l) # NoStep =>
         SO.kind = "Select" /\ IsObject(p, SO) /\ \E i : StepAt(c, SelectOf(c, l)) = StepDesc(SO, i)
  BY <1>6, <1>7, <1>12, Zenon
<1>15. QED BY <1>1, <1>3, <1>4, <1>10, <1>11, <1>13, <1>14, Zenon DEF ChildIs, po, en, PO, EO, SO

\* A child of the plan, for layer l.
ChildFor(c, l) ==
  [engine |-> EngineOf(l), family |-> StepAt(c, PostOf(l)).family, select |-> SelectOf(c, l)]

\* A layer's Select, if it has one, lets d through.
LetThrough(p, layer, f, d) ==
  SourceObject(p, layer).kind # "Select" \/ Wanted(SourceObject(p, layer), f, d)

\* The executor routes as the objects say.
LEMMA RoutedAsWanted ==
  ASSUME NEW p, IsProgram(p), ConstructorsAccept(p), NEW c, NEW l, NEW layer,
         ChildIs(p, c, l, layer), NEW f, IsFrame(f), NEW d, IsDetection(d)
  PROVE  ReachedBy(c, ChildFor(c, l), f, d) <=> LetThrough(p, layer, f, d)
<1> DEFINE so == SourceObject(p, layer)
           child == ChildFor(c, l)
<1>1. child.select = SelectOf(c, l)
  BY DEF ChildFor
<1> HIDE DEF child
<1>2. CASE SelectOf(c, l) = NoStep
  <2>1. so.kind # "Select"
    BY <1>2, Zenon DEF ChildIs
  <2>2. QED BY <1>1, <1>2, <2>1, Zenon DEF ReachedBy, LetThrough, child
<1>3. CASE SelectOf(c, l) # NoStep
  <2>1. so.kind = "Select" /\ IsObject(p, so)
    BY <1>3, Zenon DEF ChildIs
  <2>2. PICK in : StepAt(c, SelectOf(c, l)) = StepDesc(so, in)
    BY <1>3, Zenon DEF ChildIs
  <2> HIDE DEF so
  <2>3. PICK o \in DOMAIN p.objects : so = p.objects[o]
    BY <2>1 DEF IsObject
  <2>4. StepOk(so)
    BY <2>3 DEF ConstructorsAccept
  <2>5. SelectOk(so)
    BY <2>1, <2>4 DEF StepOk
  <2>6. Criteria(so)
    BY <2>3, Zenon DEF IsProgram, Criteria
  <2>7. f.w \in Int /\ f.h \in Int
    BY DEF IsFrame
  <2>8. d.x \in Int /\ d.y \in Int /\ d.w \in Int /\ d.h \in Int /\ d.score \in Nat
    BY DEF IsDetection
  <2>9. Passes(StepDesc(so, in), d, CropOf(d, f)) <=> Wanted(so, f, d)
    BY <2>5, <2>6, <2>7, <2>8, PassesAsWanted, Zenon
  <2>10. ReachedBy(c, child, f, d) <=> Passes(StepDesc(so, in), d, CropOf(d, f))
    BY <1>1, <1>3, <2>2, Zenon DEF ReachedBy
  <2>11. LetThrough(p, layer, f, d) <=> Wanted(so, f, d)
    BY <2>1, Zenon DEF LetThrough, so
  <2>12. QED BY <2>9, <2>10, <2>11 DEF child
<1>4. QED BY <1>2, <1>3

\* The engine that answers is the program's, and is there.
AnswersFor(p, c, child, layer, d) ==
  /\ RowFor(c, child, d) = Logits[EngineObject(p, layer).path][d.who]
  /\ EngineObject(p, layer).path \in EngineFiles

\* A running program's are.
LEMMA RowOfObjects ==
  ASSUME NEW p, NEW c, EnginesExist(c), NEW l, NEW layer, ChildIs(p, c, l, layer), NEW d
  PROVE  AnswersFor(p, c, ChildFor(c, l), layer, d)
<1>1. ChildFor(c, l).engine = EngineOf(l)
  BY DEF ChildFor
<1>2. /\ EngineOf(l) \in StepIds(c) /\ StepAt(c, EngineOf(l)).kind = "Engine"
      /\ StepAt(c, EngineOf(l)).path = EngineObject(p, layer).path
  BY Zenon DEF ChildIs
<1>3. StepAt(c, EngineOf(l)).path \in EngineFiles
  BY <1>2, Zenon DEF EnginesExist
<1>4. QED BY <1>1, <1>2, <1>3 DEF RowFor, AnswersFor

\* What Expected says, family by family.
LEMMA ExpectedIs ==
  ASSUME NEW layer, NEW f, NEW d
  PROVE  LET po  == PostObject(prog, layer)
             row == Logits[EngineObject(prog, layer).path][d.who]
             in  == LetThrough(prog, layer, f, d)
         IN  /\ po.family = "ctc" => Expected(layer, f, d) = IF in THEN Reading[d.who] ELSE ""
             /\ po.family = "embedding" => Expected(layer, f, d) = IF in THEN row ELSE <<>>
             /\ po.family = "argmax" =>
                  Expected(layer, f, d)
                    = IF in
                      THEN <<Argmax(row), CHOOSE x \in Range(row) : \A y \in Range(row) : y <= x>>
                      ELSE <<0, 0>>
BY Zenon DEF Expected, PostObject, EngineObject, SourceObject, LetThrough, Wanted

\* A layer's reader is of the family its last object names.
LEMMA FamilyOf ==
  ASSUME NEW p, ConstructorsAccept(p), NEW c, NEW l, NEW layer, ChildIs(p, c, l, layer),
         IsASeq(layer.steps), Len(layer.steps) # 0
  PROVE  LET po == PostObject(p, layer) IN
           /\ ChildFamily(p, layer) = po.family
           /\ \/ po.family = "ctc" /\ ChildFor(c, l).family = "Ctc"
              \/ po.family = "argmax" /\ ChildFor(c, l).family = "Argmax"
              \/ po.family = "embedding" /\ ChildFor(c, l).family = "Embedding"
<1> DEFINE po == PostObject(p, layer)
<1>1. /\ StepAt(c, PostOf(l)).family \in ReadFamilies /\ po.kind = "Postprocess" /\ IsObject(p, po)
      /\ StepAt(c, PostOf(l)).family = Families[po.family]
  BY Zenon DEF ChildIs
<1>2. ChildFamily(p, layer) = IF layer.steps # <<>> /\ po.kind = "Postprocess"
                                 /\ po.family \in {"argmax", "embedding"}
                              THEN po.family ELSE "ctc"
  BY Zenon DEF ChildFamily, PostObject
<1>3. ChildFor(c, l).family = StepAt(c, PostOf(l)).family
  BY DEF ChildFor
<1> HIDE DEF po
<1>4. layer.steps # <<>>
  OBVIOUS
<1>5. po.family \in DOMAIN Families
  <2>1. PICK o \in DOMAIN p.objects : po = p.objects[o]
    BY <1>1 DEF IsObject
  <2>2. StepOk(po)
    BY <2>1 DEF ConstructorsAccept
  <2>3. QED BY <1>1, <2>2 DEF StepOk, PostprocessOk
<1>6. po.family \in {"ctc", "argmax", "embedding"}
  BY <1>1, <1>5 DEF Families, ReadFamilies
<1>7. ChildFamily(p, layer) = po.family
  BY <1>1, <1>2, <1>4, <1>6, Zenon
<1>8. \/ po.family = "ctc" /\ ChildFor(c, l).family = "Ctc"
      \/ po.family = "argmax" /\ ChildFor(c, l).family = "Argmax"
      \/ po.family = "embedding" /\ ChildFor(c, l).family = "Embedding"
  BY <1>1, <1>3, <1>6 DEF Families
<1>9. QED BY <1>7, <1>8, Zenon DEF po

\* A FrameResult has layer l's output, of layer's family, at place k.
ReportsAt(c, l, layer, f, r, fam, k) ==
  r.children[k] = ChildOutputOf(c, ChildFor(c, l), f) /\ fam[k] = ChildFamily(prog, layer)

\* What is reported is what is expected, detection for detection.
AsExpected(layer, f, reported) == reported = [i \in DOMAIN f.dets |-> Expected(layer, f, f.dets[i])]

\* Its payload is.
LEMMA PayloadIs ==
  ASSUME IsProgram(prog), ConstructorsAccept(prog), NEW c, EnginesExist(c), NEW l, NEW layer,
         ChildIs(prog, c, l, layer), IsASeq(layer.steps), Len(layer.steps) # 0,
         NEW f, IsFrame(f), NEW r, NEW fam, NEW k,
         ReportsAt(c, l, layer, f, r, fam, k)
  PROVE  AsExpected(layer, f, Payload(r, fam, k))
<1> SUFFICES Payload(r, fam, k) = [i \in DOMAIN f.dets |-> Expected(layer, f, f.dets[i])]
  BY Zenon DEF AsExpected
<1> DEFINE po == PostObject(prog, layer)
           child == ChildFor(c, l)
           said == ChildOutputOf(c, child, f)
           row(d) == Logits[EngineObject(prog, layer).path][d.who]
           in(d) == LetThrough(prog, layer, f, d)
           top(v) == CHOOSE x \in Range(v) : \A y \in Range(v) : y <= x
<1>1. /\ fam[k] = po.family
      /\ \/ po.family = "ctc" /\ child.family = "Ctc"
         \/ po.family = "argmax" /\ child.family = "Argmax"
         \/ po.family = "embedding" /\ child.family = "Embedding"
  BY FamilyOf, Zenon DEF ReportsAt
<1>2. ASSUME NEW i \in DOMAIN f.dets
      PROVE  /\ ReachedBy(c, child, f, f.dets[i]) <=> in(f.dets[i])
             /\ RowFor(c, child, f.dets[i]) = row(f.dets[i])
             /\ row(f.dets[i])[Argmax(row(f.dets[i])) + 1] = top(row(f.dets[i]))
  <2>1. IsDetection(f.dets[i])
    BY Zenon DEF IsFrame
  <2>2. ReachedBy(c, child, f, f.dets[i]) <=> in(f.dets[i])
    BY <2>1, RoutedAsWanted, Zenon
  <2>3. /\ RowFor(c, child, f.dets[i]) = row(f.dets[i])
        /\ EngineObject(prog, layer).path \in EngineFiles
    <3>1. AnswersFor(prog, c, child, layer, f.dets[i])
      BY RowOfObjects, Zenon
    <3>2. QED BY <3>1, Zenon DEF AnswersFor
  <2>4. row(f.dets[i]) # <<>> /\ row(f.dets[i]) \in Seq(Int)
    BY <2>1, <2>3, Zenon DEF IsDetection
  <2>5. row(f.dets[i])[Argmax(row(f.dets[i])) + 1] = top(row(f.dets[i]))
    <3> DEFINE v == row(f.dets[i])
    <3> HIDE DEF row
    <3>1. v # <<>> /\ v \in Seq(Int)
      BY <2>4
    <3> HIDE DEF v
    <3>2. v[Argmax(v) + 1] = top(v)
      BY <3>1, ArgmaxIsGreatest, Zenon
    <3>3. QED BY <3>2 DEF v
  <2>6. QED BY <2>2, <2>3, <2>5
<1>3. /\ child.family = "Argmax" =>
           /\ said.labels = [i \in DOMAIN f.dets |->
                              IF ReachedBy(c, child, f, f.dets[i])
                              THEN Argmax(RowFor(c, child, f.dets[i])) ELSE 0]
           /\ said.label_scores = [i \in DOMAIN f.dets |->
                              IF ReachedBy(c, child, f, f.dets[i])
                              THEN RowFor(c, child, f.dets[i])[Argmax(RowFor(c, child, f.dets[i])) + 1]
                              ELSE 0]
      /\ child.family = "Embedding" =>
           said.vectors = [i \in DOMAIN f.dets |->
                            IF ReachedBy(c, child, f, f.dets[i])
                            THEN RowFor(c, child, f.dets[i]) ELSE <<>>]
      /\ child.family = "Ctc" =>
           said.texts = [i \in DOMAIN f.dets |->
                          IF ReachedBy(c, child, f, f.dets[i])
                          THEN Reading[f.dets[i].who] ELSE ""]
  <2>1. ChildSays(c, child, f, said)
    BY ChildOutputIs, Zenon
  <2> HIDE DEF child, said
  <2>2. QED BY <2>1, Zenon DEF ChildSays
<1>4. /\ fam[k] = "argmax" => Payload(r, fam, k) = [i \in DOMAIN said.labels |->
                                                      <<said.labels[i], said.label_scores[i]>>]
      /\ fam[k] = "embedding" => Payload(r, fam, k) = said.vectors
      /\ fam[k] = "ctc" => Payload(r, fam, k) = said.texts
  BY DEF Payload, ReportsAt
<1>5. \A d : /\ po.family = "ctc" => Expected(layer, f, d) = IF in(d) THEN Reading[d.who] ELSE ""
             /\ po.family = "embedding" => Expected(layer, f, d) = IF in(d) THEN row(d) ELSE <<>>
             /\ po.family = "argmax" =>
                  Expected(layer, f, d) = IF in(d) THEN <<Argmax(row(d)), top(row(d))>> ELSE <<0, 0>>
  BY ExpectedIs, Zenon
<1> HIDE DEF po, child, said, row, in, top
<1>6. CASE po.family = "ctc"
  <2>1. Payload(r, fam, k) = [i \in DOMAIN f.dets |-> IF ReachedBy(c, child, f, f.dets[i])
                                                      THEN Reading[f.dets[i].who] ELSE ""]
    BY <1>1, <1>3, <1>4, <1>6, Zenon
  <2>2. \A i \in DOMAIN f.dets : (IF ReachedBy(c, child, f, f.dets[i])
                                  THEN Reading[f.dets[i].who] ELSE "")
                                   = Expected(layer, f, f.dets[i])
    BY <1>2, <1>5, <1>6, Zenon
  <2>3. QED BY <2>1, <2>2, Zenon
<1>7. CASE po.family = "embedding"
  <2>1. Payload(r, fam, k) = [i \in DOMAIN f.dets |-> IF ReachedBy(c, child, f, f.dets[i])
                                                      THEN RowFor(c, child, f.dets[i]) ELSE <<>>]
    BY <1>1, <1>3, <1>4, <1>7, Zenon
  <2>2. \A i \in DOMAIN f.dets : (IF ReachedBy(c, child, f, f.dets[i])
                                  THEN RowFor(c, child, f.dets[i]) ELSE <<>>)
                                   = Expected(layer, f, f.dets[i])
    BY <1>2, <1>5, <1>7, Zenon
  <2>3. QED BY <2>1, <2>2
<1>8. CASE po.family = "argmax"
  <2>1. /\ DOMAIN said.labels = DOMAIN f.dets
        /\ \A i \in DOMAIN f.dets :
             /\ said.labels[i] = IF ReachedBy(c, child, f, f.dets[i])
                                THEN Argmax(RowFor(c, child, f.dets[i])) ELSE 0
             /\ said.label_scores[i] = IF ReachedBy(c, child, f, f.dets[i])
                  THEN RowFor(c, child, f.dets[i])[Argmax(RowFor(c, child, f.dets[i])) + 1] ELSE 0
    BY <1>1, <1>3, <1>8, Zenon
  <2>2. Payload(r, fam, k) = [i \in DOMAIN f.dets |-> <<said.labels[i], said.label_scores[i]>>]
    BY <1>1, <1>4, <1>8, <2>1
  <2>3. ASSUME NEW i \in DOMAIN f.dets
        PROVE  <<said.labels[i], said.label_scores[i]>> = Expected(layer, f, f.dets[i])
    <3>1. CASE in(f.dets[i])
      <4>1. /\ said.labels[i] = Argmax(row(f.dets[i]))
            /\ said.label_scores[i] = top(row(f.dets[i]))
        BY <1>2, <2>1, <3>1, Zenon
      <4>2. Expected(layer, f, f.dets[i]) = <<Argmax(row(f.dets[i])), top(row(f.dets[i]))>>
        BY <1>5, <1>8, <3>1, Zenon
      <4>3. QED BY <4>1, <4>2, Zenon
    <3>2. CASE ~in(f.dets[i])
      <4>1. said.labels[i] = 0 /\ said.label_scores[i] = 0
        BY <1>2, <2>1, <3>2, Zenon
      <4>2. Expected(layer, f, f.dets[i]) = <<0, 0>>
        BY <1>5, <1>8, <3>2, Zenon
      <4>3. QED BY <4>1, <4>2, Zenon
    <3>3. QED BY <3>1, <3>2
  <2>4. QED BY <2>2, <2>3
<1>9. QED BY <1>1, <1>6, <1>7, <1>8

\* A running program's outputs.
LEMMA RunningOutputs ==
  ASSUME ApplicationInv
  PROVE  OutputsFollowNames
<1> SUFFICES ASSUME phase = "running", DistinctNames,
                    NEW f \in Frames, NEW j \in 2..Len(prog.layers)
             PROVE  Result(prog, Cfg, f, 0).outputs[prog.layers[j].name]
                      = [i \in DOMAIN f.dets |-> Expected(prog.layers[j], f, f.dets[i])]
  BY Zenon DEF OutputsFollowNames
<1> DEFINE n == Len(prog.layers)
           c == Cfg
           layer == prog.layers[j]
           l == c.layers[j]
           r == FrameResult(c, f, 0)
           fam == ChildFamilies(prog)
<1>1. config # {} /\ Verdict(c) = "ok" /\ EnginesExist(c) /\ prog \in ProgramsToRun
      /\ c \in Compile(prog)
  <2>1. /\ config # {} /\ Verdict(c) = "ok" /\ EnginesExist(c) /\ prog \in ProgramsToRun
        /\ config = Compile(prog)
    BY Zenon DEF ApplicationInv, BuiltFrom, RunsAccepted
  <2>2. Cfg \in config
    BY <2>1 DEF Cfg
  <2>3. QED BY <2>1, <2>2
<1> HIDE DEF c
<1>2. IsProgram(prog) /\ ConstructorsAccept(prog)
  BY <1>1, ProgramsAssumption, CompiledFrom, Zenon
<1>3. PICK at : GraphRight(prog, c, at)
  BY <1>1, <1>2, CompileIsRight, Zenon
<1>4. FollowsReferences(prog, c) /\ Layered(prog, c) /\ GraphTyped(c)
  BY <1>2, <1>3, RightGraphWires, Zenon
<1>5. /\ IsASeq(prog.layers) /\ DOMAIN prog.layers = 1..n /\ n \in Nat
      /\ \A k \in 1..n : IsASeq(prog.layers[k].steps)
  BY <1>2, ProgramFacts DEF IsSeqs
<1>6. j \in 1..n /\ 1 \in 1..n /\ j - 1 \in 1..(n - 1) /\ (j - 1) + 1 = j /\ n # 0
  BY <1>5
<1>7. Len(c.layers) = n
  BY <1>4, Zenon DEF Layered
<1>8. /\ WiresExist(c) /\ DetectorOk(c, c.layers[1]) /\ ChildOk(c, l)
  BY <1>1, <1>4, <1>7, AcceptedLayers
<1>9. LayerTyped(c.layers[1]) /\ LayerTyped(l)
  BY <1>4, <1>6, <1>7, LayersTyped
<1> HIDE DEF n
<1>10. ObjectOf(prog, PostOf(l)) = PostObject(prog, layer) /\ Len(layer.steps) # 0
  <2>1. /\ Len(l.steps) = Len(layer.steps)
        /\ \A i \in 1..Len(layer.steps) : ObjectOf(prog, l.steps[i]) = prog.objects[layer.steps[i]]
    BY <1>4, <1>6, Zenon DEF Layered, n
  <2>2. Len(l.steps) \in {2, 3}
    BY <1>8, Zenon DEF ChildOk
  <2> HIDE DEF l, layer
  <2>3. Len(layer.steps) # 0 /\ Len(layer.steps) \in 1..Len(layer.steps)
    <3>1. \A k \in {2, 3} : k # 0 /\ k \in 1..k
      OBVIOUS
    <3>2. QED BY <2>1, <2>2, <3>1, Zenon
  <2>4. QED BY <2>1, <2>3, Zenon DEF PostOf, PostObject
<1> HIDE DEF l, layer
<1>11. ChildIs(prog, c, l, layer)
  BY <1>4, <1>8, <1>9, <1>10, ChildWires, Zenon
<1>12. Plan(c).children = [k \in DOMAIN ChildLayers(c) |-> ChildFor(c, ChildLayers(c)[k])]
  BY DEF Plan, ChildFor
<1>13. DOMAIN Plan(c).children = 1..(n - 1) /\ Plan(c).children[j - 1] = ChildFor(c, l)
  <2>1. DOMAIN ChildLayers(c) = 1..(n - 1) /\ ChildLayers(c)[j - 1] = c.layers[(j - 1) + 1]
    BY <1>4, <1>6, <1>7, ChildLayersAre
  <2>2. QED BY <1>6, <1>12, <2>1 DEF l
<1>14. Unambiguous(prog)
  <2> DEFINE names == LayerNames(prog)
  <2>1. names = [k \in 1..n |-> prog.layers[k].name]
    BY <1>5, Zenon DEF LayerNames
  <2>2. IsASeq(names) /\ Len(names) = n /\ \A k \in 1..n : names[k] = prog.layers[k].name
    BY <1>5, <2>1 DEF IsASeq
  <2>3. Cardinality(Range(names)) = Len(names)
    BY <2>2 DEF DistinctNames, n
  <2> HIDE DEF names
  <2>4. \A x, y \in 1..Len(names) : names[x] = names[y] => x = y
    BY <2>2, <2>3, DistinctAre, Zenon
  <2>5. \A x, y \in 1..n : prog.layers[x].name = prog.layers[y].name => x = y
    BY <2>2, <2>4
  <2>6. QED BY <2>5, Zenon DEF Unambiguous, n
<1>15. /\ Result(prog, c, f, 0).outputs[layer.name] = Payload(r, fam, j - 1)
       /\ r.children[j - 1] = ChildOutputOf(c, ChildFor(c, l), f)
  <2>1. OutputFrom(prog, c, f, 0, j)
    BY <1>5, <1>13, <1>14, OutputIs, Zenon DEF n
  <2>2. QED BY <1>13, <2>1 DEF OutputFrom, layer
<1>16. fam[j - 1] = ChildFamily(prog, layer)
  <2>1. /\ IsASeq(Tail(prog.layers)) /\ Len(Tail(prog.layers)) = n - 1
        /\ \A i \in 1..(n - 1) : Tail(prog.layers)[i] = prog.layers[i + 1]
    BY <1>5, <1>6, TailFacts DEF n
  <2>2. DOMAIN Tail(prog.layers) = 1..(n - 1)
    BY <2>1, IsASeqOver
  <2>3. fam = [k \in 1..(n - 1) |-> ChildFamily(prog, Tail(prog.layers)[k])]
    BY <2>2, Zenon DEF ChildFamilies
  <2>4. QED BY <1>6, <2>1, <2>3 DEF layer
<1>17. IsFrame(f)
  BY FramesAssumption
<1>18. IsASeq(layer.steps)
  BY <1>5, <1>6 DEF layer
<1>19. AsExpected(layer, f, Payload(r, fam, j - 1))
  <2> HIDE DEF r, fam
  <2>1. ReportsAt(c, l, layer, f, r, fam, j - 1)
    BY <1>15, <1>16, Zenon DEF ReportsAt
  <2>2. QED BY <1>1, <1>2, <1>10, <1>11, <1>17, <1>18, <2>1, PayloadIs, Zenon
<1>20. QED BY <1>15, <1>19, Zenon DEF AsExpected, c, layer

\* OutputsFollowNames (Pipeline._wrap, GpuLoop): for every program and every frame.
THEOREM OutputsAreNamedRight == AppSpec => []OutputsFollowNames
BY ApplicationInvariant, RunningOutputs, PTL
=============================================================================
