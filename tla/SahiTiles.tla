------------------------------ MODULE SahiTiles ------------------------------
(***************************************************************************)
(* Geometry of sliced inference (SAHI): the grid of overlapping tiles over *)
(* a frame (sahi_tiles.h), how a tile or a frame is scaled into the        *)
(* engine's input (preprocess.cu) and how boxes found there are mapped     *)
(* back (postprocess.cu).  Coordinates are whole pixels.                   *)
(***************************************************************************)
EXTENDS Integers

CONSTANT FloatShort  \* see Stride

\* A tile and an overlap, in hundredths, that share out to a whole number of pixels.
ASSUME FloatAssumption ==
  \A p \in FloatShort :
    p[1] \in Nat \ {0} /\ p[2] \in 0..90 /\ (p[1] * (100 - p[2])) % 100 = 0

Smaller(a, b) == IF a <= b THEN a ELSE b
Larger(a, b) == IF a >= b THEN a ELSE b

Rect(x, y, w, h) == [x |-> x, y |-> y, w |-> w, h |-> h]

\* Rectangle a lies within rectangle b.
Within(a, b) ==
  /\ a.x >= b.x /\ a.x + a.w <= b.x + b.w
  /\ a.y >= b.y /\ a.y + a.h <= b.y + b.h

-----------------------------------------------------------------------------
(* sahi_tiles.h *)

\* Tiles advance by stride from the origin; the last one is pulled back flush
\* with the far edge of the frame.
FrameSteps(frame, tile, stride) ==
  {o \in {k * stride : k \in 0..frame} : o + tile < frame}

TileOffsets1D(frame, tile, stride) ==
  IF frame <= tile THEN {0}
  ELSE FrameSteps(frame, tile, stride) \cup {frame - tile}

\* tile * (1 - overlap), overlap in hundredths and clamped to [0, 90], cut to an integer.
\* In floating point a product that is a whole number may come out just below it, and
\* the cut then takes one pixel more: short has the pairs where it does.
CutShare(tile, overlap, short) ==
  LET share == Smaller(Larger(overlap, 0), 90)
      short_by == IF <<tile, share>> \in short THEN 1 ELSE 0
  IN  Larger(1, (tile * (100 - share)) \div 100 - short_by)

\* The grid works in single precision.
Stride(tile, overlap) == CutShare(tile, overlap, FloatShort)

MakeTileGrid(w, h, tile, overlap) ==
  {Rect(o[1], o[2], Smaller(tile, w), Smaller(tile, h)) :
     o \in TileOffsets1D(w, tile, Stride(tile, overlap))
             \X TileOffsets1D(h, tile, Stride(tile, overlap))}

-----------------------------------------------------------------------------
(* Into the engine's input and back.  The input is square, of side net; net is *)
(* a multiple of every side that occurs, so that the scales are whole numbers. *)

\* LaunchNV12ToTensor, and the geometry GpuLoop gives the decoder for a tile:
\* one scale for both axes, the rest padded.
Letterbox(w, h, net) ==
  LET scale == net \div Larger(w, h)
  IN  [scale |-> scale,
       pad_x |-> (net - w * scale) \div 2, pad_y |-> (net - h * scale) \div 2]

\* Where a box of the view r appears when the view is letterboxed.
Letterboxed(box, r, net) ==
  LET lb == Letterbox(r.w, r.h, net)
  IN  Rect((box.x - r.x) * lb.scale + lb.pad_x, (box.y - r.y) * lb.scale + lb.pad_y,
           box.w * lb.scale, box.h * lb.scale)

\* Where it appears when Nv12CropResizeKernel resizes the view: each axis is
\* stretched to fill the input.
Stretched(box, r, net) ==
  LET sx == net \div r.w
      sy == net \div r.h
  IN  Rect((box.x - r.x) * sx, (box.y - r.y) * sy, box.w * sx, box.h * sy)

\* DecodeAnchor: undo the letterbox, clamp to the view, move by its offset.
Decoded(box, r, net) ==
  LET lb == Letterbox(r.w, r.h, net)
      x0 == (box.x - lb.pad_x) \div lb.scale
      y0 == (box.y - lb.pad_y) \div lb.scale
      left   == Larger(x0, 0)
      top    == Larger(y0, 0)
      right  == Smaller(x0 + box.w \div lb.scale, r.w)
      bottom == Smaller(y0 + box.h \div lb.scale, r.h)
  IN  Rect(left + r.x, top + r.y, Larger(right - left, 0), Larger(bottom - top, 0))
=============================================================================
