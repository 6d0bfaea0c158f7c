------------------------------ MODULE Detections -----------------------------
(***************************************************************************)
(* What the detector stage makes of one view of a frame: candidates from   *)
(* the engine, decoded to frame coordinates, thinned out by greedy         *)
(* non-maximum suppression (postprocess.cu).                               *)
(*                                                                         *)
(* A scene stands for the pixels of a frame: [w, h, objects], an object    *)
(* being a rectangle with a class and a score.                             *)
(***************************************************************************)
EXTENDS SahiTiles, SequencesExt

CONSTANTS
  Net,        \* side of the detector engine's input
  MinSide,    \* smallest side the detector recognises, in engine pixels
  MaxCands    \* kMaxNmsCandidates

ASSUME DetectionsAssumption ==
  Net \in Nat \ {0} /\ MinSide \in Nat /\ MaxCands \in Nat \ {0}

Area(r) == r.w * r.h

Overlap(a, b) ==
  LET left   == Larger(a.x, b.x)
      top    == Larger(a.y, b.y)
      right  == Smaller(a.x + a.w, b.x + b.w)
      bottom == Smaller(a.y + a.h, b.y + b.h)
  IN  Rect(left, top, Larger(right - left, 0), Larger(bottom - top, 0))

\* Iou(a, b) > percent / 100.
OverlapsMore(a, b, percent) ==
  LET inter == Area(Overlap(a, b))
  IN  inter * 100 > percent * (Area(a) + Area(b) - inter)

Before(a, b) ==
  \/ a.score > b.score
  \/ a.score = b.score /\ a.cls < b.cls
  \/ a.score = b.score /\ a.cls = b.cls /\ a.x < b.x

\* What s_order makes of a sequence: the one that is ahead of the others first; of two
\* that tie, the one that was in front.
Ranked(s, Ahead(_, _)) ==
  LET Place(j) ==
        Cardinality({i \in DOMAIN s : Ahead(s[i], s[j]) \/ (i <= j /\ ~Ahead(s[j], s[i]))})
  IN  [p \in DOMAIN s |-> s[CHOOSE j \in DOMAIN s : Place(j) = p]]

Suppresses(a, b, percent) == a.cls = b.cls /\ OverlapsMore(a, b, percent)

\* NmsBlock: the first MaxCands candidates, best first; one is kept unless a kept one
\* suppresses it.
Nms(cands, percent) ==
  LET first == SubSeq(cands, 1, Smaller(Len(cands), MaxCands))
      Step(kept, d) ==
        IF \E i \in DOMAIN kept : Suppresses(kept[i], d, percent)
        THEN kept ELSE Append(kept, d)
  IN  FoldLeft(Step, <<>>, Ranked(first, Before))

-----------------------------------------------------------------------------
(* The detector network, external: it reports every object most of which it   *)
(* sees, if it is large enough in its input; a truncated one with less score. *)

FrameView(scene) == Rect(0, 0, scene.w, scene.h)

Legible(box) == box.w >= MinSide /\ box.h >= MinSide

Seen(scene, view) == {o \in scene.objects : 2 * Area(Overlap(o, view)) > Area(o)}

Scored(box, o, view) ==
  [x |-> box.x, y |-> box.y, w |-> box.w, h |-> box.h, cls |-> o.cls,
   score |-> IF Within(o, view) THEN o.score ELSE o.score - 1]

\* The whole frame, letterboxed.
FramePass(scene) ==
  LET view == FrameView(scene)
  IN  {Scored(Decoded(Letterboxed(o, view, Net), view, Net), o, view) :
         o \in {s \in Seen(scene, view) : Legible(Letterboxed(s, view, Net))}}

\* One tile, resized by the crop kernel.
TilePass(scene, tile) ==
  {Scored(Decoded(Stretched(Overlap(o, tile), tile, Net), tile, Net), o, tile) :
     o \in {s \in Seen(scene, tile) : Legible(Stretched(Overlap(s, tile), tile, Net))}}
=============================================================================
