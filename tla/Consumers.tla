------------------------------ MODULE Consumers ------------------------------
(***************************************************************************)
(* What the examples and the QA gates do with a Result: one operator per   *)
(* script, from what it has counted so far and the next Result to what it  *)
(* has counted then.  Before that, the Result itself: what GpuLoop puts in *)
(* a FrameResult, given what the engines say of each crop.                 *)
(*                                                                         *)
(* A frame is [stream, gap, w, h, dets]; a detection [x, y, w, h, cls,     *)
(* score, who], in half pixels, `who` standing for what its crop shows.    *)
(***************************************************************************)
EXTENDS Programs, SahiTiles

Counter == INSTANCE BagsExt

CONSTANTS
  Logits,      \* by engine and by what is shown: the row of numbers the engine answers
  Reading,     \* by what is shown: the text the CTC decoder makes of the answer
  VectorLen,   \* 512: the length of a row of Logits
  GALLERY_PER_STREAM      \* 50: the vectors route_and_reid remembers of a camera

ASSUME GalleryAssumption == GALLERY_PER_STREAM \in Nat \ {0}

-----------------------------------------------------------------------------
(* FrameResult *)

\* lroundf of half pixels, none negative.
Rounded(v) == (v + 1) \div 2

CropOf(d, f) ==
  LET x == Larger(0, Smaller(Rounded(d.x), f.w - 1))
      y == Larger(0, Smaller(Rounded(d.y), f.h - 1))
  IN  Rect(x, y, Larger(1, Smaller(Rounded(d.w), f.w - x)),
                 Larger(1, Smaller(Rounded(d.h), f.h - y)))

\* ArgmaxKernel scans from 0 and moves on to what is greater.
Argmax(v) ==
  (CHOOSE i \in DOMAIN v : \A j \in DOMAIN v : v[j] < v[i] \/ (v[j] = v[i] /\ i <= j)) - 1

\* A slot that no crop was routed to keeps what resize() put there.
ChildOutputOf(cfg, child, f) ==
  LET Reached(d) == \/ child.select = NoStep
                   \/ Passes(StepAt(cfg, child.select), d, CropOf(d, f))
      Row(d) == Logits[StepAt(cfg, child.engine).path][d.who]
      Each(family, Of(_), none) ==
        IF child.family # family THEN <<>>
        ELSE [i \in DOMAIN f.dets |-> IF Reached(f.dets[i]) THEN Of(f.dets[i]) ELSE none]
  IN  [labels       |-> Each("Argmax", LAMBDA d : Argmax(Row(d)), 0),
       label_scores |-> Each("Argmax", LAMBDA d : Row(d)[Argmax(Row(d)) + 1], 0),
       vectors      |-> Each("Embedding", Row, <<>>),
       texts        |-> Each("Ctc", LAMBDA d : Reading[d.who], "")]

\* What the first child of a family says, in the fields from before there were several.
FirstOf(plan, children, family, field) ==
  LET first == SelectSeq([c \in DOMAIN children |-> c], LAMBDA c : plan.children[c].family = family)
  IN  IF first = <<>> THEN <<>> ELSE children[Head(first)][field]

FrameResult(cfg, f, pts) ==
  LET plan == Plan(cfg)
      children == [c \in DOMAIN plan.children |-> ChildOutputOf(cfg, plan.children[c], f)]
  IN  [stream_id |-> f.stream, pts |-> pts, w |-> f.w, h |-> f.h, detections |-> f.dets,
       children |-> children,
       texts  |-> FirstOf(plan, children, "Ctc", "texts"),
       labels |-> FirstOf(plan, children, "Argmax", "labels")]

\* Pipeline._wrap
Result(prog, cfg, f, pts) ==
  LET r == FrameResult(cfg, f, pts)
  IN  [key \in DOMAIN r \cup {"outputs"} |->
         IF key = "outputs" THEN Outputs(r, LayerNames(prog), ChildFamilies(prog)) ELSE r[key]]

-----------------------------------------------------------------------------
(* Counting *)

CountAll(counter, seq) == FoldLeft(LAMBDA b, x : Counter!BagAdd(b, x), counter, seq)

\* zip(*outputs)[0]
Labels(pairs) == [i \in DOMAIN pairs |-> pairs[i][1]]

Counted(t, r) == [t EXCEPT !.frames = @ + 1, !.dets = @ + Len(r.detections)]

\* read_plates counts the texts, those that are empty too.
ReadPlatesMain(t, r) ==
  LET texts == r.outputs["read"]
  IN  [t EXCEPT !.frames = @ + 1, !.dets = @ + Len(texts), !.counts = CountAll(@, texts)]

ClassifyDetectionsMain(t, r) ==
  LET pairs == r.outputs["classify"]
  IN  [t EXCEPT !.frames = @ + 1, !.dets = @ + Len(pairs), !.counts = CountAll(@, Labels(pairs))]

ReadAndClassifyMain(t, r) ==
  LET texts == r.outputs["read"]
      pairs == r.outputs["classify"]
      Text(i)  == IF i <= Len(texts) THEN texts[i] ELSE ""
      Label(i) == IF i <= Len(pairs) THEN pairs[i][1] ELSE -1
  IN  [Counted(t, r) EXCEPT
         !.reads = @ + Cardinality({i \in DOMAIN r.detections : Text(i) # ""}),
         !.counts = CountAll(@, [i \in DOMAIN r.detections |-> Label(i)])]

DetectRtdetrMain(t, r) ==
  [Counted(t, r) EXCEPT !.counts = CountAll(@, [i \in DOMAIN r.detections |-> r.detections[i].cls])]

-----------------------------------------------------------------------------
(* route_and_reid *)

\* Cosine of at least MATCH_THRESHOLD = 0.85.
Dot(a, b) == FoldFunctionOnSet(+, 0, [i \in DOMAIN a |-> a[i] * b[i]], DOMAIN a)

Similar(a, b) ==
  /\ Dot(a, b) > 0
  /\ 10000 * Dot(a, b) * Dot(a, b) >= 7225 * Dot(a, a) * Dot(b, b)

\* deque(maxlen=GALLERY_PER_STREAM): the oldest vector leaves.
Newest(gallery) == IF Len(gallery) > GALLERY_PER_STREAM THEN Tail(gallery) ELSE gallery

\* One detection: a person's vector is compared with what the other cameras remember.
RouteOne(t, r, i) ==
  LET vecs  == r.outputs["person"]
      pairs == r.outputs["vehicle"]
      vec   == IF i <= Len(vecs) THEN vecs[i] ELSE <<>>
      alike == {s \in (DOMAIN t.gallery) \ {r.stream_id} :
                  \E k \in DOMAIN t.gallery[s] : Similar(t.gallery[s][k], vec)}
      person == IF vec = <<>> THEN t
                ELSE [t EXCEPT !.persons = @ + 1, !.matches = @ + Cardinality(alike),
                               !.gallery[r.stream_id] = Newest(Append(@, vec))]
  IN  IF i <= Len(pairs) /\ pairs[i][2] # 0
      THEN [person EXCEPT !.counts = Counter!BagAdd(@, pairs[i][1])] ELSE person

RouteAndReidMain(t, r) ==
  FoldLeft(LAMBDA acc, i : RouteOne(acc, r, i), [t EXCEPT !.frames = @ + 1],
           [i \in DOMAIN r.detections |-> i])

-----------------------------------------------------------------------------
(* zone_filter *)

FRAME_W == 1280
FRAME_H == 720
SPLIT_X == 557

\* In quarter pixels, as the centre of a box is.
Corner(x, y) == <<4 * x, 4 * y>>

left  == <<Corner(0, 0), Corner(SPLIT_X, 0), Corner(SPLIT_X, FRAME_H), Corner(0, FRAME_H)>>
right == <<Corner(SPLIT_X, 0), Corner(FRAME_W, 0), Corner(FRAME_W, FRAME_H),
           Corner(SPLIT_X, FRAME_H)>>

make_zones == [left |-> [polygon |-> left, count |-> 0, occupied |-> FALSE],
               right |-> [polygon |-> right, count |-> 0, occupied |-> FALSE]]

PrevVertex(polygon, i) == IF i = 1 THEN Len(polygon) ELSE i - 1

\* x < x_cross, without the division by yj - yi.
LeftOfEdge(x, y, p, q) ==
  LET dx == (x - p[1]) * (q[2] - p[2])
      dy == (y - p[2]) * (q[1] - p[1])
  IN  IF q[2] > p[2] THEN dx < dy ELSE dx > dy

point_in_polygon(x, y, polygon) ==
  Cardinality({i \in DOMAIN polygon :
    LET p == polygon[i]
        q == polygon[PrevVertex(polygon, i)]
    IN  (p[2] > y) # (q[2] > y) /\ LeftOfEdge(x, y, p, q)}) % 2 = 1

ZoneUpdate(zone, dets) ==
  LET kept == {i \in DOMAIN dets :
                 point_in_polygon(2 * dets[i].x + dets[i].w, 2 * dets[i].y + dets[i].h,
                                  zone.polygon)}
  IN  [zone EXCEPT !.count = @ + Cardinality(kept), !.occupied = kept # {}]

ZoneFilterMain(t, r) ==
  [t EXCEPT !.frames = @ + 1,
            !.zones[r.stream_id] = [z \in DOMAIN @ |-> ZoneUpdate(@[z], r.outputs["detect"])]]

-----------------------------------------------------------------------------
(* fleet_demo's Tracker *)

VEHICLES == {2, 3, 5, 7}
MAX_AGE == 1500

NewTracker == [tracks |-> <<>>, next_id |-> 1]

Covers(a, b) ==
  LET w == Smaller(a.x + a.w, b.x + b.w) - Larger(a.x, b.x)
      h == Smaller(a.y + a.h, b.y + b.h) - Larger(a.y, b.y)
  IN  IF w <= 0 \/ h <= 0 THEN 0 ELSE w * h

Union(a, b) == a.w * a.h + b.w * b.h - Covers(a, b)

\* _iou(a, b) >= IOU_THRESH = 0.3
Alike(a, b) == 10 * Covers(a, b) >= 3 * Union(a, b)

\* The tracks that may take a detection: pairs, numbered as in the two lists.
Candidates(tracks, boxes) ==
  {c \in (DOMAIN tracks) \X (DOMAIN boxes) : Alike(tracks[c[1]].box, boxes[c[2]])}

Listed(tracks, boxes, c, d) ==                                   \* mutant
  c[1] < d[1] \/ (c[1] = d[1] /\ c[2] < d[2])

\* cands.sort(reverse=True) on the overlap, stable: equal ones stay as they were listed.
Closer(tracks, boxes, c, d) ==
  LET more == Covers(tracks[c[1]].box, boxes[c[2]]) * Union(tracks[d[1]].box, boxes[d[2]])
      less == Covers(tracks[d[1]].box, boxes[d[2]]) * Union(tracks[c[1]].box, boxes[c[2]])
  IN  more > less \/ (more = less /\ (c[1] < d[1] \/ (c[1] = d[1] /\ c[2] < d[2])))

Claims(tracks, boxes) ==
  FoldLeft(LAMBDA claims, c :
             IF \E e \in claims : e[1] = c[1] \/ e[2] = c[2] THEN claims ELSE claims \cup {c},
           {}, SetToSortSeq(Candidates(tracks, boxes),
                            LAMBDA c, d : Closer(tracks, boxes, c, d)))

\* out[d] is the track detection d was given to.
TrackerUpdate(tracker, boxes, pts) ==
  LET claims == Claims(tracker.tracks, boxes)
      fresh == SelectSeq([d \in DOMAIN boxes |-> d], LAMBDA d : \A c \in claims : c[2] # d)
      Hit(t, d) == [t EXCEPT !.box = boxes[d], !.pts = pts, !.hits = @ + 1]
      held == [i \in DOMAIN tracker.tracks |->
                 IF \E c \in claims : c[1] = i
                 THEN Hit(tracker.tracks[i], (CHOOSE c \in claims : c[1] = i)[2])
                 ELSE tracker.tracks[i]]
      Open(k) == [id |-> tracker.next_id + k - 1, box |-> boxes[fresh[k]], pts |-> pts, hits |-> 1]
      tracks == held \o [k \in DOMAIN fresh |-> Open(k)]
      IndexOfDet(d) == IF \E c \in claims : c[2] = d
                       THEN (CHOOSE c \in claims : c[2] = d)[1]
                       ELSE Len(held) + (CHOOSE k \in DOMAIN fresh : fresh[k] = d)
  IN  [tracker |-> [tracks  |-> SelectSeq(tracks, LAMBDA t : pts - t.pts <= MAX_AGE),
                    next_id |-> tracker.next_id + Len(fresh)],
       out |-> [d \in DOMAIN boxes |-> tracks[IndexOfDet(d)]]]

BoxOf(d) == Rect(d.x, d.y, d.w, d.h)

VehicleBoxes(dets) ==
  LET vehicles == SelectSeq(dets, LAMBDA d : d.cls \in VEHICLES)
  IN  [i \in DOMAIN vehicles |-> BoxOf(vehicles[i])]

\* consume(): one Tracker for each camera.
FleetConsume(t, r) ==
  LET update == TrackerUpdate(t.tracker[r.stream_id], VehicleBoxes(r.detections), r.pts)
  IN  [t EXCEPT !.frames = @ + 1, !.tracker[r.stream_id] = update.tracker]

-----------------------------------------------------------------------------
(* The gates: `viol` counts what they print as a violation *)

ClampedMinSide(d, sw, sh) ==
  LET rx == Larger(0, Smaller(Rounded(d.x), sw - 1))
      ry == Larger(0, Smaller(Rounded(d.y), sh - 1))
  IN  Smaller(Larger(1, Smaller(Rounded(d.w), sw - rx)), Larger(1, Smaller(Rounded(d.h), sh - ry)))

SelectGateRun(mode, t, r) ==
  LET vecs  == r.outputs["embed"]
      pairs == r.outputs["cls"]
      EmbFull(i) == i <= Len(vecs) /\ vecs[i] # <<>>
      ClsFull(i) == i <= Len(pairs) /\ pairs[i][2] # 0
      Wanted(d) ==
        CASE mode = "routed" -> <<d.cls \in Person,
                                  d.cls \in Indoor /\ ClampedMinSide(d, r.w, r.h) >= MinSize>>
          [] mode = "shared" -> <<d.cls \in Person, d.cls \in Person>>
          [] OTHER           -> <<TRUE, TRUE>>
      wrong == {i \in DOMAIN r.detections :
                  <<EmbFull(i), ClsFull(i)>> # Wanted(r.detections[i])}
  IN  [Counted(t, r) EXCEPT !.viol = @ + Cardinality(wrong)]

EmbeddingGateRun(t, r) ==
  LET vecs  == r.outputs["embed"]
      pairs == r.outputs["cls"]
      PyLabel(v) == CHOOSE i \in DOMAIN v :
                      \A j \in (DOMAIN v) \ {i} : v[i] > v[j] \/ (v[i] = v[j] /\ -i > -j)
      wrong == {i \in DOMAIN vecs :
                  \/ Len(vecs[i]) # VectorLen
                  \/ PyLabel(vecs[i]) - 1 # pairs[i][1]
                  \/ vecs[i][PyLabel(vecs[i])] # pairs[i][2]}
  IN  IF Len(vecs) # Len(pairs) \/ Len(vecs) # Len(r.detections)
      THEN [t EXCEPT !.frames = @ + 1, !.viol = @ + 1]
      ELSE [Counted(t, r) EXCEPT !.viol = @ + Cardinality(wrong)]

\* G1, I1c, I2 and J: outputs as long as the detections, the flat fields the same.
AlignedRun(t, r) ==
  LET Output(name) == IF name \in DOMAIN r.outputs THEN <<r.outputs[name]>> ELSE <<>>
      texts == Output("read")
      pairs == Output("classify")
      Long(outputs) == \A i \in DOMAIN outputs : Len(outputs[i]) = Len(r.detections)
      wrong == \/ ~Long(texts) \/ ~Long(pairs)
               \/ texts # <<>> /\ r.texts # texts[1]
               \/ pairs # <<>> /\ r.labels # Labels(pairs[1])
  IN  [Counted(t, r) EXCEPT !.viol = @ + (IF wrong THEN 1 ELSE 0),
         !.counts = CountAll(@, FlattenSeq([i \in DOMAIN pairs |-> Labels(pairs[i])])),
         !.reads = @ + (IF texts = <<>> THEN 0
                        ELSE Cardinality({i \in DOMAIN texts[1] : texts[1][i] # ""}))]

TreeNames == {"read", "classify1", "classify2", "classify3"}

TreesRun(t, r) ==
  [Counted(t, r) EXCEPT !.viol = @ + Cardinality(TreeNames \ DOMAIN r.outputs)]

-----------------------------------------------------------------------------
EmptyTally(streams) ==
  [frames |-> 0, dets |-> 0, counts |-> EmptyBag, reads |-> 0, persons |-> 0, matches |-> 0,
   gallery |-> [s \in streams |-> <<>>], zones |-> [s \in streams |-> make_zones],
   tracker |-> [s \in streams |-> NewTracker], viol |-> 0]

SelectModes == {"routed", "shared", "passall", "plain"}

\* The body of the script's `for r in pipe`; the rest only count frames and detections.
Consume(script, t, r) ==
  CASE script = "read_plates"         -> ReadPlatesMain(t, r)
    [] script = "classify_detections" -> ClassifyDetectionsMain(t, r)
    [] script = "read_and_classify"   -> ReadAndClassifyMain(t, r)
    [] script = "detect_rtdetr"       -> DetectRtdetrMain(t, r)
    [] script = "route_and_reid"      -> RouteAndReidMain(t, r)
    [] script = "zone_filter"         -> ZoneFilterMain(t, r)
    [] script = "fleet"               -> FleetConsume(t, r)
    [] script \in SelectModes         -> SelectGateRun(script, t, r)
    [] script = "embedding_gate"      -> EmbeddingGateRun(t, r)
    [] script = "aligned"             -> AlignedRun(t, r)
    [] script = "trees"               -> TreesRun(t, r)
    [] OTHER                          -> Counted(t, r)
=============================================================================
