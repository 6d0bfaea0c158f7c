------------------------------- MODULE Cascade -------------------------------
(***************************************************************************)
(* GpuLoop between Take and the results: whole-frame detection, SAHI       *)
(* tiles, crops of the detections, and the child engines reading them.     *)
(* With cascade_serial = FALSE every child has a CUDA stream of its own:   *)
(* its uploads, kernels and downloads are queued without waiting and run   *)
(* while the host goes on; the host meets each stream in a join.           *)
(*                                                                         *)
(* The pixels under a ring slot are named by the slot and the batch that   *)
(* filled it; what an engine says of a crop is the engine, those pixels    *)
(* and the rectangle.                                                      *)
(***************************************************************************)
EXTENDS StageGraph, Detections

CONSTANTS
  Configs,      \* configurations handed to Pipeline
  Scenes,       \* what frames show
  MaxSlots,     \* MaxBatch() of the detector's engine
  ReadBatch,    \* MaxBatch() of the children's engines
  MaxTakes,     \* bound on the batches of a run
  TileSide, TileOverlap,        \* sahi_tile, sahi_overlap in percent
  IouThresh, MergeIou,          \* percent
  None

ASSUME CascadeAssumption ==
  /\ MaxSlots \in Nat \ {0} /\ ReadBatch \in Nat \ {0} /\ MaxTakes \in Nat
  /\ TileSide \in Nat \ {0} /\ TileOverlap \in Int

\* graph.h: what the fields of a configuration hold, whether or not they make sense.
StepDescs ==
  [kind : {"Process", "Select", "Engine", "Postprocess"}, input : Int,
   family : DetectFamilies \cup ReadFamilies \cup {"none"},
   classes : SUBSET Int, min_score : Int, min_size : Int]

LayerDescs == [steps : Seq(Int), sahi : BOOLEAN, full_frame : BOOLEAN, serial : BOOLEAN]

SinkDescs ==
  [kind : {"Events", "StreamRelay"}, input : Int, stream_id : Int, scheme : STRING]

PipelineConfigs ==
  [streams : Seq([skip : Int, decode : Int]), steps : Seq(StepDescs),
   layers : Seq(LayerDescs), sinks : Seq(SinkDescs), ring_depth : Int,
   cascade_serial : BOOLEAN]

ASSUME ConfigsAssumption == Configs \subseteq PipelineConfigs

\* A frame has a size and shows finitely many objects.
ASSUME ScenesAssumption ==
  \A scene \in Scenes : scene.w \in Nat /\ scene.h \in Nat /\ IsFiniteSet(scene.objects)

VARIABLES
  cfg, verdict,
  pc,           \* where the GPU thread stands
  takes,        \* batch_seq
  batch,        \* slots of the batch in hand: [scene, live]; not live: abandoned
  ring,         \* the batch whose frame each slot's ring copy holds
  kept,         \* h_kept, the detections of each slot
  todo,         \* slots still to be sliced, in groups whose tiles are pooled
  off,          \* tiles, or crops, of the group or child in hand already done
  merge,        \* merge_in of each slot
  ci,           \* the child in hand
  stream,       \* per child: operations queued on its CUDA stream
  d_crops, output, host,        \* per child: device buffers and the host's copy
  out           \* child_texts, child_labels, ...: per child, slot, detection

sahiVars == <<todo, merge>>
childVars == <<stream, d_crops, output, host>>
vars == <<cfg, verdict, pc, takes, batch, ring, kept, todo, off, merge, ci,
          childVars, out>>

Children == DOMAIN Plan(cfg).children
Child(c) == Plan(cfg).children[c]
ReadSlots == 1..ReadBatch

\* A config with more child layers than any buffer needs; unused ones stay empty.
ChildIds == 1..(Larger(1, Len(cfg.layers) - 1))

Slots == DOMAIN batch

Init ==
  /\ cfg \in Configs
  /\ verdict = Verdict(cfg)
  /\ pc = IF verdict = "ok" THEN "take" ELSE "rejected"
  /\ takes = 0 /\ batch = <<>> /\ kept = <<>> /\ out = <<>>
  /\ ring = [s \in 1..MaxSlots |-> 0]
  /\ todo = <<>> /\ off = 0 /\ merge = <<>> /\ ci = 1
  /\ stream = [c \in ChildIds |-> <<>>]
  /\ d_crops = [c \in ChildIds |-> [i \in ReadSlots |-> None]]
  /\ output = [c \in ChildIds |-> [i \in ReadSlots |-> None]]
  /\ host = [c \in ChildIds |-> [i \in ReadSlots |-> None]]

-----------------------------------------------------------------------------
(* The detector *)

\* The end-to-end families come without NMS.
WholeFrame(scene) ==
  IF Plan(cfg).family = "YoloDetect"
  THEN Nms(SetToSeq(FramePass(scene)), IouThresh)
  ELSE SetToSeq(FramePass(scene))

LiveSlots(b) == FlattenSeq([s \in DOMAIN b |-> IF b[s].live THEN <<s>> ELSE <<>>])

\* sahi_serial slices slot by slot; otherwise the tiles of all slots are pooled.
Groups(b) ==
  LET live == LiveSlots(b)
  IN  IF ~Plan(cfg).sahi THEN <<>>
      ELSE IF Plan(cfg).serial THEN [i \in DOMAIN live |-> <<live[i]>>]
      ELSE <<live>>

\* Take returned a batch: infer it whole.  An abandoned slot has no frame copy, but the
\* engine runs over whatever its tensor still shows.
TakeBatch ==
  /\ pc = "take"
  /\ takes < MaxTakes
  /\ takes' = takes + 1
  /\ \E n \in 1..MaxSlots :
       \E b \in [1..n -> [scene : Scenes, live : BOOLEAN]] :
         /\ batch' = b
         /\ ring' = [s \in DOMAIN ring |->
                       IF s \in 1..n /\ b[s].live THEN takes + 1 ELSE ring[s]]
         /\ kept' = [s \in 1..n |-> WholeFrame(b[s].scene)]
         /\ todo' = Groups(b)
         /\ merge' = [s \in 1..n |->
                        IF b[s].live /\ Plan(cfg).full THEN WholeFrame(b[s].scene) ELSE <<>>]
         /\ pc' = IF Groups(b) = <<>> THEN "crops" ELSE "tiles"
  /\ off' = 0
  /\ UNCHANGED <<cfg, verdict, ci, childVars, out>>

-----------------------------------------------------------------------------
(* SAHI *)

RowMajor(a, b) == a.y < b.y \/ (a.y = b.y /\ a.x < b.x)

Grid(scene) ==
  Ranked(SetToSeq(MakeTileGrid(scene.w, scene.h, TileSide, TileOverlap)), RowMajor)

JobsOf(s) ==
  LET grid == Grid(batch[s].scene)
  IN  [t \in DOMAIN grid |-> [slot |-> s, tile |-> grid[t]]]

Jobs(group) == FlattenSeq([i \in DOMAIN group |-> JobsOf(group[i])])

Chunk(total, size) == Smaller(total - off, size)

SlotOfFirstRows(jobs, t) == jobs[t].slot                         \* mutant

\* The slot the t-th row of a chunk of tiles belongs to.
SlotOfRow(jobs, t) == jobs[off + t].slot

\* One chunk of tiles through the detector, one wait; every row goes to its slot.
InferTiles ==
  /\ pc = "tiles"
  /\ LET jobs == Jobs(Head(todo))
         n    == Chunk(Len(jobs), MaxSlots)
         Row(t) == Nms(SetToSeq(TilePass(batch[jobs[off + t].slot].scene, jobs[off + t].tile)),
                       IouThresh)
         RowsOf(s) ==
           FlattenSeq([t \in 1..n |-> IF SlotOfRow(jobs, t) = s THEN Row(t) ELSE <<>>])
     IN  /\ off < Len(jobs)
         /\ merge' = [s \in Slots |-> merge[s] \o RowsOf(s)]
         /\ off' = off + n
  /\ UNCHANGED <<cfg, verdict, pc, takes, batch, ring, kept, todo, ci, childVars, out>>

\* Cross-tile merge of the group's slots.
MergeTiles ==
  /\ pc = "tiles"
  /\ off >= Len(Jobs(Head(todo)))
  /\ kept' = [s \in Slots |->
                IF \E i \in DOMAIN Head(todo) : Head(todo)[i] = s
                THEN Nms(merge[s], MergeIou) ELSE kept[s]]
  /\ todo' = Tail(todo)
  /\ off' = 0
  /\ pc' = IF Tail(todo) = <<>> THEN "crops" ELSE "tiles"
  /\ UNCHANGED <<cfg, verdict, takes, batch, ring, merge, ci, childVars, out>>

-----------------------------------------------------------------------------
(* Crops and routing *)

\* A detection's rectangle, clamped to the frame, at least one pixel large.
CropRect(d, scene) ==
  LET x == Larger(0, Smaller(d.x, scene.w - 1))
      y == Larger(0, Smaller(d.y, scene.h - 1))
  IN  Rect(x, y, Larger(1, Smaller(d.w, scene.w - x)), Larger(1, Smaller(d.h, scene.h - y)))

\* h_crops with crop_owner: the detections of the live slots, one after another.
SlotCrops(s) ==
  IF ~batch[s].live THEN <<>>
  ELSE [k \in DOMAIN kept[s] |->
          [slot |-> s, det |-> k, rect |-> CropRect(kept[s][k], batch[s].scene)]]

HCrops == FlattenSeq([s \in Slots |-> SlotCrops(s)])

PassAll(c) == [i \in DOMAIN HCrops |-> i]

\* child_pass: the crops routed to child c, as positions in HCrops.
Pass(c) ==
  IF Child(c).select = NoStep THEN PassAll(c)
  ELSE LET sel == StepAt(cfg, Child(c).select)
           Through(i) == Passes(sel, kept[HCrops[i].slot][HCrops[i].det], HCrops[i].rect)
       IN  FlattenSeq([i \in DOMAIN HCrops |-> IF Through(i) THEN <<i>> ELSE <<>>])

\* The crop the i-th row of child c's results belongs to.
Owner(c, i) == HCrops[Pass(c)[i]]

CropsOf(c) == [i \in DOMAIN Pass(c) |-> HCrops[Pass(c)[i]]]

\* The children's host buffers are grown to hold the whole batch, never shrunk.
Grown(c) ==
  host[c] \o [i \in 1..Larger(0, Len(Pass(c)) - Len(host[c])) |-> None]

NextStage(children) ==
  IF children = {} THEN "results"
  ELSE IF cfg.cascade_serial THEN "serial" ELSE "enqueue"

MakeCrops ==
  /\ pc = "crops"
  /\ out' = [c \in Children |-> [s \in Slots |-> [k \in DOMAIN kept[s] |-> None]]]
  /\ pc' = NextStage(Children)
  /\ ci' = 1 /\ off' = 0
  /\ UNCHANGED <<cfg, verdict, takes, batch, ring, kept, sahiVars, childVars>>

-----------------------------------------------------------------------------
(* A child's CUDA stream *)

Op(name, from, n, at) == [op |-> name, from |-> from, n |-> n, at |-> at]

\* One chunk of crops: upload, crop and infer, fetch the rows to `at` on the host.
ChunkOps(from, n, at) ==
  <<Op("upload", from, n, at), Op("infer", from, n, at), Op("fetch", from, n, at)>>

\* The operation at the head of child c's stream is done, at a moment of the device's own.
RunOp(c) ==
  /\ stream[c] # <<>>
  /\ LET o == Head(stream[c])
         Read(crop) == [engine |-> Child(c).engine, slot |-> crop.slot,
                        take |-> ring[crop.slot], rect |-> crop.rect]
     IN  \/ /\ o.op = "upload"
            /\ d_crops' = [d_crops EXCEPT ![c] =
                 [i \in ReadSlots |-> IF i <= o.n THEN CropsOf(c)[o.from + i] ELSE @[i]]]
            /\ UNCHANGED <<output, host>>
         \/ /\ o.op = "infer"
            /\ output' = [output EXCEPT ![c] =
                 [i \in ReadSlots |-> IF i <= o.n THEN Read(d_crops[c][i]) ELSE @[i]]]
            /\ UNCHANGED <<d_crops, host>>
         \/ /\ o.op = "fetch"
            /\ host' = [host EXCEPT ![c] =
                 [i \in DOMAIN @ |-> IF i \in (o.at + 1)..(o.at + o.n)
                                     THEN output[c][i - o.at] ELSE @[i]]]
            /\ UNCHANGED <<d_crops, output>>
  /\ stream' = [stream EXCEPT ![c] = Tail(@)]
  /\ UNCHANGED <<cfg, verdict, pc, takes, batch, ring, kept, sahiVars, off, ci, out>>

-----------------------------------------------------------------------------
(* The default: all children at once *)

\* The j-th chunk, its rows fetched to where its crops stand in the child's list.
ChunkAt(c, j) ==
  LET from == (j - 1) * ReadBatch
  IN  ChunkOps(from, Smaller(Len(Pass(c)) - from, ReadBatch), from)

EnqueueChild ==
  /\ pc = "enqueue"
  /\ host' = [host EXCEPT ![ci] = Grown(ci)]
  /\ LET chunks == (Len(Pass(ci)) + ReadBatch - 1) \div ReadBatch
     IN  stream' = [stream EXCEPT ![ci] = @ \o FlattenSeq([j \in 1..chunks |-> ChunkAt(ci, j)])]
  /\ IF ci + 1 \in Children
     THEN ci' = ci + 1 /\ UNCHANGED pc
     ELSE ci' = 1 /\ pc' = "join"
  /\ UNCHANGED <<cfg, verdict, takes, batch, ring, kept, sahiVars, off, d_crops,
                 output, out>>

\* Rows 1..n of child ci's host buffer, for the crops after `from`.
Decode(from, n) ==
  out' = [out EXCEPT ![ci] =
    [s \in DOMAIN @ |-> [k \in DOMAIN @[s] |->
       LET rows == {i \in 1..n : Owner(ci, from + i).slot = s /\ Owner(ci, from + i).det = k}
       IN  IF rows = {} THEN @[s][k] ELSE host[ci][CHOOSE i \in rows : TRUE]]]]

SynchronizeFirst(c) == stream[1] = <<>>                          \* mutant

Synchronize(c) == stream[c] = <<>>

JoinChild ==
  /\ pc = "join"
  /\ Synchronize(ci)
  /\ Decode(0, Len(Pass(ci)))
  /\ IF ci + 1 \in Children
     THEN ci' = ci + 1 /\ UNCHANGED pc
     ELSE ci' = 1 /\ pc' = "results"
  /\ UNCHANGED <<cfg, verdict, takes, batch, ring, kept, sahiVars, off, childVars>>

-----------------------------------------------------------------------------
(* cascade_serial: one chunk after the other, each waited for *)

SerialChunk ==
  /\ pc = "serial"
  /\ off < Len(Pass(ci))
  /\ stream' = [stream EXCEPT ![ci] = ChunkOps(off, Chunk(Len(Pass(ci)), ReadBatch), 0)]
  /\ pc' = "serialWait"
  /\ UNCHANGED <<cfg, verdict, takes, batch, ring, kept, sahiVars, off, ci, d_crops,
                 output, host, out>>

SerialDecode ==
  /\ pc = "serialWait"
  /\ Synchronize(ci)
  /\ Decode(off, Chunk(Len(Pass(ci)), ReadBatch))
  /\ off' = off + Chunk(Len(Pass(ci)), ReadBatch)
  /\ pc' = "serial"
  /\ UNCHANGED <<cfg, verdict, takes, batch, ring, kept, sahiVars, ci, childVars>>

SerialNext ==
  /\ pc = "serial"
  /\ off >= Len(Pass(ci))
  /\ IF ci + 1 \in Children
     THEN ci' = ci + 1 /\ UNCHANGED pc
     ELSE ci' = 1 /\ pc' = "results"
  /\ off' = 0
  /\ UNCHANGED <<cfg, verdict, takes, batch, ring, kept, sahiVars, childVars, out>>

-----------------------------------------------------------------------------
\* The results are built and pushed, ring slots released, the buffer recycled; from
\* here on producers overwrite the frame copies.
PublishResults ==
  /\ pc = "results"
  /\ pc' = "take"
  /\ batch' = <<>> /\ kept' = <<>> /\ out' = <<>>
  /\ todo' = <<>> /\ merge' = <<>>
  /\ UNCHANGED <<cfg, verdict, takes, ring, off, ci, childVars>>

HostStep ==
  \/ TakeBatch \/ InferTiles \/ MergeTiles \/ MakeCrops
  \/ EnqueueChild \/ JoinChild
  \/ SerialChunk \/ SerialDecode \/ SerialNext
  \/ PublishResults

Next == HostStep \/ \E c \in DOMAIN stream : RunOp(c)

Spec == Init /\ [][Next]_vars

-----------------------------------------------------------------------------
(* Properties *)

\* Validate accepts exactly the trees of depth two that the executor runs: afterwards
\* only the plan is looked at, so a graph accepted with other wires would silently be
\* run as if it were one.
AcceptedIffTree ==
  verdict \in {"ok", "graph", "chained"} /\ WiresExist(cfg) =>
    (verdict = "ok" <=> IsTree(cfg))

\* The objects that must be found: large enough for the whole-frame pass, or small
\* enough that some tile shows them entirely (TilesCoverObjects).
MustFind(scene) ==
  LET shared == TileSide - Stride(TileSide, TileOverlap) + 1
  IN  {o \in scene.objects :
         \/ /\ Plan(cfg).full \/ ~Plan(cfg).sahi
            /\ Legible(Letterboxed(o, FrameView(scene), Net))
         \/ /\ Plan(cfg).sahi
            /\ o.w <= shared /\ o.h <= shared
            /\ Legible(Letterboxed(o, Rect(0, 0, TileSide, TileSide), Net))}

SameBox(a, b) == a.x = b.x /\ a.y = b.y /\ a.w = b.w /\ a.h = b.h

\* However its frame was sliced and its tiles were pooled with those of other frames, a
\* slot ends up with each object of its own frame once: found by several overlapping
\* tiles, whole or truncated, it is one detection, at its place in the frame.
ObjectsFoundOnce ==
  pc = "crops" =>
    \A s \in Slots : batch[s].live =>
      LET scene == batch[s].scene
          found == MustFind(scene)
      IN  /\ \A o \in found :
               Cardinality({k \in DOMAIN kept[s] : SameBox(kept[s][k], o) /\ kept[s][k].cls = o.cls}) = 1
          /\ \A k \in DOMAIN kept[s] : \E o \in scene.objects :
               /\ kept[s][k].cls = o.cls
               /\ Within(kept[s][k], o)
               /\ o \in found => SameBox(kept[s][k], o)

\* The steps a child layer reads its crops through, by the wires of the graph.
Wired(c, kind) ==
  LET l == ChildLayers(cfg)[c]
      line == Line(cfg, PostOf(l))
  IN  {i \in Range(SubSeq(line, Len(Line(cfg, DetectorPost(cfg))) + 1, Len(line))) :
         StepAt(cfg, i).kind = kind}

\* Every detection carries, for every child layer, what that layer's engine says of that
\* detection's pixels in that very frame - or nothing, if a Select on the way does not let
\* it pass: no row is swapped between detections, frames, batches or children, in chunks,
\* on parallel streams or one after another.
OutputsFollowWires ==
  pc = "results" =>
    \A c \in DOMAIN ChildLayers(cfg) : \A s \in Slots : batch[s].live =>
      \A k \in DOMAIN kept[s] :
        LET rect == CropRect(kept[s][k], batch[s].scene)
            routed == \A i \in Wired(c, "Select") : Passes(StepAt(cfg, i), kept[s][k], rect)
        IN  IF routed
            THEN \E e \in Wired(c, "Engine") :
                   out[c][s][k] = [engine |-> e, slot |-> s, take |-> takes, rect |-> rect]
            ELSE out[c][s][k] = None
=============================================================================
