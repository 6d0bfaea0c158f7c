------------------------------ MODULE Application ------------------------------
(***************************************************************************)
(* A Python program from end to end: the deployment is sized, the stage    *)
(* graph is built from objects, compiled, judged by Validate and Setup,    *)
(* and every Result of the running pipeline goes through the program's     *)
(* loop.                                                                   *)
(***************************************************************************)
EXTENDS Sizing, Consumers

CONSTANTS
  ProgramsToRun,   \* what may be built
  EngineFiles,     \* the engine files that exist
  Frames,          \* what a camera may deliver next
  MaxResults       \* bound on the results a program consumes

ASSUME ApplicationAssumption == MaxResults \in Nat

\* What Python hands to the constructors: an argument or None, steps that exist.
IsOption(option, Values) == option \subseteq Values /\ \A x, y \in option : x = y

Numbers == Int \cup {NotANumber}

Thresholds == Numbers \cup {NaN}

IsProgram(p) ==
  /\ p.objects \in Seq(Range(p.objects)) /\ p.layers \in Seq(Range(p.layers))
  /\ \A j \in DOMAIN p.layers : p.layers[j].steps \in Seq(DOMAIN p.objects)
  /\ \A o \in DOMAIN p.objects :
       /\ IsOption(p.objects[o].classes, SUBSET Numbers)
       /\ IsOption(p.objects[o].min_score, Thresholds)
       /\ IsOption(p.objects[o].min_size, Thresholds)

ASSUME ProgramsAssumption == \A p \in ProgramsToRun : IsProgram(p)

\* A detection has integer coordinates and a score; every engine answers it with a row.
IsDetection(d) ==
  /\ {d.x, d.y, d.w, d.h} \subseteq Int /\ d.score \in Nat
  /\ \A path \in EngineFiles : Logits[path][d.who] # <<>> /\ Logits[path][d.who] \in Seq(Int)

IsFrame(f) ==
  /\ f.w \in Int /\ f.h \in Int /\ f.dets \in Seq(Range(f.dets))
  /\ \A i \in DOMAIN f.dets : IsDetection(f.dets[i])

ASSUME FramesAssumption == \A f \in Frames : IsFrame(f)

VARIABLES
  phase,     \* "sizing", "built", "compiled", "running", or the exception raised
  prog,      \* the program
  config,    \* what it compiled to
  seen,      \* the frames delivered so far
  clock,     \* per stream: pts of the last one
  tally      \* what the program has counted

appVars == <<request, phase, prog, config, seen, clock, tally>>

Streams == {f.stream : f \in Frames}

AppInit ==
  /\ SizingInit
  /\ phase = "sizing"
  /\ prog = FleetPipeline /\ config = {}
  /\ seen = <<>> /\ clock = [s \in Streams |-> 0]
  /\ tally = EmptyTally(Streams)

Size ==
  /\ phase = "sizing"
  /\ SizingNext
  /\ UNCHANGED <<phase, prog, config, seen, clock, tally>>

\* The constructors and Pipeline.__init__ up to _c.Pipeline.
Build ==
  /\ phase = "sizing" /\ request = Settled
  /\ prog' \in ProgramsToRun
  /\ config' = Compile(prog')
  /\ phase' = IF config' = {} THEN "ValueError" ELSE "compiled"
  /\ UNCHANGED <<request, seen, clock, tally>>

Cfg == CHOOSE c \in config : TRUE

EnginesExist(c) ==
  \A i \in StepIds(c) : StepAt(c, i).kind = "Engine" => StepAt(c, i).path \in EngineFiles

\* Pipeline's C++ constructor: Validate, then Setup, which loads the engines of the plan.
Construct ==
  /\ phase = "compiled"
  /\ phase' = IF Verdict(Cfg) = "ok" /\ EnginesExist(Cfg) THEN "running" ELSE "RuntimeError"
  /\ UNCHANGED <<request, prog, config, seen, clock, tally>>

\* One turn of `for r in pipe`.
Poll ==
  /\ phase = "running" /\ Len(seen) < MaxResults
  /\ \E f \in Frames :
       LET pts == clock[f.stream] + f.gap
       IN  /\ seen' = Append(seen, f)
           /\ clock' = [clock EXCEPT ![f.stream] = pts]
           /\ tally' = Consume(prog.script, tally, Result(prog, Cfg, f, pts))
  /\ UNCHANGED <<request, phase, prog, config>>

AppNext == Size \/ Build \/ Construct \/ Poll

AppSpec == AppInit /\ [][AppNext]_appVars

-----------------------------------------------------------------------------
(* The graph *)

Known == Examples \cup Gates

\* Every script gets what it is written for: the examples and the gates' own graphs run,
\* the erroneous ones raise the exception the gate waits for.
OutcomesAsExpected ==
  prog \in Known /\ phase \in {"running", "ValueError", "RuntimeError"} =>
    prog.expect = (IF phase = "running" THEN "runs" ELSE phase)

\* The objects as the layers list them, one after another.
Listing == FlattenSeq([j \in DOMAIN prog.layers |-> prog.layers[j].steps])

\* The compiled graph is the program's objects: step k is the k-th object listed, and its
\* input is the last listing, before it, of the object that one was given - whatever the
\* layers' order, with objects shared between layers and objects listed twice.
GraphIsTheObjects ==
  \A c \in config :
    /\ Len(c.steps) = Len(Listing)
    /\ \A k \in DOMAIN Listing :
         LET o  == prog.objects[Listing[k]]
             in == c.steps[k].input + 1
         IN  /\ c.steps[k].kind = o.kind /\ c.steps[k].path = o.path
             /\ IF o.input = StreamsObject THEN in = 0
                ELSE /\ in \in 1..(k - 1) /\ Listing[in] = o.input
                     /\ \A m \in (in + 1)..(k - 1) : Listing[m] # o.input
    /\ FlattenSeq([j \in DOMAIN c.layers |-> c.layers[j].steps]) = [k \in DOMAIN Listing |-> k - 1]

DistinctNames == Cardinality(Range(LayerNames(prog))) = Len(prog.layers)

\* What the program should find for detection d of frame f under a layer's name, followed
\* from object to object: the engine before the layer's Postprocess, the Select before
\* that, if any.  A threshold of NaN is none.
Expected(layer, f, d) ==
  LET post   == prog.objects[layer.steps[Len(layer.steps)]]
      engine == prog.objects[post.input]
      row    == Logits[engine.path][d.who]
      source == prog.objects[engine.input]
      passes == \/ source.kind # "Select"
                \/ /\ \A cs \in source.classes : d.cls \in cs
                   /\ \A v \in source.min_score \ {NaN} : d.score >= v
                   /\ \A v \in source.min_size \ {NaN} : ClampedMinSide(d, f.w, f.h) >= v
      top == CHOOSE x \in Range(row) : \A y \in Range(row) : y <= x
  IN  CASE post.family = "ctc"       -> IF passes THEN Reading[d.who] ELSE ""
        [] post.family = "embedding" -> IF passes THEN row ELSE <<>>
        [] post.family = "argmax"    -> IF passes THEN <<Argmax(row), top>> ELSE <<0, 0>>

\* outputs[name][i] of a running program is what the engine of the layer of that name says
\* of detection i, or the empty value if the layer's Select keeps it away - through
\* compilation, Validate's plan, routing, the children's order and the names.
OutputsFollowNames ==
  phase = "running" /\ DistinctNames =>
    \A f \in Frames :
      LET outputs == Result(prog, Cfg, f, 0).outputs
      IN  \A j \in 2..Len(prog.layers) :
            outputs[prog.layers[j].name]
              = [i \in DOMAIN f.dets |-> Expected(prog.layers[j], f, f.dets[i])]

-----------------------------------------------------------------------------
(* What the scripts count *)

Pairs == {p \in (DOMAIN seen) \X (1..9) : p[2] \in DOMAIN seen[p[1]].dets}
DetOf(p) == seen[p[1]].dets[p[2]]
FrameOf(p) == seen[p[1]]

Number(Such(_)) == Cardinality({p \in Pairs : Such(p)})

CountedBy(Of(_), such) ==
  tally.counts = [x \in {Of(p) : p \in such} |-> Cardinality({p \in such : Of(p) = x})]

LabelOf(p) == Argmax(Logits["mobilenet"][DetOf(p).who])
TextOf(p) == Reading[DetOf(p).who]
ClassOf(p) == DetOf(p).cls

IsPerson(p) == DetOf(p).cls \in PersonClasses
IsVehicle(p) ==
  /\ DetOf(p).cls \in VehicleClasses
  /\ ClampedMinSide(DetOf(p), FrameOf(p).w, FrameOf(p).h) >= VehicleMinSize

PersonVector(p) == Logits["resnet"][DetOf(p).who]

\* q is one of the last GALLERY_PER_STREAM persons of its camera before result n.
Remembered(q, n) ==
  /\ IsPerson(q) /\ q[1] < n
  /\ Cardinality({p \in Pairs :
        /\ IsPerson(p) /\ FrameOf(p).stream = FrameOf(q).stream /\ p[1] < n
        /\ p[1] > q[1] \/ (p[1] = q[1] /\ p[2] > q[2])}) < GALLERY_PER_STREAM

\* A person and another camera that remembers someone like them from an earlier result.
Matches ==
  {m \in {p \in Pairs : IsPerson(p)} \X Streams :
     /\ m[2] # FrameOf(m[1]).stream
     /\ \E q \in Pairs : /\ FrameOf(q).stream = m[2] /\ Remembered(q, m[1][1])
                         /\ Similar(PersonVector(q), PersonVector(m[1]))}

CentreX(p) == 2 * DetOf(p).x + DetOf(p).w

ZonesExact ==
  \A s \in Streams :
    LET here == {p \in Pairs : FrameOf(p).stream = s}
        side == {p \in here : CentreX(p) < 4 * SPLIT_X}
        last == {p \in here : \A k \in DOMAIN seen : seen[k].stream = s => k <= p[1]}
        zones == tally.zones[s]
    IN  /\ zones.left.count = Cardinality(side)
        /\ zones.right.count = Cardinality(here \ side)
        /\ zones.left.occupied = (last \cap side # {})
        /\ zones.right.occupied = (last \ side # {})

\* The example programs count what was there to be counted: per text, label or class as
\* many as the engines say of the detections delivered; persons, vehicles and the persons
\* of route_and_reid whom another camera had among its last GALLERY_PER_STREAM ones; a detection in exactly one of zone_filter's halves, that on
\* its side of the split.
TalliesAreExact ==
  phase = "running" =>
    CASE prog = ReadPlates         -> CountedBy(TextOf, Pairs)
      [] prog = ClassifyDetections -> CountedBy(LabelOf, Pairs)
      [] prog = ReadAndClassify    -> /\ CountedBy(LabelOf, Pairs)
                                      /\ tally.reads = Number(LAMBDA p : TextOf(p) # "")
      [] prog = DetectRtdetr       -> CountedBy(ClassOf, Pairs)
      [] prog = RouteAndReid       -> /\ CountedBy(LabelOf, {p \in Pairs : IsVehicle(p)})
                                      /\ tally.persons = Number(IsPerson)
                                      /\ tally.matches = Cardinality(Matches)
      [] prog = ZoneFilter         -> ZonesExact
      [] OTHER                     -> TRUE

\* The gates' own checks find nothing: routing is exact for every detection, an embedding's
\* argmax is the classifier's answer, outputs are as long as the detections, the fields
\* from before there were several children say what the first child of the family says.
GatesStayGreen == tally.viol = 0

\* fleet_demo's promise of a stable assignment: whatever comes next, two vehicles never get
\* one track, a track that overlaps a vehicle enough loses it only to a track that overlaps
\* it as much, or to a vehicle it overlaps as much itself.
TracksAreStable ==
  prog = FleetPipeline =>
    \A f \in Frames :
      LET tracker == tally.tracker[f.stream]
          boxes == VehicleBoxes(f.dets)
          out   == TrackerUpdate(tracker, boxes, clock[f.stream] + f.gap).out
          AtLeast(a, b, c, d) == Covers(a, b) * Union(c, d) >= Covers(c, d) * Union(a, b)
      IN  /\ \A d, e \in DOMAIN boxes : d # e => out[d].id # out[e].id
          /\ \A i \in DOMAIN tracker.tracks : \A d \in DOMAIN boxes :
               LET t == tracker.tracks[i] IN
                 Alike(t.box, boxes[d]) =>
                   \/ out[d].id = t.id
                   \/ \E j \in DOMAIN tracker.tracks :
                        /\ out[d].id = tracker.tracks[j].id
                        /\ AtLeast(tracker.tracks[j].box, boxes[d], t.box, boxes[d])
                   \/ \E e \in DOMAIN boxes :
                        out[e].id = t.id /\ AtLeast(t.box, boxes[e], t.box, boxes[d])

\* Whatever is delivered, the loop of every program says what is so.
ProgramsCountRight == TalliesAreExact /\ GatesStayGreen /\ TracksAreStable
=============================================================================
