---------------------------- MODULE GraphCompiler ----------------------------
(***************************************************************************)
(* The Python package: a program builds Streams, steps, Layers and Sinks   *)
(* as objects that refer to one another; Pipeline() turns them into the    *)
(* index graph of StageGraph, hands it to the C++ side, and wraps every    *)
(* FrameResult so that its outputs are found under the layers' names.      *)
(*                                                                         *)
(* A program is a record                                                   *)
(*   objects  the steps, object o being objects[o]; object 0 is Streams    *)
(*   streams  [skip, decode]                                               *)
(*   layers   [name, steps, sahi], steps being objects                     *)
(*   sinks    [kind, input, stream, target]                                *)
(*   args     [decode, backpressure, sahi, ring_depth, cascade_serial]     *)
(* An argument that may be None is a set: {} for None, {x} for x.          *)
(***************************************************************************)
EXTENDS StageGraph

CONSTANTS
  NotANumber,    \* a value that is no int and no float: a string, a bool
  NaN            \* the float, of which every comparison is False

Given(option) == option # {}

ValueOr(option, default) == IF Given(option) THEN CHOOSE x \in option : TRUE ELSE default

StreamsObject == 0

-----------------------------------------------------------------------------
(* The constructors: what each refuses with a ValueError *)

DecodeModes == {"all", "key"}

Families == [yolo |-> "YoloDetect", ctc |-> "Ctc", argmax |-> "Argmax",
             e2e |-> "YoloE2E", embedding |-> "Embedding", rtdetr |-> "RtDetr"]

Backpressures == {"block", "drop_oldest"}

SinkKinds == [events |-> "Events", stream |-> "StreamRelay"]

IsNumber(v) == v # NotANumber

StreamOk(s) ==
  /\ \A k \in s.skip : k >= 1
  /\ s.decode \subseteq DecodeModes

\* Mutant: a truthiness test where None and an empty set differ.
SelectOkIfGiven(o) ==
  /\ \A cs \in o.classes : \A c \in cs : IsNumber(c)
  /\ \A v \in o.min_score \cup o.min_size : v = NaN \/ (IsNumber(v) /\ v >= 0)

\* NaN is a threshold like another: NaN < 0 is False.
SelectOk(o) ==
  /\ \A cs \in o.classes : cs # {} /\ \A c \in cs : IsNumber(c)
  /\ \A v \in o.min_score \cup o.min_size : v = NaN \/ (IsNumber(v) /\ v >= 0)

\* offset and scale each a number (a sequence of one) or three of them; not one of each.
ParseNorm(norm) ==
  LET sizes == {Len(norm[i]) : i \in DOMAIN norm}
      numbers == \A i \in DOMAIN norm : \A j \in DOMAIN norm[i] : IsNumber(norm[i][j])
  IN  IF Len(norm) # 2 \/ ~numbers THEN {}
      ELSE IF sizes = {1} THEN {[i \in 1..2 |-> [c \in 1..3 |-> norm[i][1]]]}
      ELSE IF sizes = {3} THEN {norm} ELSE {}

EngineArgsOk(o) ==
  /\ \A n \in o.norm : ParseNorm(n) # {}
  /\ o.color \subseteq {"rgb", "bgr"}
  /\ IsNumber(o.max_batch) /\ o.max_batch >= 1
  /\ \A s \in o.shape : Len(s) = 2 /\ \A i \in 1..2 : IsNumber(s[i]) /\ s[i] >= 32

PostprocessOk(o) == o.family \in DOMAIN Families

StepOk(o) ==
  CASE o.kind = "Process"     -> TRUE
    [] o.kind = "Select"      -> SelectOk(o)
    [] o.kind = "Engine"      -> EngineArgsOk(o)
    [] o.kind = "Postprocess" -> PostprocessOk(o)

\* A relay taps the Streams object itself, and one stream of it.
SinkArgsOk(s) ==
  /\ s.kind \in DOMAIN SinkKinds
  /\ s.kind = "stream" => s.input = StreamsObject /\ Given(s.stream)

ConstructorsAccept(prog) ==
  /\ \A i \in DOMAIN prog.streams : StreamOk(prog.streams[i])
  /\ \A o \in DOMAIN prog.objects : StepOk(prog.objects[o])
  /\ \A i \in DOMAIN prog.sinks : SinkArgsOk(prog.sinks[i])

-----------------------------------------------------------------------------
(* Pipeline.__init__ *)

ArgsOk(args) == args.decode \in DecodeModes /\ args.backpressure \in Backpressures

SahiKeys == {"tile", "overlap", "merge_iou", "full_frame", "serial"}

\* LayerDesc's own values, for the keys a sahi dict does not give.
NewLayerDesc ==
  [sahi |-> FALSE, tile |-> 640, overlap |-> 20, merge_iou |-> 50,
   full_frame |-> TRUE, serial |-> FALSE]

ApplySahi(desc, sahi) ==
  [key \in DOMAIN desc |-> IF key = "sahi" THEN TRUE
                           ELSE IF key \in DOMAIN sahi THEN sahi[key] ELSE desc[key]]

\* 0, -1: inherit the pipeline's own dial.
StreamDesc(s) ==
  [skip   |-> ValueOr(s.skip, 0),
   decode |-> IF ~Given(s.decode) THEN -1 ELSE IF s.decode = {"all"} THEN 0 ELSE 1]

\* A threshold, as GpuLoop reads it: it asks for one above 0, and NaN > 0 is False too.
Threshold(option) == IF NaN \in option THEN 0 ELSE ValueOr(option, 0)

\* The step as the executor sees it; a criterion that is not given is off.
StepDesc(o, input) ==
  [kind      |-> o.kind,
   input     |-> input,
   path      |-> o.path,
   family    |-> IF o.kind = "Postprocess" THEN Families[o.family] ELSE "none",
   classes   |-> ValueOr(o.classes, {}),
   min_score |-> Threshold(o.min_score),
   min_size  |-> Threshold(o.min_size)]

LocalIdx(acc) == Len(acc.local)                                  \* mutant

NewIdx(acc) == Len(acc.steps)

\* index_of[id(step)] = new_idx: an object added again is found at its last place.
IndexOf(index, o, i) == [x \in DOMAIN index \cup {o} |-> IF x = o THEN i ELSE index[x]]

\* One step of one layer.  The objects its input may name are those added before it.
AddStep(prog, acc, o) ==
  LET input == prog.objects[o].input
      i     == NewIdx(acc)
  IN  IF ~acc.ok \/ input \notin DOMAIN acc.index THEN [acc EXCEPT !.ok = FALSE]
      ELSE [acc EXCEPT !.steps = Append(@, StepDesc(prog.objects[o], acc.index[input])),
                       !.index = IndexOf(@, o, i),
                       !.local = Append(@, i)]

AddLayer(prog, acc, layer) ==
  LET done == FoldLeft(LAMBDA a, o : AddStep(prog, a, o), [acc EXCEPT !.local = <<>>],
                       layer.steps)
      desc == [key \in DOMAIN NewLayerDesc \cup {"steps"} |->
                 IF key = "steps" THEN done.local ELSE NewLayerDesc[key]]
  IN  [done EXCEPT
         !.ok = @ /\ \A d \in layer.sahi : DOMAIN d \subseteq SahiKeys,
         !.layers = Append(@, IF Given(layer.sahi)
                              THEN ApplySahi(desc, ValueOr(layer.sahi, <<>>)) ELSE desc)]

CompileLayers(prog) ==
  FoldLeft(LAMBDA acc, l : AddLayer(prog, acc, l),
           [ok |-> TRUE, index |-> [o \in {StreamsObject} |-> -1], steps |-> <<>>, layers |-> <<>>,
            local |-> <<>>],
           prog.layers)

\* Pipeline(sahi=...): an alias of layers[0]'s own, never a second opinion.
LegacySahiOk(prog) ==
  \A d \in prog.args.sahi :
    /\ prog.layers # <<>>
    /\ IF Given(prog.layers[1].sahi) THEN prog.layers[1].sahi = {d}
       ELSE DOMAIN d \subseteq SahiKeys

LegacySahi(prog, layers) ==
  IF Given(prog.args.sahi) /\ ~Given(prog.layers[1].sahi)
  THEN [layers EXCEPT ![1] = ApplySahi(@, ValueOr(prog.args.sahi, <<>>))]
  ELSE layers

\* Compiled last, when every step has its index.
SinkInputsKnown(prog, index) == \A i \in DOMAIN prog.sinks : prog.sinks[i].input \in DOMAIN index

SinkDesc(s, index) ==
  [kind |-> SinkKinds[s.kind], input |-> index[s.input],
   stream_id |-> ValueOr(s.stream, -1), scheme |-> s.target]

\* The configuration handed to _c.Pipeline, or none: a ValueError on the way.
Compile(prog) ==
  LET graph == CompileLayers(prog)
  IN  IF ~(/\ ConstructorsAccept(prog) /\ ArgsOk(prog.args) /\ graph.ok
           /\ LegacySahiOk(prog) /\ SinkInputsKnown(prog, graph.index))
      THEN {}
      ELSE {[streams |-> [i \in DOMAIN prog.streams |-> StreamDesc(prog.streams[i])],
             steps   |-> graph.steps,
             layers  |-> LegacySahi(prog, graph.layers),
             sinks   |-> [i \in DOMAIN prog.sinks |-> SinkDesc(prog.sinks[i], graph.index)],
             ring_depth |-> prog.args.ring_depth,
             cascade_serial |-> prog.args.cascade_serial]}

\* self._layer_names and self._child_families, read off the objects before compiling.
LayerNames(prog) == [j \in DOMAIN prog.layers |-> prog.layers[j].name]

ChildFamily(prog, layer) ==
  LET last == prog.objects[layer.steps[Len(layer.steps)]]
  IN  IF layer.steps # <<>> /\ last.kind = "Postprocess" /\ last.family \in {"argmax", "embedding"}
      THEN last.family ELSE "ctc"

ChildFamilies(prog) ==
  [j \in DOMAIN Tail(prog.layers) |-> ChildFamily(prog, Tail(prog.layers)[j])]

-----------------------------------------------------------------------------
(* Result *)

\* A FrameResult has detections, and for every child labels with their scores, vectors or
\* texts, one per detection.  A name given to two layers keeps the later one's.
Payload(r, families, c) ==
  CASE families[c] = "argmax"    -> [i \in DOMAIN r.children[c].labels |->
                                       <<r.children[c].labels[i], r.children[c].label_scores[i]>>]
    [] families[c] = "embedding" -> r.children[c].vectors
    [] OTHER                     -> r.children[c].texts

\* Mutant: children taken from the wrong end.
OutputOfLast(r, names, families, j) ==
  IF j = 1 THEN r.detections ELSE Payload(r, families, Len(r.children))

\* What outputs holds for the layer at position j: children[j - 2] is numbered from 0.
OutputOf(r, names, families, j) ==
  IF j = 1 THEN r.detections
  ELSE IF j - 1 \in DOMAIN r.children THEN Payload(r, families, j - 1) ELSE <<>>

Outputs(r, names, families) ==
  [name \in Range(names) |->
     LET last == CHOOSE j \in DOMAIN names :
                   names[j] = name /\ \A k \in DOMAIN names : names[k] = name => k <= j
     IN  OutputOf(r, names, families, last)]
=============================================================================
