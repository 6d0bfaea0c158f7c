------------------------------ MODULE StageGraph -----------------------------
(***************************************************************************)
(* The stage graph an application passes to Pipeline: steps wired by their *)
(* `input`, grouped into layers, with sinks attached.  Validate accepts the *)
(* shape the executor runs - one detector layer feeding sibling layers -   *)
(* and turns it into the ExecPlan that GpuLoop follows; the wires are not  *)
(* looked at again.  Steps are numbered from 0, as in the code.            *)
(*                                                                         *)
(* cfg: [streams, steps, layers, sinks, ring_depth, cascade_serial]        *)
(*   stream: [skip, decode]         layer: [steps, sahi, full_frame, serial] *)
(*   step: [kind, input, family, classes, min_score, min_size]             *)
(*   sink: [kind, input, stream_id, scheme]                                *)
(***************************************************************************)
EXTENDS Integers, SequencesExt

DetectFamilies == {"YoloDetect", "YoloE2E", "RtDetr"}
ReadFamilies == {"Ctc", "Argmax", "Embedding"}
EventSchemes == {"stdout", "tcp", "file"}
RelaySchemes == {"rtsp", "tcpraw"}

NoStep == -1

StepIds(cfg) == 0..(Len(cfg.steps) - 1)

StepAt(cfg, i) == cfg.steps[i + 1]

IsStep(cfg, i, kind, input) == StepAt(cfg, i).kind = kind /\ StepAt(cfg, i).input = input

-----------------------------------------------------------------------------
(* What does not depend on the shape *)

StreamsOk(cfg) ==
  \A i \in DOMAIN cfg.streams :
    cfg.streams[i].skip >= 0 /\ cfg.streams[i].decode \in -1..1

WiresExist(cfg) == \A i \in StepIds(cfg) : StepAt(cfg, i).input < Len(cfg.steps)

\* layers[..].steps goes through std::vector::at, which throws.
StepsExist(cfg, l) == \A j \in DOMAIN l.steps : l.steps[j] \in StepIds(cfg)

-----------------------------------------------------------------------------
(* Layer 0, the detector: Engine -> Postprocess, or Process -> Engine -> ... *)

PostOf(l) == l.steps[Len(l.steps)]
EngineOf(l) == l.steps[Len(l.steps) - 1]

DetectorOk(cfg, l) ==
  /\ Len(l.steps) \in {2, 3}
  /\ StepsExist(cfg, l)
  /\ Len(l.steps) = 3 => IsStep(cfg, l.steps[1], "Process", -1)
  /\ IsStep(cfg, EngineOf(l), "Engine", IF Len(l.steps) = 3 THEN l.steps[1] ELSE -1)
  /\ IsStep(cfg, PostOf(l), "Postprocess", EngineOf(l))
  /\ StepAt(cfg, PostOf(l)).family \in DetectFamilies

DetectorPost(cfg) == PostOf(cfg.layers[1])

DetectorFamily(cfg) == StepAt(cfg, DetectorPost(cfg)).family

\* Tiles are merged by NMS, which the end-to-end heads do without.
SahiOk(cfg) == cfg.layers[1].sahi => DetectorFamily(cfg) = "YoloDetect"

-----------------------------------------------------------------------------
(* Layers 1.., the children: [Select ->] Engine -> Postprocess *)

\* Every Postprocess a child could end in, whichever layer it belongs to.
ReadPosts(cfg) ==
  {i \in StepIds(cfg) : /\ StepAt(cfg, i).kind = "Postprocess"
                        /\ StepAt(cfg, i).family \in ReadFamilies}

Routed(l) == Len(l.steps) = 3

OwnSelectOk(cfg, l) == Routed(l) => IsStep(cfg, l.steps[1], "Select", DetectorPost(cfg))

AnySelect(cfg, i) == i >= 0 /\ StepAt(cfg, i).kind = "Select"       \* mutant

\* A Select declared in another layer may be consumed too.
SharedSelect(cfg, i) == i >= 0 /\ IsStep(cfg, i, "Select", DetectorPost(cfg))

EngineOk(cfg, l) ==
  LET e == StepAt(cfg, EngineOf(l)) IN
    /\ e.kind = "Engine"
    /\ \/ Routed(l) /\ e.input = l.steps[1]
       \/ ~Routed(l) /\ e.input = DetectorPost(cfg)
       \/ ~Routed(l) /\ SharedSelect(cfg, e.input)

ReadOk(cfg, l) ==
  /\ IsStep(cfg, PostOf(l), "Postprocess", EngineOf(l))
  /\ StepAt(cfg, PostOf(l)).family \in ReadFamilies

\* A child of a child: the named error, rather than the general one.
ChainedOr(cfg, i, kind) ==
  IF StepAt(cfg, i).kind = kind /\ StepAt(cfg, i).input \in ReadPosts(cfg)
  THEN "chained" ELSE "graph"

ChildVerdict(cfg, l) ==
  CASE l.sahi -> "sahi"
    [] ~l.sahi /\ ~(Len(l.steps) \in {2, 3} /\ StepsExist(cfg, l)) -> "graph"
    [] OTHER ->
         IF ~OwnSelectOk(cfg, l) THEN ChainedOr(cfg, l.steps[1], "Select")
         ELSE IF ~EngineOk(cfg, l) THEN ChainedOr(cfg, EngineOf(l), "Engine")
         ELSE IF ~ReadOk(cfg, l) THEN "graph" ELSE "ok"

ChildLayers(cfg) == Tail(cfg.layers)

-----------------------------------------------------------------------------
(* Sinks *)

SinkOk(cfg, sink) ==
  /\ sink.stream_id \in -1..(Len(cfg.streams) - 1)
  /\ \/ /\ sink.kind = "Events"
        /\ \E j \in DOMAIN cfg.layers : sink.input = PostOf(cfg.layers[j])
        /\ sink.scheme \in EventSchemes
     \/ /\ sink.kind = "StreamRelay"
        /\ sink.input = -1 /\ sink.stream_id # -1
        /\ sink.scheme \in RelaySchemes

-----------------------------------------------------------------------------
\* The first thing Validate throws, or "ok".
Verdict(cfg) ==
  IF ~StreamsOk(cfg) THEN "stream"
  ELSE IF ~WiresExist(cfg) \/ cfg.layers = <<>> THEN "graph"
  ELSE IF cfg.ring_depth < 2 THEN "ring_depth"
  ELSE IF ~DetectorOk(cfg, cfg.layers[1]) THEN "graph"
  ELSE IF ~SahiOk(cfg) THEN "sahi"
  ELSE LET children == ChildLayers(cfg)
           bad == {j \in DOMAIN children : ChildVerdict(cfg, children[j]) # "ok"}
       IN  IF bad # {}
           THEN ChildVerdict(cfg, children[CHOOSE j \in bad : \A i \in bad : j <= i])
           ELSE IF \A j \in DOMAIN cfg.sinks : SinkOk(cfg, cfg.sinks[j])
                THEN "ok" ELSE "sink"

\* sel_step_idx: the layer's own Select, a shared one, or none.
SelectOf(cfg, l) ==
  LET in == StepAt(cfg, EngineOf(l)).input
  IN  IF in = DetectorPost(cfg) THEN NoStep ELSE in

\* ExecPlan: what is left of the graph once it was accepted.
Plan(cfg) ==
  [family   |-> DetectorFamily(cfg),
   sahi     |-> cfg.layers[1].sahi,
   full     |-> cfg.layers[1].full_frame,
   serial   |-> cfg.layers[1].serial,
   children |-> [c \in DOMAIN ChildLayers(cfg) |->
                   LET l == ChildLayers(cfg)[c]
                   IN  [engine |-> EngineOf(l),
                        family |-> StepAt(cfg, PostOf(l)).family,
                        select |-> SelectOf(cfg, l)]]]

\* Select's criteria; one that is empty or 0 is off.
Passes(sel, d, rect) ==
  /\ sel.classes = {} \/ d.cls \in sel.classes
  /\ sel.min_score > 0 => d.score >= sel.min_score
  /\ sel.min_size > 0 => rect.w >= sel.min_size /\ rect.h >= sel.min_size

-----------------------------------------------------------------------------
(* The shape Validate is meant to accept, stated on the wires alone *)

\* Steps from the one that reads the camera to step i, or <<>> if they run in a circle.
Line(cfg, i) ==
  LET back[n \in 0..Len(cfg.steps)] ==
        IF n = 0 THEN <<i>>
        ELSE LET line == back[n - 1]
                 in   == StepAt(cfg, Head(line)).input
             IN  IF in < 0 THEN line ELSE <<in>> \o line
      line == back[Len(cfg.steps)]
  IN  IF Len(line) > Len(cfg.steps) THEN <<>> ELSE line

Kinds(cfg, line) == [j \in DOMAIN line |-> StepAt(cfg, line[j]).kind]

DetectorKinds == {<<"Engine", "Postprocess">>, <<"Process", "Engine", "Postprocess">>}

ReaderKinds == {<<"Engine", "Postprocess">>, <<"Select", "Engine", "Postprocess">>}

LayerNamesSteps(cfg, l) == l.steps # <<>> /\ StepsExist(cfg, l)

\* One detector line; every other layer branches off at its end and reads it through an
\* engine of its own, behind at most one Select, which the layer may leave to another.
IsTree(cfg) ==
  LET trunk == Line(cfg, PostOf(cfg.layers[1]))
      Branch(l) == LET line == Line(cfg, PostOf(l))
                   IN  SubSeq(line, Len(trunk) + 1, Len(line))
  IN  /\ cfg.layers # <<>>
      /\ \A j \in DOMAIN cfg.layers : LayerNamesSteps(cfg, cfg.layers[j])
      /\ cfg.layers[1].steps = trunk
      /\ StepAt(cfg, Head(trunk)).input = -1
      /\ Kinds(cfg, trunk) \in DetectorKinds
      /\ StepAt(cfg, PostOf(cfg.layers[1])).family \in DetectFamilies
      /\ \A j \in DOMAIN ChildLayers(cfg) :
           LET l == ChildLayers(cfg)[j] IN
             /\ IsPrefix(trunk, Line(cfg, PostOf(l)))
             /\ Kinds(cfg, Branch(l)) \in ReaderKinds
             /\ l.steps \in {Branch(l), SubSeq(Branch(l), Len(Branch(l)) - 1, Len(Branch(l)))}
             /\ StepAt(cfg, PostOf(l)).family \in ReadFamilies
=============================================================================
