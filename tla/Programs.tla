------------------------------- MODULE Programs ------------------------------
(***************************************************************************)
(* The stage graphs the examples and the QA scripts build with the Python  *)
(* package.  A script that is meant to run expects "runs"; one that probes *)
(* an error expects the exception of the constructor ("ValueError") or of  *)
(* the C++ side ("RuntimeError").                                          *)
(***************************************************************************)
EXTENDS GraphCompiler

-----------------------------------------------------------------------------
(* Steps and layers, with the defaults of their constructors *)

Blank(kind, input) ==
  [kind |-> kind, input |-> input, path |-> "none", family |-> "none", norm |-> {},
   color |-> {}, max_batch |-> 16, shape |-> {}, classes |-> {}, min_score |-> {},
   min_size |-> {}]

Eng(input, path) == [Blank("Engine", input) EXCEPT !.path = path]

Post(input, family) == [Blank("Postprocess", input) EXCEPT !.family = family]

Sel(input, classes, min_size) ==
  [Blank("Select", input) EXCEPT !.classes = classes, !.min_size = min_size]

\* CLASSIFIER_NORM, in units of no meaning here, and color="rgb".
ImageNet(step) ==
  [step EXCEPT !.norm = {<< <<-124, -116, -104>>, <<1, 1, 1>> >>}, !.color = {"rgb"}]

NamedLayer(name, steps) == [name |-> name, steps |-> steps, sahi |-> {}]

Events(input) == [kind |-> "events", input |-> input, stream |-> {}, target |-> "file"]

Relay(stream) ==
  [kind |-> "stream", input |-> StreamsObject, stream |-> {stream}, target |-> "rtsp"]

TwoCameras == << [skip |-> {}, decode |-> {}], [skip |-> {}, decode |-> {}] >>

\* Pipeline(streams, layers=...), everything else at its default.
Program(script, objects, layers) ==
  [script |-> script, expect |-> "runs", objects |-> objects, streams |-> TwoCameras,
   layers |-> layers, sinks |-> <<>>,
   args |-> [decode |-> "all", backpressure |-> "block", sahi |-> {}, ring_depth |-> 4,
             cascade_serial |-> FALSE]]

Expecting(prog, outcome) == [prog EXCEPT !.expect = outcome]

Serially(prog) == [prog EXCEPT !.args.cascade_serial = TRUE]

Sahi640 == [key \in {"tile"} |-> 640]

-----------------------------------------------------------------------------
(* The detector, and children that read all of its detections *)

Detector(path, family) == <<Eng(StreamsObject, path), Post(1, family)>>

DetectLayer == NamedLayer("detect", <<1, 2>>)

\* one_layer
OneLayer(script) == Program(script, Detector("plates", "yolo"), <<DetectLayer>>)

\* A child is [name, path, family]; its engine's input is the detector's Postprocess.
ChildEngine(child) ==
  IF child.family = "ctc" THEN Eng(2, child.path) ELSE ImageNet(Eng(2, child.path))

Tree(script, detector, children) ==
  Program(script,
    detector \o FlattenSeq([c \in DOMAIN children |->
                  <<ChildEngine(children[c]), Post(2 * c + 1, children[c].family)>>]),
    <<DetectLayer>> \o [c \in DOMAIN children |->
                          NamedLayer(children[c].name, <<2 * c + 1, 2 * c + 2>>)])

Reader(name, path, family) == [name |-> name, path |-> path, family |-> family]

ReadChild == Reader("read", "ocr", "ctc")
ClassifyChild == Reader("classify", "mobilenet", "argmax")

ReadPlates == Tree("read_plates", Detector("plates", "yolo"), <<ReadChild>>)

ClassifyDetections ==
  Tree("classify_detections", Detector("plates", "yolo"), <<ClassifyChild>>)

ReadAndClassify ==
  Tree("read_and_classify", Detector("plates", "yolo"), <<ReadChild, ClassifyChild>>)

DetectRtdetr == Program("detect_rtdetr", Detector("rtdetr", "rtdetr"), <<DetectLayer>>)

ZoneFilter ==
  [OneLayer("zone_filter") EXCEPT !.args.backpressure = "drop_oldest"]

FleetPipeline == OneLayer("fleet")

-----------------------------------------------------------------------------
(* route_and_reid *)

PersonClasses == {0}
VehicleClasses == {2, 3, 5, 7}
VehicleMinSize == 48

RouteAndReid ==
  Program("route_and_reid",
    Detector("coco", "yolo") \o
    <<Sel(2, {PersonClasses}, {}), ImageNet(Eng(3, "resnet")), Post(4, "embedding"),
      Sel(2, {VehicleClasses}, {VehicleMinSize}), ImageNet(Eng(6, "mobilenet")),
      Post(7, "argmax")>>,
    <<DetectLayer, NamedLayer("person", <<3, 4, 5>>), NamedLayer("vehicle", <<6, 7, 8>>)>>)

-----------------------------------------------------------------------------
(* The gates: _qa_embedding_gate, _qa_select_gate *)

EmbeddingGate ==
  Tree("embedding_gate", Detector("plates", "yolo"),
       <<Reader("embed", "resnet", "embedding"), Reader("cls", "resnet", "argmax")>>)

Person == {0}
Indoor == {56, 62, 63, 66, 73}
MinSize == 40

\* tree(urls, mode)
SelectTree(script, selectA, selectB) ==
  Program(script,
    Detector("coco", "yolo") \o
    <<selectA, ImageNet(Eng(3, "resnet")), Post(4, "embedding"),
      selectB, ImageNet(Eng(6, "mobilenet")), Post(7, "argmax")>>,
    <<DetectLayer, NamedLayer("embed", <<3, 4, 5>>), NamedLayer("cls", <<6, 7, 8>>)>>)

RoutedTree == SelectTree("routed", Sel(2, {Person}, {}), Sel(2, {Indoor}, {MinSize}))

PassAllTree == SelectTree("passall", Sel(2, {}, {}), Sel(2, {}, {}))

SharedTree ==
  LET own == SelectTree("shared", Sel(2, {Person}, {}), Sel(2, {}, {}))
  IN  [own EXCEPT !.objects = [@ EXCEPT ![7] = [@ EXCEPT !.input = 3]],
                  !.layers  = [@ EXCEPT ![3] = [@ EXCEPT !.steps = <<7, 8>>]]]

PlainTree ==
  Tree("plain", Detector("coco", "yolo"),
       <<Reader("embed", "resnet", "embedding"), Reader("cls", "mobilenet", "argmax")>>)

\* A Select fed by a child's own Postprocess.
DepthThreeSelect ==
  LET embed == Tree("errors", Detector("coco", "yolo"), <<Reader("read", "resnet", "embedding")>>)
  IN  Expecting([embed EXCEPT
        !.objects = @ \o <<Sel(4, {{0}}, {}), ImageNet(Eng(5, "mobilenet")), Post(6, "argmax")>>,
        !.layers  = Append(@, NamedLayer("deep", <<5, 6, 7>>))], "RuntimeError")

NoClasses == Expecting(SelectTree("errors", Sel(2, {{}}, {}), Sel(2, {}, {})), "ValueError")

NegativeSize == Expecting(SelectTree("errors", Sel(2, {}, {-3}), Sel(2, {}, {})), "ValueError")

-----------------------------------------------------------------------------
(* qa_matrix *)

BadFamily ==
  Expecting(Program("errors", Detector("plates", "segmentation"), <<DetectLayer>>), "ValueError")

BadEngine ==
  Expecting(Program("errors", Detector("missing", "yolo"), <<DetectLayer>>), "RuntimeError")

ChainedCascade ==
  LET read == Tree("errors", Detector("plates", "yolo"), <<ReadChild>>)
  IN  Expecting([read EXCEPT
        !.objects = @ \o <<Eng(4, "ocr"), Post(5, "ctc")>>,
        !.layers  = Append(@, NamedLayer("extra", <<5, 6>>))], "RuntimeError")

CtcFirst ==
  Expecting(Program("errors", Detector("ocr", "ctc"), <<DetectLayer>>), "RuntimeError")

\* Layer(sahi=...)
LayerForm(prog, sahi) == [prog EXCEPT !.layers = [@ EXCEPT ![1] = [@ EXCEPT !.sahi = {sahi}]]]

\* Pipeline(sahi=...)
LegacyForm(prog, sahi) == [prog EXCEPT !.args.sahi = {sahi}]

SahiConflict ==
  Expecting(LegacyForm(LayerForm(OneLayer("errors"), Sahi640), [key \in {"tile"} |-> 960]),
            "ValueError")

SahiTwice == LegacyForm(LayerForm(OneLayer("sahi"), Sahi640), Sahi640)

YoloE2e == Program("e2e", Detector("yolo26", "e2e"), <<DetectLayer>>)

SahiE2e == Expecting(LayerForm(YoloE2e, Sahi640), "RuntimeError")

E2eCascade == Tree("aligned", Detector("yolo26", "e2e"), <<ReadChild>>)

PerStreamDials ==
  [OneLayer("dials") EXCEPT !.streams = <<[skip |-> {}, decode |-> {}],
                                          [skip |-> {4}, decode |-> {"key"}]>>]

ClassifierDemo == [ClassifyDetections EXCEPT !.script = "aligned"]

FullTree == [ReadAndClassify EXCEPT !.script = "aligned"]

\* The sinks of section F.
WithSinks ==
  [OneLayer("sinks") EXCEPT !.sinks = <<Events(2), Relay(0)>>,
                            !.args.backpressure = "drop_oldest"]

-----------------------------------------------------------------------------
(* _t4_edges, _t5_soak, _t3_probes *)

\* tree(streams, n): a reader and n - 1 classifiers with the same engine file.
EdgeTree(script, n) ==
  Tree(script, Detector("plates", "yolo"),
       [c \in 1..n |-> IF c = 1 THEN ReadChild
                       ELSE Reader(<<"", "classify1", "classify2", "classify3">>[c],
                                  "mobilenet", "argmax")])

TreesCell ==
  [LayerForm(EdgeTree("trees", 4), Sahi640) EXCEPT !.sinks = <<Events(2), Events(4), Relay(0)>>]

ZeroDetCell == [EdgeTree("aligned", 2) EXCEPT !.sinks = <<Events(2)>>]

SoakTree ==
  [FullTree EXCEPT !.sinks = <<Events(2), Relay(0)>>]

EmbedAsArgmax ==
  Tree("aligned", Detector("plates", "yolo"), <<Reader("embed", "resnet", "argmax")>>)

-----------------------------------------------------------------------------
Examples ==
  {ReadPlates, ClassifyDetections, ReadAndClassify, DetectRtdetr, ZoneFilter, RouteAndReid,
   FleetPipeline}

Gates ==
  {EmbeddingGate, Serially(EmbeddingGate), RoutedTree, Serially(RoutedTree), SharedTree,
   PassAllTree, PlainTree, DepthThreeSelect, NoClasses, NegativeSize, BadFamily, BadEngine,
   ChainedCascade, CtcFirst, LayerForm(OneLayer("sahi"), Sahi640),
   LegacyForm(OneLayer("sahi"), Sahi640), SahiConflict, SahiTwice, YoloE2e, SahiE2e,
   E2eCascade, PerStreamDials, ClassifierDemo, FullTree, Serially(FullTree), WithSinks,
   TreesCell, ZeroDetCell, SoakTree, EmbedAsArgmax}
=============================================================================
