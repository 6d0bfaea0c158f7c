------------------------------ MODULE MCCascade ------------------------------
(* Model of Cascade for TLC: a few stage graphs, every graph that differs from *)
(* them in the wiring of two steps, and scenes whose objects need slicing.     *)
EXTENDS Cascade

Step(kind, input) ==
  [kind |-> kind, input |-> input, family |-> "none", classes |-> {},
   min_score |-> 0, min_size |-> 0]

Post(input, family) == [Step("Postprocess", input) EXCEPT !.family = family]

Layer(steps) == [steps |-> steps, sahi |-> FALSE, full_frame |-> TRUE, serial |-> FALSE]

Sliced(layer, full, serial) ==
  [layer EXCEPT !.sahi = TRUE, !.full_frame = full, !.serial = serial]

Events(input) == [kind |-> "Events", input |-> input, stream_id |-> -1, scheme |-> "tcp"]

Config(steps, layers, sinks, serial) ==
  [streams |-> <<[skip |-> 0, decode |-> -1]>>, steps |-> steps, layers |-> layers,
   sinks |-> sinks, ring_depth |-> 4, cascade_serial |-> serial]

\* Two children, plain.
Siblings(family) ==
  Config(<<Step("Engine", -1), Post(0, family), Step("Engine", 1), Post(2, "Ctc"),
           Step("Engine", 1), Post(4, "Argmax")>>,
         <<Layer(<<0, 1>>), Layer(<<2, 3>>), Layer(<<4, 5>>)>>, <<Events(5)>>, FALSE)

\* A Select shared by a layer declared before the one that owns it, and a Process step.
SharedRoute ==
  Config(<<Step("Process", -1), Step("Engine", 0), Post(1, "YoloDetect"),
           [Step("Select", 2) EXCEPT !.classes = {1}, !.min_size = 2],
           Step("Engine", 3), Post(4, "Embedding"), Step("Engine", 3), Post(6, "Ctc")>>,
         <<Layer(<<0, 1, 2>>), Layer(<<6, 7>>), Layer(<<3, 4, 5>>)>>, <<>>, FALSE)

\* The same with a Select that no layer lists.
LooseRoute == [SharedRoute EXCEPT !.layers = SubSeq(@, 1, 2)]

\* Two Selects of the same detector.
TwoRoutes ==
  Config(<<Step("Engine", -1), Post(0, "YoloDetect"),
           [Step("Select", 1) EXCEPT !.classes = {0}], Step("Engine", 2), Post(3, "Ctc"),
           [Step("Select", 1) EXCEPT !.min_score = 9], Step("Engine", 5), Post(6, "Argmax")>>,
         <<Layer(<<0, 1>>), Layer(<<2, 3, 4>>), Layer(<<5, 6, 7>>)>>, <<>>, FALSE)

Bases == {Siblings("YoloDetect"), SharedRoute, TwoRoutes}

Rewired(c, i, kind, input) ==
  [c EXCEPT !.steps = [@ EXCEPT ![i] = [@ EXCEPT !.kind = kind, !.input = input]]]

StepKinds == {"Process", "Select", "Engine", "Postprocess"}

\* The graphs that differ from c in the kind and the input of one of the steps.
OneRewired(c, steps) ==
  {Rewired(c, i, kind, input) : i \in steps, kind \in StepKinds, input \in -1..Len(c.steps)}

\* Graphs that may be wrong, with one step changed or two; those Validate accepts are run.
Miswired ==
       UNION {OneRewired(c, DOMAIN c.steps) : c \in Bases}
  \cup UNION {OneRewired(c, {5, 7}) : c \in OneRewired(SharedRoute, {4})}
  \cup UNION {OneRewired(c, {7}) : c \in OneRewired(SharedRoute, {5})}
  \cup OneRewired(LooseRoute, {4, 7})

WithSahi(c, full, serial) == [c EXCEPT !.layers = [@ EXCEPT ![1] = Sliced(@, full, serial)]]

SahiConfigs ==
  {WithSahi(c, full, serial) : c \in {TwoRoutes, Siblings("YoloE2E")}, full \in BOOLEAN, serial \in BOOLEAN}

Faulty ==
  {[SharedRoute EXCEPT !.ring_depth = 1],
   [SharedRoute EXCEPT !.sinks = <<Events(3)>>],
   [SharedRoute EXCEPT !.streams = <<[skip |-> -1, decode |-> 0]>>],
   [SharedRoute EXCEPT !.layers = <<>>],
   [SharedRoute EXCEPT !.layers = Append(@, Layer(<<>>))],
   [SharedRoute EXCEPT !.layers = Append(@, Layer(<<8, 9>>))],
   Rewired(SharedRoute, 1, "Process", -2),
   [SharedRoute EXCEPT !.layers = [@ EXCEPT ![2] = Sliced(@, TRUE, TRUE)]]}

Serially(cs) == {[c EXCEPT !.cascade_serial = TRUE] : c \in cs}

MCConfigs == Miswired \cup SahiConfigs \cup Faulty \cup Serially(Bases) \cup {Siblings("YoloE2E")}

Object(x, y, w, h, cls, score) ==
  [x |-> x, y |-> y, w |-> w, h |-> h, cls |-> cls, score |-> score]

\* A wide frame: an object only the whole frame shows entirely, a small one that the
\* middle tile shows entirely and the last one in part, and one at the far edge.
Street ==
  [w |-> 8, h |-> 4,
   objects |-> {Object(0, 0, 6, 3, 0, 10), Object(3, 1, 3, 2, 1, 8), Object(6, 0, 2, 2, 1, 6)}]

\* Four tiles, all of which show the object in the middle.
Square == [w |-> 6, h |-> 6, objects |-> {Object(2, 2, 2, 2, 1, 10)}]

MCScenes == {Street, Square}
=============================================================================
