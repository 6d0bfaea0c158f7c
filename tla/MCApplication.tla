---------------------------- MODULE MCApplication ----------------------------
(* Model of Application for TLC: every example and gate graph, what becomes of *)
(* five of them when a wire, the layers' order or a step's place is changed, a *)
(* few frames on two cameras, and the questions of qa_matrix's section H with  *)
(* others around them.                                                         *)
EXTENDS Application

MCEngineFiles == {"plates", "coco", "ocr", "mobilenet", "resnet", "rtdetr", "yolo26"}

Shown == {"anna", "anne", "van"}

\* The two persons look alike to the embedding engine; a tie, and a row below zero.
MCLogits ==
  [path \in MCEngineFiles \cup {"missing"} |->
     [w \in Shown |->
        CASE path = "resnet" -> [anna |-> <<3, 1, 0>>, anne |-> <<3, 2, 0>>, van |-> <<0, 2, 2>>][w]
          [] OTHER           -> [anna |-> <<1, 4, 2>>, anne |-> <<5, 2, 5>>, van |-> <<-3, -2, -1>>][w]]]

MCReading == [anna |-> "7ABC", anne |-> "", van |-> "9XYZ"]

-----------------------------------------------------------------------------
(* Programs *)

Bases == {ReadAndClassify, RouteAndReid, SharedTree, EmbeddingGate, ChainedCascade}

\* No longer the script's own: it only counts.
Changed(p) == [p EXCEPT !.script = "changed"]

Rewired ==
  UNION {{Changed([p EXCEPT !.objects = [@ EXCEPT ![o] = [@ EXCEPT !.input = i]]]) :
            o \in DOMAIN p.objects, i \in 0..Len(p.objects)} : p \in Bases}

Reordered ==
  UNION {{Changed([p EXCEPT !.layers = [j \in DOMAIN @ |-> @[order[j]]]]) :
            order \in {f \in [DOMAIN p.layers -> DOMAIN p.layers] : Cardinality(Range(f)) >= 2}} :
         p \in Bases}

\* A step added to a layer a second time, or to another layer too.
AddedAgain ==
  UNION {{Changed([p EXCEPT !.layers =
                     [@ EXCEPT ![j] = [@ EXCEPT !.steps = InsertAt(@, at, o)]]]) :
            j \in DOMAIN p.layers, o \in DOMAIN p.objects, at \in 1..3} :
         p \in {ReadAndClassify, SharedTree}}

\* A score asked of a routed detection: none, one they all have, one none has, NaN.
Demanding ==
  {Changed([RouteAndReid EXCEPT !.objects = [@ EXCEPT ![o] = [@ EXCEPT !.min_score = {v}]]]) :
     o \in {i \in DOMAIN RouteAndReid.objects : RouteAndReid.objects[i].kind = "Select"},
     v \in {0, 50, 51, NaN}}

MCPrograms == Examples \cup Gates \cup Rewired \cup Reordered \cup AddedAgain \cup Demanding

-----------------------------------------------------------------------------
(* Frames of 1280 x 720; detections in half pixels *)

Det(x, y, w, h, cls, who) ==
  [x |-> x, y |-> y, w |-> w, h |-> h, cls |-> cls, score |-> 50, who |-> who]

Frame(stream, gap, dets) == [stream |-> stream, gap |-> gap, w |-> 1280, h |-> 720, dets |-> dets]

Car(x) == Det(x, 300, 100, 100, 2, "van")

MCFrames ==
  {Frame(0, 100, <<Det(200, 101, 201, 399, 0, "anna"), Det(1800, 700, 400, 201, 7, "van")>>),
   \* a centre on the split; a person who looks like nobody; a screen and a car at the frame's edges, where the rounded
   \* rectangle would stick out by a pixel
   Frame(0, 100, <<Det(1064, 300, 100, 100, 62, "anne"), Det(2481, 300, 79, 160, 62, "anna"),
                   Det(2000, 1345, 200, 95, 2, "anne"), Det(300, 300, 100, 100, 0, "van")>>),
   Frame(0, 100, <<>>),
   Frame(1, 100, <<Det(900, 300, 300, 500, 0, "anne"), Det(0, 0, 78, 90, 56, "van")>>),
   \* two cars that moved on to where a car was
   Frame(1, 100, <<Car(1000), Car(1040)>>),
   Frame(1, 100, <<Car(1080), Car(1030)>>),
   Frame(1, 2000, <<Car(1030)>>)}

-----------------------------------------------------------------------------
(* Requests *)

Tiles(tile, overlap, full, serial) ==
  {[tile |-> tile, overlap |-> overlap, full_frame |-> full, serial |-> serial]}

Ask(n, res, skip, d, sahi) ==
  [streams |-> n, resolution |-> res, fps |-> 30, skip |-> skip, decode |-> d[1],
   key_gop |-> d[2], sahi |-> sahi]

Decoding == {<<"all", 30>>, <<"key", 30>>, <<"key", 2>>}

\* What IEEE 754 makes of the tiles and overlaps below (and of tiles of 1280).
MCFloatShort == {640, 1280} \X {60, 80}

MCDoubleShort == {640, 1280} \X {80, 90}

MCRequests ==
  {Ask(n, res, skip, d, sahi) :
     n \in {1, 11, 16}, res \in {"r720p", "r4k"}, skip \in {1, 2}, d \in Decoding,
     sahi \in {{}, Tiles(640, 20, TRUE, FALSE), Tiles(640, 50, TRUE, TRUE),
              Tiles(640, 60, TRUE, FALSE), Tiles(640, 80, FALSE, FALSE), Tiles(640, 90, TRUE, FALSE),
              Tiles(900, 20, FALSE, TRUE)}}
  \cup
  {Ask(100, res, 1, d, {}) : res \in {"r720p", "r1440p"}, d \in Decoding}
  \cup
  {[Ask(43, "r1080p", 3, <<"all", 30>>, {}) EXCEPT !.fps = 60],
   [Ask(1, "r4k", 1, <<"all", 30>>, {}) EXCEPT !.fps = 600],
   Ask(16, "r8k", 1, <<"all", 30>>, {}), Ask(16, "r4k", 1, <<"nonkey", 30>>, {})}
=============================================================================
