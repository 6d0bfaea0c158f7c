--------------------------- MODULE FrameDelivery ---------------------------
(***************************************************************************)
(* What the data plane promises its consumer, without batches, rings or    *)
(* threads: every stream is a line of preprocessed frames, kept by their   *)
(* numbers; the consumer is shown the first of a line, so in frame order   *)
(* and each frame at most once.  A frame may be lost only when the         *)
(* pipeline is lossy - drop-oldest backpressure, or Stop() was called.     *)
(***************************************************************************)
EXTENDS Naturals

CONSTANTS Streams, FrameNos

VARIABLES line, shown, lossy

dvars == <<line, shown, lossy>>

TypeOK ==
  /\ line \in [Streams -> SUBSET FrameNos]
  /\ shown \in [Streams -> FrameNos \cup {0}]
  /\ lossy \in BOOLEAN

Init ==
  /\ line = [s \in Streams |-> {}]
  /\ shown = [s \in Streams |-> 0]
  /\ lossy \in BOOLEAN

\* Frame n joins the end of its line.
Publish(s, n) ==
  /\ n > shown[s]
  /\ \A m \in line[s] : n > m
  /\ line' = [line EXCEPT ![s] = @ \cup {n}]
  /\ UNCHANGED <<shown, lossy>>

\* The first of the line leaves it.
Show(s, n) ==
  /\ \A m \in line[s] : n <= m
  /\ shown' = [shown EXCEPT ![s] = n]
  /\ line' = [line EXCEPT ![s] = @ \ {n}]
  /\ UNCHANGED lossy

Lose(s, n) ==
  /\ lossy
  /\ line' = [line EXCEPT ![s] = @ \ {n}]
  /\ UNCHANGED <<shown, lossy>>

BecomeLossy ==
  /\ ~lossy
  /\ lossy' = TRUE
  /\ UNCHANGED <<line, shown>>

Next ==
  \/ \E s \in Streams :
       \/ \E n \in FrameNos : Publish(s, n)
       \/ \E n \in line[s] : Show(s, n) \/ Lose(s, n)
  \/ BecomeLossy

Spec == Init /\ [][Next]_dvars
=============================================================================
