-------------------------- MODULE PipelineDelivery -------------------------
(***************************************************************************)
(* Pipeline implements FrameDelivery: the line of a stream is what sits in *)
(* the result queue, in the rest of the GPU thread's batch, in the pending *)
(* buffers and in the filling one.                                         *)
(***************************************************************************)
EXTENDS Pipeline

\* The preprocessed slots the GPU thread has not pushed yet.
Unpushed == {bi \in ReadySlots : bi[1] = taken => bi[2] >= gi}

\* The stream and number of every frame between MarkReady and Poll; abandoned slots
\* count for no stream.
InFlight ==
       {<<q[i].stream, q[i].no>> : i \in DOMAIN q}
  \cup {<<MetaAt(bi).stream, MetaAt(bi).no>> : bi \in Unpushed}

Line == [s \in Streams |-> {n \in FrameNos : <<s, n>> \in InFlight}]

Lossy == drop_oldest \/ q_stopping

Delivery == INSTANCE FrameDelivery WITH
  line <- Line, lossy <- Lossy

\* Results reach the consumer in frame order, per stream, each at most once; in
\* Block mode and before Stop() none is lost (README: results arrive per camera in
\* order; graph.h: Block never drops).
DeliversInOrder == Delivery!Spec

\* A preprocessed frame is eventually shown to a consumer that keeps polling,
\* unless losing it is allowed.
PublishedIsShown ==
  ConsumerFairness =>
    \A s \in Streams : \A n \in FrameNos :
      n \in Line[s] ~> shown[s] >= n \/ Lossy
=============================================================================
