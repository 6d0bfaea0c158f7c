---------------------------- MODULE PipelineProofs ----------------------------
(***************************************************************************)
(* Theorems about Pipeline, for any streams, buffers, ring depth, queue    *)
(* capacity, skip factor, pollers and frame sizes, with or without held    *)
(* frames.  The data plane uses the batcher and the queue as their         *)
(* specifications say, so what BatcherProofs and ResultQueueProofs prove   *)
(* holds of it.  The ownership of ring slots is argued on top of that: a   *)
(* frame's meta is at one of four kinds of places (At), the places whose   *)
(* meta still names a ring slot own it (Own), and every step of the data   *)
(* plane is one or two of a few elementary moves of metas between places,  *)
(* each a lemma of its own: into Push, into the queue, to the consumer,    *)
(* out of existence with the slot freed.  Frame order is argued from       *)
(* OrderInv: in the queue and in the batch buffers, taken in the order in  *)
(* which they will be pushed, a stream's frames have growing numbers; with *)
(* it every step of the data plane is one of FrameDelivery or a stutter.   *)
(***************************************************************************)
EXTENDS PipelineDelivery, TLAPS, FiniteSetTheorems

BP == INSTANCE BatcherProofs WITH Producers <- Streams

QP == INSTANCE ResultQueueProofs WITH
        Results <- Metas, NoResult <- Abandoned,
        MaxPushes <- Cardinality(Streams) * MaxFrames

-----------------------------------------------------------------------------
(* The data plane uses the batcher *)

\* The steps of the producers on the batcher.
LEMMA ProducerUsesBatcher ==
  ASSUME NEW s \in Streams
  PROVE  /\ B!AcquireRefused(s) => BP!AcquireRefused(s)
         /\ B!AcquireSlot(s) => BP!AcquireSlot(s)
         /\ B!AcquireRotate(s) => BP!AcquireRotate(s)
         /\ B!AcquireWait(s) => BP!AcquireWait(s)
         /\ B!MarkReady(s) => BP!MarkReady(s)
         /\ B!ProducerDone(s) => BP!ProducerDone(s)
<1>1. B!AcquireRefused(s) => BP!AcquireRefused(s)
  BY DEF B!AcquireRefused, BP!AcquireRefused, B!InAcquire, BP!InAcquire
<1>2. B!AcquireSlot(s) => BP!AcquireSlot(s)
  BY DEF B!AcquireSlot, BP!AcquireSlot, B!InAcquire, BP!InAcquire, B!HasRoom, BP!HasRoom, B!Claim, BP!Claim
<1>3. B!AcquireRotate(s) => BP!AcquireRotate(s)
  BY DEF B!AcquireRotate, BP!AcquireRotate, B!InAcquire, BP!InAcquire, B!HasRoom, BP!HasRoom,
         B!Claim, BP!Claim, B!QueueFull, BP!QueueFull, B!Notified, BP!Notified
<1>4. B!AcquireWait(s) => BP!AcquireWait(s)
  BY DEF B!AcquireWait, BP!AcquireWait, B!InAcquire, BP!InAcquire, B!HasRoom, BP!HasRoom,
         B!QueueFull, BP!QueueFull, B!Notified, BP!Notified
<1>5. B!MarkReady(s) => BP!MarkReady(s)
  BY DEF B!MarkReady, BP!MarkReady, B!WakesGpu, BP!WakesGpu, B!Notified, BP!Notified
<1>6. B!ProducerDone(s) => BP!ProducerDone(s)
  BY DEF B!ProducerDone, BP!ProducerDone, B!WakesGpuWhenLast, BP!WakesGpuWhenLast, B!Notified, BP!Notified
<1>7. QED BY <1>1, <1>2, <1>3, <1>4, <1>5, <1>6

\* The steps of the GPU thread and of Stop() on it.
LEMMA GpuUsesBatcher ==
  /\ B!TakePending => BP!TakePending
  /\ B!TakeClose => BP!TakeClose
  /\ B!TakeStragglers => BP!TakeStragglers
  /\ B!TakeNull => BP!TakeNull
  /\ B!TakeWait => BP!TakeWait
  /\ B!Recycle => BP!Recycle
  /\ B!SetStopping => BP!SetStopping
<1>1. B!TakePending => BP!TakePending
  BY DEF B!TakePending, BP!TakePending, B!CanTakePending, BP!CanTakePending, B!Complete, BP!Complete
<1>2. B!TakeClose => BP!TakeClose
  BY DEF B!TakeClose, BP!TakeClose, B!CanClose, BP!CanClose, B!Complete, BP!Complete,
         B!WakeProducers, BP!WakeProducers, B!NotifySpace, BP!NotifySpace
<1>3. B!TakeStragglers => BP!TakeStragglers
  BY DEF B!TakeStragglers, BP!TakeStragglers, B!Complete, BP!Complete
<1>4. B!TakeNull => BP!TakeNull
  BY DEF B!TakeNull, BP!TakeNull, B!Drained, BP!Drained, B!CanClose, BP!CanClose
<1>5. B!TakeWait => BP!TakeWait
  BY DEF B!TakeWait, BP!TakeWait, B!CanTakePending, BP!CanTakePending, B!Complete, BP!Complete,
         B!Drained, BP!Drained, B!CanClose, BP!CanClose
<1>6. B!Recycle => BP!Recycle
  BY DEF B!Recycle, BP!Recycle, B!ResetCounters, BP!ResetCounters,
         B!WakeProducers, BP!WakeProducers, B!NotifySpace, BP!NotifySpace
<1>7. B!SetStopping => BP!SetStopping
  BY DEF B!SetStopping, BP!SetStopping, B!WakeProducers, BP!WakeProducers, B!NotifySpace, BP!NotifySpace,
         B!Notified, BP!Notified
<1>8. QED BY <1>1, <1>2, <1>3, <1>4, <1>5, <1>6, <1>7

\* Every step of the data plane is one of the batcher or leaves it alone.
LEMMA StepUsesBatcher == [Next]_vars => [BP!Next]_BP!bvars
<1>1. SUFFICES ASSUME [Next]_vars PROVE [BP!Next]_BP!bvars
  OBVIOUS
<1>2. CASE UNCHANGED batcherVars
  BY <1>2 DEF batcherVars, BP!bvars
<1>3. ASSUME NEW s \in Streams, ProducerStep(s) PROVE BP!ProducerStep(s) \/ UNCHANGED batcherVars
  BY <1>3, ProducerUsesBatcher
     DEF ProducerStep, Decode, EnsureRing, AcquireRing, AcquireBatch, GiveUpRingSlot, Preprocess,
         PreprocessThrows, LeaveLoop, BP!ProducerStep
<1>4. ASSUME GpuStep PROVE BP!GpuStep \/ UNCHANGED batcherVars
  BY <1>4, GpuUsesBatcher
     DEF GpuStep, Take, SkipAbandoned, PushResult, ReleaseRing, RecycleBatch, FinishRun, BP!GpuStep
<1>5. ASSUME StopStep PROVE BP!SetStopping \/ UNCHANGED batcherVars
  BY <1>5, GpuUsesBatcher DEF StopStep, StopFlag, StopBatcher, StopJoin
<1>6. ASSUME ConsumerStep \/ (\E r \in kept : ReleaseFrame(r)) \/ StopCalled PROVE UNCHANGED batcherVars
  BY <1>6 DEF ConsumerStep, ConsumerPoll, ReleaseFrame, StopCalled
<1>7. CASE UNCHANGED vars
  BY <1>7, <1>2 DEF vars
<1>8. QED BY <1>1, <1>2, <1>3, <1>4, <1>5, <1>6, <1>7 DEF Next, BP!Next

\* The assumptions about the batcher's constants hold.
LEMMA BatcherInvariant == BP!Spec => []BP!IInv
<1>1. IsFiniteSet(Streams) /\ Bufs # {} /\ IsFiniteSet(Bufs) /\ None \notin Bufs /\ MaxBatch \in Nat \ {0}
  BY PipelineAssumption
<1>2. BP!IsFiniteSet(Streams) /\ BP!IsFiniteSet(Bufs)
  BY <1>1 DEF IsFiniteSet, BP!IsFiniteSet
<1>3. QED BY <1>1, <1>2, BP!Invariant DEF BP!ProducersAssumption, BP!BufsAssumption, BP!MaxBatchAssumption

\* Producers, the GPU thread and Stop() call the batcher as its specification allows.
THEOREM UsesBatcher == Spec => BP!Spec
<1>1. Init => BP!Init
  BY DEF Init, B!Init, BP!Init, B!Cardinality, BP!Cardinality
<1>2. QED BY <1>1, StepUsesBatcher, PTL DEF Spec, BP!Spec

-----------------------------------------------------------------------------
(* Who owns a ring slot *)

\* The places a frame's meta can be in, and the metas there, for ready batch slots rs
\* with metas mt, a queue qq, the result pg in Push and the kept results kk.
Places(rs, qq, kk) ==
  ({"batch"} \X rs) \cup ({"queue"} \X DOMAIN qq) \cup ({"push"} \X {0}) \cup ({"kept"} \X kk)

At(rs, mt, qq, pg, kk) ==
  [x \in Places(rs, qq, kk) |->
     IF x[1] = "batch" THEN mt[x[2][1]][x[2][2]]
     ELSE IF x[1] = "queue" THEN qq[x[2]]
     ELSE IF x[1] = "push" THEN pg
     ELSE x[2]]

\* The places whose meta has a ring slot to give back.
Live(A) == {x \in DOMAIN A : A[x].slot # NoSlot}

\* No two places share a ring slot, none shares one with a producer that has claimed it
\* (pc, wt), a slot is in use exactly if someone has it, and holds the frame of the meta
\* that has it.
Own(A, use, pc, wt, cp) ==
  /\ \A x \in Live(A) : A[x].stream \in Streams /\ A[x].slot \in RingSlots
  /\ \A x, y \in Live(A) : A[x].stream = A[y].stream /\ A[x].slot = A[y].slot => x = y
  /\ \A x \in Live(A) : /\ ~(pc[A[x].stream] = "claimed" /\ wt[A[x].stream] = A[x].slot)
                        /\ use[A[x].stream][A[x].slot]
                        /\ A[x].no \in cp[A[x].stream][A[x].slot]
  /\ \A s \in Streams : pc[s] = "claimed" => use[s][wt[s]]
  /\ \A s \in Streams, k \in RingSlots :
       use[s][k] => (pc[s] = "claimed" /\ wt[s] = k) \/ \E x \in Live(A) : Refers(A[x], s, k)

SameFrame(m, n) == m.stream = n.stream /\ m.no = n.no /\ m.slot = n.slot

\* Every live meta of A2 was one of A, and every one of A is in A2 or in D.
Carries(A, A2, D, f) ==
  /\ \A x \in Live(A2) : f[x] \in Live(A) \ D /\ SameFrame(A2[x], A[f[x]])
  /\ \A x, y \in Live(A2) : f[x] = f[y] => x = y
  /\ \A y \in Live(A) \ D : \E x \in Live(A2) : f[x] = y
  /\ D \subseteq Live(A)

\* The ring slots of the metas in D are freed, and no others.
Frees(A, D, use, use2) ==
  \A s \in Streams, k \in RingSlots :
    use2[s][k] <=> use[s][k] /\ ~\E d \in D : Refers(A[d], s, k)

\* The ring slot of one meta is freed.
FreesOne(use, use2, m) ==
  \A s \in Streams, k \in RingSlots : use2[s][k] <=> use[s][k] /\ ~Refers(m, s, k)

\* The producers have claimed what they had claimed.
SameClaims(pc, pc2, wt, wt2) ==
  \A s \in Streams : /\ pc2[s] = "claimed" <=> pc[s] = "claimed"
                     /\ pc[s] = "claimed" => wt2[s] = wt[s] /\ wt[s] \in RingSlots

\* Metas may move, and some may go if their ring slots are freed.
LEMMA Transfer ==
  ASSUME NEW A, NEW A2, NEW use, NEW use2, NEW pc, NEW pc2, NEW wt, NEW wt2, NEW cp, NEW D, NEW f,
         Own(A, use, pc, wt, cp), Carries(A, A2, D, f), Frees(A, D, use, use2),
         SameClaims(pc, pc2, wt, wt2)
  PROVE  Own(A2, use2, pc2, wt2, cp)
<1>1. \A x \in Live(A2) : A2[x].stream \in Streams /\ A2[x].slot \in RingSlots
  BY DEF Own, SameFrame, Carries
<1>2. \A x, y \in Live(A2) : A2[x].stream = A2[y].stream /\ A2[x].slot = A2[y].slot => x = y
  BY DEF Own, SameFrame, Carries
<1>3. ASSUME NEW x \in Live(A2)
      PROVE  /\ ~(pc2[A2[x].stream] = "claimed" /\ wt2[A2[x].stream] = A2[x].slot)
             /\ use2[A2[x].stream][A2[x].slot]
             /\ A2[x].no \in cp[A2[x].stream][A2[x].slot]
  BY <1>1, SMTT(40) DEF Own, SameFrame, Refers, Carries, Frees, SameClaims
<1>4. ASSUME NEW s \in Streams, pc2[s] = "claimed" PROVE use2[s][wt2[s]]
  <2>1. pc[s] = "claimed" /\ wt2[s] = wt[s] /\ wt[s] \in RingSlots /\ use[s][wt[s]]
    BY <1>4 DEF Own, SameClaims
  <2>2. ~\E d \in D : Refers(A[d], s, wt[s])
    BY <2>1 DEF Own, Refers, Carries
  <2>3. QED BY <2>1, <2>2 DEF Frees
<1>5. ASSUME NEW s \in Streams, NEW k \in RingSlots, use2[s][k]
      PROVE  (pc2[s] = "claimed" /\ wt2[s] = k) \/ \E x \in Live(A2) : Refers(A2[x], s, k)
  <2>1. use[s][k] /\ ~\E d \in D : Refers(A[d], s, k)
    BY <1>5 DEF Frees
  <2>2. CASE pc[s] = "claimed" /\ wt[s] = k
    BY <2>2 DEF SameClaims
  <2>3. CASE \E y \in Live(A) : Refers(A[y], s, k)
    <3>1. PICK y \in Live(A) : Refers(A[y], s, k)
      BY <2>3
    <3>2. PICK x \in Live(A2) : f[x] = y
      BY <2>1, <3>1 DEF Carries
    <3>3. QED BY <3>1, <3>2 DEF SameFrame, Refers, Carries
  <2>4. QED BY <2>1, <2>2, <2>3 DEF Own
<1>6. QED BY <1>1, <1>2, <1>3, <1>4, <1>5 DEF Own

\* Where the live metas are.
LEMMA AtFacts ==
  ASSUME NEW rs, NEW mt, NEW qq, NEW pg, NEW kk
  PROVE  /\ \A bi : <<"batch", bi>> \in Live(At(rs, mt, qq, pg, kk))
                      <=> bi \in rs /\ mt[bi[1]][bi[2]].slot # NoSlot
         /\ \A i : <<"queue", i>> \in Live(At(rs, mt, qq, pg, kk))
                      <=> i \in DOMAIN qq /\ qq[i].slot # NoSlot
         /\ <<"push", 0>> \in Live(At(rs, mt, qq, pg, kk)) <=> pg.slot # NoSlot
         /\ \A r : <<"kept", r>> \in Live(At(rs, mt, qq, pg, kk)) <=> r \in kk /\ r.slot # NoSlot
         /\ \A x \in Live(At(rs, mt, qq, pg, kk)) :
              \/ \E bi \in rs : x = <<"batch", bi>>
              \/ \E i \in DOMAIN qq : x = <<"queue", i>>
              \/ x = <<"push", 0>>
              \/ \E r \in kk : x = <<"kept", r>>
         /\ \A bi \in rs : At(rs, mt, qq, pg, kk)[<<"batch", bi>>] = mt[bi[1]][bi[2]]
         /\ \A i \in DOMAIN qq : At(rs, mt, qq, pg, kk)[<<"queue", i>>] = qq[i]
         /\ At(rs, mt, qq, pg, kk)[<<"push", 0>>] = pg
         /\ \A r \in kk : At(rs, mt, qq, pg, kk)[<<"kept", r>>] = r
<1>1. /\ \A bi \in rs : <<"batch", bi>> \in Places(rs, qq, kk)
      /\ \A i \in DOMAIN qq : <<"queue", i>> \in Places(rs, qq, kk)
      /\ <<"push", 0>> \in Places(rs, qq, kk)
      /\ \A r \in kk : <<"kept", r>> \in Places(rs, qq, kk)
  BY DEF Places
<1>2. \A x \in Places(rs, qq, kk) :
        \/ \E bi \in rs : x = <<"batch", bi>>
        \/ \E i \in DOMAIN qq : x = <<"queue", i>>
        \/ x = <<"push", 0>>
        \/ \E r \in kk : x = <<"kept", r>>
  BY DEF Places
<1>3. DOMAIN At(rs, mt, qq, pg, kk) = Places(rs, qq, kk)
  BY DEF At
<1>4. /\ \A bi \in rs : At(rs, mt, qq, pg, kk)[<<"batch", bi>>] = mt[bi[1]][bi[2]]
      /\ \A i \in DOMAIN qq : At(rs, mt, qq, pg, kk)[<<"queue", i>>] = qq[i]
      /\ At(rs, mt, qq, pg, kk)[<<"push", 0>>] = pg
      /\ \A r \in kk : At(rs, mt, qq, pg, kk)[<<"kept", r>>] = r
  BY <1>1 DEF At
<1>5. QED BY <1>1, <1>2, <1>3, <1>4 DEF Live

\* A queue after its oldest result has left it, and after one was queued.
LEMMA TailOf ==
  ASSUME NEW S, NEW qq \in Seq(S), qq # <<>>
  PROVE  /\ 1 \in DOMAIN qq /\ Head(qq) = qq[1] /\ Head(qq) \in S
         /\ Tail(qq) \in Seq(S) /\ DOMAIN Tail(qq) \subseteq Nat /\ DOMAIN qq \subseteq Nat
         /\ \A i \in DOMAIN Tail(qq) : i + 1 \in DOMAIN qq /\ i + 1 # 1 /\ Tail(qq)[i] = qq[i + 1]
         /\ \A i \in DOMAIN qq : i # 1 => i - 1 \in DOMAIN Tail(qq) /\ (i - 1) + 1 = i
<1>1. /\ Len(qq) \in Nat \ {0} /\ DOMAIN qq = 1..Len(qq) /\ Head(qq) = qq[1]
      /\ Tail(qq) \in Seq(S) /\ Len(Tail(qq)) = Len(qq) - 1 /\ DOMAIN Tail(qq) = 1..Len(Tail(qq))
  OBVIOUS
<1>2. \A i \in 1..Len(Tail(qq)) : Tail(qq)[i] = qq[i + 1]
  BY <1>1
<1>3. QED BY <1>1, <1>2

\* What queueing one more result does to a queue.
LEMMA AppendOf ==
  ASSUME NEW S, NEW qq \in Seq(S), NEW m \in S
  PROVE  /\ Append(qq, m) \in Seq(S)
         /\ DOMAIN Append(qq, m) = DOMAIN qq \cup {Len(qq) + 1} /\ Len(qq) + 1 \notin DOMAIN qq
         /\ Append(qq, m)[Len(qq) + 1] = m
         /\ \A i \in DOMAIN qq : Append(qq, m)[i] = qq[i]
  OBVIOUS

\* A frame goes from its batch into Push.
LEMMA BatchToPush ==
  ASSUME NEW rs, NEW mt, NEW mt2, NEW qq, NEW kk, NEW bi \in rs, NEW r,
         NEW use, NEW pc, NEW pc2, NEW wt, NEW wt2, NEW cp,
         \A c \in rs : c # bi => mt2[c[1]][c[2]] = mt[c[1]][c[2]],
         mt2[bi[1]][bi[2]].slot = NoSlot,
         SameFrame(r, mt[bi[1]][bi[2]]),
         Own(At(rs, mt, qq, Abandoned, kk), use, pc, wt, cp),
         SameClaims(pc, pc2, wt, wt2)
  PROVE  Own(At(rs, mt2, qq, r, kk), use, pc2, wt2, cp)
<1>. DEFINE A == At(rs, mt, qq, Abandoned, kk)
            A2 == At(rs, mt2, qq, r, kk)
            D == {}
            f == [x \in Live(A2) |-> IF x = <<"push", 0>> THEN <<"batch", bi>> ELSE x]
<1>1. \A x \in Live(A2) : f[x] \in Live(A) \ D /\ SameFrame(A2[x], A[f[x]])
  BY AtFacts DEF SameFrame, Abandoned
<1>2. \A x, y \in Live(A2) : f[x] = f[y] => x = y
  BY AtFacts DEF Abandoned
<1>3. \A y \in Live(A) \ D : \E x \in Live(A2) : f[x] = y
  <2>1. SUFFICES ASSUME NEW y \in Live(A) \ D PROVE \E x \in Live(A2) : f[x] = y
    OBVIOUS
  <2>2. CASE y = <<"batch", bi>>
    <3>1. mt[bi[1]][bi[2]].slot # NoSlot
      BY <2>2, AtFacts
    <3>2. r.slot # NoSlot
      BY <3>1 DEF SameFrame
    <3>3. <<"push", 0>> \in Live(A2)
      BY <3>2, AtFacts
    <3>4. f[<<"push", 0>>] = y
      BY <2>2, <3>3
    <3>. HIDE DEF A, A2, f
    <3>5. QED BY <3>3, <3>4
  <2>3. CASE y # <<"batch", bi>>
    <3>1. y \in Live(A2) /\ f[y] = y
      BY <2>3, AtFacts DEF Abandoned
    <3>2. QED BY <3>1
  <2>4. QED BY <2>2, <2>3, AtFacts DEF Abandoned
<1>4. D \subseteq Live(A)
  BY AtFacts
<1>5. Frees(A, D, use, use)
  BY DEF Frees
<1>6. Carries(A, A2, D, f)
  BY <1>1, <1>2, <1>3, <1>4 DEF Carries
<1>. HIDE DEF A, A2, D, f
<1>7. Own(A, use, pc, wt, cp) => Own(A2, use, pc2, wt2, cp)
  BY <1>5, <1>6, Transfer
<1>8. QED BY <1>7 DEF A, A2

\* A result that owns nothing goes into Push.
LEMMA EmptyToPush ==
  ASSUME NEW rs, NEW mt, NEW qq, NEW kk, NEW r,
         NEW use, NEW pc, NEW pc2, NEW wt, NEW wt2, NEW cp,
         r.slot = NoSlot,
         Own(At(rs, mt, qq, Abandoned, kk), use, pc, wt, cp),
         SameClaims(pc, pc2, wt, wt2)
  PROVE  Own(At(rs, mt, qq, r, kk), use, pc2, wt2, cp)
<1>. DEFINE A == At(rs, mt, qq, Abandoned, kk)
            A2 == At(rs, mt, qq, r, kk)
            D == {}
            f == [x \in Live(A2) |-> x]
<1>1. \A x \in Live(A2) : f[x] \in Live(A) \ D /\ SameFrame(A2[x], A[f[x]])
  BY AtFacts DEF SameFrame, Abandoned
<1>2. \A x, y \in Live(A2) : f[x] = f[y] => x = y
  BY AtFacts DEF Abandoned
<1>3. \A y \in Live(A) \ D : \E x \in Live(A2) : f[x] = y
  BY AtFacts DEF Abandoned
<1>4. D \subseteq Live(A)
  BY AtFacts
<1>5. Frees(A, D, use, use)
  BY DEF Frees
<1>6. Carries(A, A2, D, f)
  BY <1>1, <1>2, <1>3, <1>4 DEF Carries
<1>. HIDE DEF A, A2, D, f
<1>7. Own(A, use, pc, wt, cp) => Own(A2, use, pc2, wt2, cp)
  BY <1>5, <1>6, Transfer
<1>8. QED BY <1>7 DEF A, A2

\* The result in Push is queued.
LEMMA PushToQueue ==
  ASSUME NEW rs, NEW mt, NEW S, NEW qq \in Seq(S), NEW pg \in S, NEW kk,
         NEW use, NEW pc, NEW pc2, NEW wt, NEW wt2, NEW cp,
         Own(At(rs, mt, qq, pg, kk), use, pc, wt, cp),
         SameClaims(pc, pc2, wt, wt2)
  PROVE  Own(At(rs, mt, Append(qq, pg), Abandoned, kk), use, pc2, wt2, cp)
<1>. DEFINE Q2 == Append(qq, pg)
            last == Len(qq) + 1
            A == At(rs, mt, qq, pg, kk)
            A2 == At(rs, mt, Q2, Abandoned, kk)
            D == {}
            f == [x \in Live(A2) |-> IF x = <<"queue", last>> THEN <<"push", 0>> ELSE x]
<1>0. /\ DOMAIN Q2 = DOMAIN qq \cup {last} /\ last \notin DOMAIN qq
      /\ Q2[last] = pg /\ \A i \in DOMAIN qq : Q2[i] = qq[i]
  BY AppendOf
<1>. HIDE DEF Q2, last
<1>1. \A x \in Live(A2) : f[x] \in Live(A) \ D /\ SameFrame(A2[x], A[f[x]])
  <2>1. SUFFICES ASSUME NEW x \in Live(A2)
                 PROVE  f[x] \in Live(A) \ D /\ SameFrame(A2[x], A[f[x]])
    OBVIOUS
  <2>2. CASE x = <<"queue", last>>
    BY <2>2, <1>0, AtFacts DEF SameFrame
  <2>3. CASE x # <<"queue", last>>
    <3>1. x \in Live(A) /\ A2[x] = A[x]
      BY <2>3, <1>0, AtFacts DEF Abandoned
    <3>2. QED BY <2>3, <3>1 DEF SameFrame
  <2>4. QED BY <2>2, <2>3
<1>2. \A x, y \in Live(A2) : f[x] = f[y] => x = y
  BY AtFacts DEF Abandoned
<1>3. \A y \in Live(A) \ D : \E x \in Live(A2) : f[x] = y
  <2>1. SUFFICES ASSUME NEW y \in Live(A) \ D PROVE \E x \in Live(A2) : f[x] = y
    OBVIOUS
  <2>2. CASE y = <<"push", 0>>
    <3>1. <<"queue", last>> \in Live(A2)
      BY <2>2, <1>0, AtFacts
    <3>2. f[<<"queue", last>>] = y
      BY <2>2, <3>1
    <3>. HIDE DEF A, A2, f
    <3>3. QED BY <3>1, <3>2
  <2>3. CASE y # <<"push", 0>>
    <3>1. y \in Live(A2)
      BY <2>3, <1>0, AtFacts DEF Abandoned
    <3>2. y # <<"queue", last>>
      BY <1>0, AtFacts
    <3>3. f[y] = y
      BY <3>1, <3>2
    <3>. HIDE DEF A, A2, f
    <3>4. QED BY <3>1, <3>3
  <2>4. QED BY <2>2, <2>3
<1>4. D \subseteq Live(A)
  OBVIOUS
<1>5. Frees(A, D, use, use)
  BY DEF Frees
<1>6. Carries(A, A2, D, f)
  BY <1>1, <1>2, <1>3, <1>4 DEF Carries
<1>. HIDE DEF A, A2, D, f
<1>7. Own(A, use, pc, wt, cp) => Own(A2, use, pc2, wt2, cp)
  BY <1>5, <1>6, Transfer
<1>8. QED BY <1>7 DEF A, A2, Q2

\* The result in Push dies.
LEMMA PushDies ==
  ASSUME NEW rs, NEW mt, NEW qq, NEW pg, NEW kk,
         NEW use, NEW use2, NEW pc, NEW pc2, NEW wt, NEW wt2, NEW cp,
         FreesOne(use, use2, pg),
         Own(At(rs, mt, qq, pg, kk), use, pc, wt, cp),
         SameClaims(pc, pc2, wt, wt2)
  PROVE  Own(At(rs, mt, qq, Abandoned, kk), use2, pc2, wt2, cp)
<1>. DEFINE A == At(rs, mt, qq, pg, kk)
            A2 == At(rs, mt, qq, Abandoned, kk)
            D == IF pg.slot = NoSlot THEN {} ELSE {<<"push", 0>>}
            f == [x \in Live(A2) |-> x]
<1>1. \A x \in Live(A2) : f[x] \in Live(A) \ D /\ SameFrame(A2[x], A[f[x]])
  BY AtFacts DEF SameFrame, Abandoned
<1>2. \A x, y \in Live(A2) : f[x] = f[y] => x = y
  BY AtFacts DEF Abandoned
<1>3. \A y \in Live(A) \ D : \E x \in Live(A2) : f[x] = y
  BY AtFacts DEF Abandoned
<1>4. D \subseteq Live(A)
  BY AtFacts
<1>5. Frees(A, D, use, use2)
  <2>1. CASE pg.slot = NoSlot
    <3>1. \A s \in Streams, k \in RingSlots : ~Refers(pg, s, k)
      BY <2>1, PipelineAssumption DEF Refers, NoSlot, RingSlots
    <3>2. QED BY <2>1, <3>1 DEF Frees, FreesOne
  <2>2. CASE pg.slot # NoSlot
    <3>1. D = {<<"push", 0>>} /\ A[<<"push", 0>>] = pg
      BY <2>2, AtFacts
    <3>. HIDE DEF A, D
    <3>2. QED BY <3>1 DEF Frees, FreesOne
  <2>3. QED BY <2>1, <2>2
<1>6. Carries(A, A2, D, f)
  BY <1>1, <1>2, <1>3, <1>4 DEF Carries
<1>. HIDE DEF A, A2, D, f
<1>7. Own(A, use, pc, wt, cp) => Own(A2, use2, pc2, wt2, cp)
  BY <1>5, <1>6, Transfer
<1>8. QED BY <1>7 DEF A, A2

\* The oldest result queued dies.
LEMMA HeadDies ==
  ASSUME NEW rs, NEW mt, NEW S, NEW qq \in Seq(S), NEW pg, NEW kk,
         NEW use, NEW use2, NEW pc, NEW pc2, NEW wt, NEW wt2, NEW cp,
         qq # <<>>,
         FreesOne(use, use2, Head(qq)),
         Own(At(rs, mt, qq, pg, kk), use, pc, wt, cp),
         SameClaims(pc, pc2, wt, wt2)
  PROVE  Own(At(rs, mt, Tail(qq), pg, kk), use2, pc2, wt2, cp)
<1>. DEFINE Q2 == Tail(qq)
            A == At(rs, mt, qq, pg, kk)
            A2 == At(rs, mt, Q2, pg, kk)
            D == IF Head(qq).slot = NoSlot THEN {} ELSE {<<"queue", 1>>}
            f == [x \in Live(A2) |-> IF x[1] = "queue" THEN <<"queue", x[2] + 1>> ELSE x]
<1>0. /\ 1 \in DOMAIN qq /\ Head(qq) = qq[1]
      /\ DOMAIN Q2 \subseteq Nat /\ DOMAIN qq \subseteq Nat
      /\ \A i \in DOMAIN Q2 : i + 1 \in DOMAIN qq /\ i + 1 # 1 /\ Q2[i] = qq[i + 1]
      /\ \A i \in DOMAIN qq : i # 1 => i - 1 \in DOMAIN Q2 /\ (i - 1) + 1 = i
  BY TailOf
<1>. HIDE DEF Q2
<1>d. D \subseteq Live(A) /\ \A x \in Live(A) : x \in D <=> x = <<"queue", 1>>
  BY <1>0, AtFacts
<1>1. \A x \in Live(A2) : f[x] \in Live(A) \ D /\ SameFrame(A2[x], A[f[x]])
  <2>1. SUFFICES ASSUME NEW x \in Live(A2)
                 PROVE  f[x] \in Live(A) \ D /\ SameFrame(A2[x], A[f[x]])
    OBVIOUS
  <2>. HIDE DEF D
  <2>2. ASSUME NEW i \in DOMAIN Q2, x = <<"queue", i>>
        PROVE  f[x] \in Live(A) \ D /\ SameFrame(A2[x], A[f[x]])
    <3>1. f[x] = <<"queue", i + 1>> /\ f[x] # <<"queue", 1>>
      BY <2>2, <1>0
    <3>2. Q2[i].slot # NoSlot
      BY <2>2, AtFacts
    <3>3. f[x] \in Live(A)
      BY <3>1, <3>2, <1>0, AtFacts, SMTT(40)
    <3>4. A2[x] = Q2[i] /\ A[f[x]] = qq[i + 1]
      BY <2>2, <3>1, <1>0, AtFacts, SMTT(40)
    <3>5. QED BY <3>1, <3>3, <3>4, <1>0, <1>d DEF SameFrame
  <2>3. CASE ~\E i \in DOMAIN Q2 : x = <<"queue", i>>
    <3>1. x[1] # "queue" /\ x \in Live(A) /\ A2[x] = A[x]
      BY <2>3, AtFacts
    <3>2. f[x] = x /\ x # <<"queue", 1>>
      BY <3>1
    <3>3. QED BY <3>1, <3>2, <1>d DEF SameFrame
  <2>4. QED BY <2>2, <2>3
<1>2. \A x, y \in Live(A2) : f[x] = f[y] => x = y
  <2>1. \A x \in Live(A2) : x[1] = "queue" => \E i \in DOMAIN Q2 : x = <<"queue", i>>
    BY AtFacts
  <2>2. \A i, j \in DOMAIN Q2 : i + 1 = j + 1 => i = j
    BY <1>0
  <2>3. \A x \in Live(A2) : x[1] # "queue" => f[x] = x
    OBVIOUS
  <2>4. \A i \in DOMAIN Q2 : <<"queue", i>> \in Live(A2) => f[<<"queue", i>>] = <<"queue", i + 1>>
    OBVIOUS
  <2>. HIDE DEF f
  <2>5. QED BY <2>1, <2>2, <2>3, <2>4, SMTT(40)
<1>3. \A y \in Live(A) \ D : \E x \in Live(A2) : f[x] = y
  <2>1. SUFFICES ASSUME NEW y \in Live(A) \ D PROVE \E x \in Live(A2) : f[x] = y
    OBVIOUS
  <2>2. ASSUME NEW i \in DOMAIN qq, y = <<"queue", i>> PROVE \E x \in Live(A2) : f[x] = y
    <3>1. i # 1 /\ qq[i].slot # NoSlot
      BY <2>2, <1>d, AtFacts
    <3>2. i - 1 \in DOMAIN Q2 /\ Q2[i - 1].slot # NoSlot
      BY <3>1, <1>0
    <3>3. <<"queue", i - 1>> \in Live(A2)
      BY <3>2, AtFacts
    <3>4. f[<<"queue", i - 1>>] = y
      BY <2>2, <3>1, <3>3, <1>0
    <3>. HIDE DEF A, A2, f
    <3>5. QED BY <3>3, <3>4
  <2>3. CASE ~\E i \in DOMAIN qq : y = <<"queue", i>>
    <3>1. y[1] # "queue" /\ y \in Live(A2)
      BY <2>3, AtFacts
    <3>2. f[y] = y
      BY <3>1
    <3>. HIDE DEF A, A2, f
    <3>3. QED BY <3>1, <3>2
  <2>4. QED BY <2>2, <2>3
<1>5. Frees(A, D, use, use2)
  <2>1. CASE Head(qq).slot = NoSlot
    <3>1. \A s \in Streams, k \in RingSlots : ~Refers(Head(qq), s, k)
      BY <2>1, PipelineAssumption DEF Refers, NoSlot, RingSlots
    <3>2. QED BY <2>1, <3>1 DEF Frees, FreesOne
  <2>2. CASE Head(qq).slot # NoSlot
    <3>1. D = {<<"queue", 1>>} /\ A[<<"queue", 1>>] = Head(qq)
      BY <2>2, <1>0, AtFacts
    <3>. HIDE DEF A, D
    <3>2. QED BY <3>1 DEF Frees, FreesOne
  <2>3. QED BY <2>1, <2>2
<1>. HIDE DEF A, A2, D, f
<1>6. Carries(A, A2, D, f)
  BY <1>1, <1>2, <1>3, <1>d DEF Carries
<1>7. Own(A, use, pc, wt, cp) => Own(A2, use2, pc2, wt2, cp)
  BY <1>5, <1>6, Transfer
<1>8. QED BY <1>7 DEF A, A2, Q2

\* The oldest result queued is kept by the consumer.
LEMMA HeadKept ==
  ASSUME NEW rs, NEW mt, NEW S, NEW qq \in Seq(S), NEW pg, NEW kk,
         NEW use, NEW pc, NEW pc2, NEW wt, NEW wt2, NEW cp,
         qq # <<>>,
         Own(At(rs, mt, qq, pg, kk), use, pc, wt, cp),
         SameClaims(pc, pc2, wt, wt2)
  PROVE  Own(At(rs, mt, Tail(qq), pg, kk \cup {Head(qq)}), use, pc2, wt2, cp)
<1>. DEFINE Q2 == Tail(qq)
            A == At(rs, mt, qq, pg, kk)
            h == Head(qq)
            A2 == At(rs, mt, Q2, pg, kk \cup {h})
            D == {}
            f == [x \in Live(A2) |-> IF x[1] = "queue" THEN <<"queue", x[2] + 1>>
                                  ELSE IF x = <<"kept", h>> THEN <<"queue", 1>> ELSE x]
<1>0. /\ 1 \in DOMAIN qq /\ Head(qq) = qq[1]
      /\ DOMAIN Q2 \subseteq Nat /\ DOMAIN qq \subseteq Nat
      /\ \A i \in DOMAIN Q2 : i + 1 \in DOMAIN qq /\ i + 1 # 1 /\ Q2[i] = qq[i + 1]
      /\ \A i \in DOMAIN qq : i # 1 => i - 1 \in DOMAIN Q2 /\ (i - 1) + 1 = i
  BY TailOf
<1>. HIDE DEF Q2
<1>d. h.slot # NoSlot => h \notin kk
  <2>1. ASSUME h \in kk, h.slot # NoSlot PROVE FALSE
    <3>1. /\ <<"kept", h>> \in Live(A) /\ A[<<"kept", h>>] = h
          /\ <<"queue", 1>> \in Live(A) /\ A[<<"queue", 1>>] = h
      BY <2>1, <1>0, AtFacts
    <3>. HIDE DEF A, h
    <3>2. \A x, y \in Live(A) : A[x].stream = A[y].stream /\ A[x].slot = A[y].slot => x = y
      BY DEF Own, A
    <3>3. <<"kept", h>> = <<"queue", 1>>
      BY <3>1, <3>2
    <3>4. QED BY <3>3
  <2>2. QED BY <2>1
<1>1. \A x \in Live(A2) : f[x] \in Live(A) \ D /\ SameFrame(A2[x], A[f[x]])
  <2>1. SUFFICES ASSUME NEW x \in Live(A2)
                 PROVE  f[x] \in Live(A) /\ SameFrame(A2[x], A[f[x]])
    OBVIOUS
  <2>2. ASSUME NEW i \in DOMAIN Q2, x = <<"queue", i>>
        PROVE  f[x] \in Live(A) /\ SameFrame(A2[x], A[f[x]])
    <3>1. f[x] = <<"queue", i + 1>>
      BY <2>2
    <3>2. Q2[i].slot # NoSlot
      BY <2>2, AtFacts
    <3>3. f[x] \in Live(A)
      BY <3>1, <3>2, <1>0, AtFacts, SMTT(40)
    <3>4. A2[x] = Q2[i] /\ A[f[x]] = qq[i + 1]
      BY <2>2, <3>1, <1>0, AtFacts, SMTT(40)
    <3>5. QED BY <3>1, <3>3, <3>4, <1>0 DEF SameFrame
  <2>3. CASE x = <<"kept", h>>
    <3>1. f[x] = <<"queue", 1>>
      BY <2>3
    <3>2. h.slot # NoSlot /\ A2[x] = h
      BY <2>3, AtFacts
    <3>3. f[x] \in Live(A) /\ A[f[x]] = h
      BY <3>1, <3>2, <1>0, AtFacts
    <3>4. QED BY <3>2, <3>3 DEF SameFrame
  <2>4. CASE x # <<"kept", h>> /\ ~\E i \in DOMAIN Q2 : x = <<"queue", i>>
    <3>1. x[1] # "queue" /\ x \in Live(A) /\ A2[x] = A[x]
      BY <2>4, AtFacts, SMTT(40)
    <3>2. f[x] = x
      BY <3>1, <2>4
    <3>3. QED BY <3>1, <3>2 DEF SameFrame
  <2>5. QED BY <2>2, <2>3, <2>4
<1>2. \A x, y \in Live(A2) : f[x] = f[y] => x = y
  <2>1. \A x \in Live(A2) : x[1] = "queue" => \E i \in DOMAIN Q2 : x = <<"queue", i>>
    BY AtFacts
  <2>2. \A i, j \in DOMAIN Q2 : i + 1 # 1 /\ (i + 1 = j + 1 => i = j)
    BY <1>0
  <2>3. \A x \in Live(A2) : x[1] # "queue" /\ x # <<"kept", h>> => f[x] = x
    OBVIOUS
  <2>4. \A i \in DOMAIN Q2 : <<"queue", i>> \in Live(A2) => f[<<"queue", i>>] = <<"queue", i + 1>>
    OBVIOUS
  <2>5. <<"kept", h>> \in Live(A2) => f[<<"kept", h>>] = <<"queue", 1>>
    OBVIOUS
  <2>6. ASSUME NEW x \in Live(A2), NEW y \in Live(A2), f[x] = f[y], NEW i \in DOMAIN Q2, x = <<"queue", i>>
        PROVE  x = y
    <3>1. f[x] = <<"queue", i + 1>> /\ i + 1 # 1
      BY <2>2, <2>4, <2>6
    <3>. HIDE DEF f
    <3>2. CASE y[1] = "queue"
      <4>1. PICK j \in DOMAIN Q2 : y = <<"queue", j>>
        BY <2>1, <3>2
      <4>2. f[y] = <<"queue", j + 1>>
        BY <2>4, <4>1
      <4>3. i + 1 = j + 1
        BY <2>6, <3>1, <4>2
      <4>4. QED BY <2>2, <2>6, <4>1, <4>3
    <3>3. CASE y = <<"kept", h>>
      BY <2>5, <2>6, <3>1, <3>3
    <3>4. CASE y[1] # "queue" /\ y # <<"kept", h>>
      <4>1. f[y] = y /\ y[1] # "queue"
        BY <2>3, <3>4
      <4>2. <<"queue", i + 1>>[1] = "queue"
        OBVIOUS
      <4>3. QED BY <2>6, <3>1, <4>1, <4>2
    <3>5. QED BY <3>2, <3>3, <3>4
  <2>7. ASSUME NEW x \in Live(A2), NEW y \in Live(A2), f[x] = f[y], x[1] # "queue", y[1] # "queue"
        PROVE  x = y
    <3>1. <<"queue", 1>>[1] = "queue"
      OBVIOUS
    <3>. HIDE DEF f
    <3>2. QED BY <2>3, <2>5, <2>7, <3>1
  <2>. HIDE DEF f
  <2>8. QED BY <2>1, <2>6, <2>7
<1>3. \A y \in Live(A) \ D : \E x \in Live(A2) : f[x] = y
  <2>1. SUFFICES ASSUME NEW y \in Live(A) PROVE \E x \in Live(A2) : f[x] = y
    OBVIOUS
  <2>2. CASE y = <<"queue", 1>>
    <3>1. h.slot # NoSlot
      BY <2>2, <1>0, AtFacts
    <3>2. <<"kept", h>> \in Live(A2)
      BY <3>1, AtFacts
    <3>3. f[<<"kept", h>>] = y
      BY <2>2, <3>2
    <3>. HIDE DEF A, A2, f
    <3>4. QED BY <3>2, <3>3
  <2>3. ASSUME NEW i \in DOMAIN qq, y = <<"queue", i>>, i # 1
        PROVE  \E x \in Live(A2) : f[x] = y
    <3>1. qq[i].slot # NoSlot
      BY <2>3, AtFacts
    <3>2. i - 1 \in DOMAIN Q2 /\ Q2[i - 1].slot # NoSlot
      BY <2>3, <3>1, <1>0
    <3>3. <<"queue", i - 1>> \in Live(A2)
      BY <3>2, AtFacts
    <3>4. f[<<"queue", i - 1>>] = y
      BY <2>3, <3>1, <3>3, <1>0
    <3>. HIDE DEF A, A2, f
    <3>5. QED BY <3>3, <3>4
  <2>4. CASE ~\E i \in DOMAIN qq : y = <<"queue", i>>
    <3>1. y[1] # "queue" /\ y \in Live(A2)
      BY <2>4, AtFacts
    <3>2. y # <<"kept", h>>
      <4>1. y = <<"kept", h>> => h \in kk /\ h.slot # NoSlot
        BY AtFacts
      <4>2. QED BY <4>1, <1>d
    <3>3. f[y] = y
      BY <3>1, <3>2
    <3>. HIDE DEF A, A2, f
    <3>4. QED BY <3>1, <3>3
  <2>5. QED BY <2>2, <2>3, <2>4
<1>4. D \subseteq Live(A)
  OBVIOUS
<1>5. Frees(A, D, use, use)
  BY DEF Frees
<1>. HIDE DEF A, A2, D, f
<1>6. Carries(A, A2, D, f)
  BY <1>1, <1>2, <1>3, <1>4 DEF Carries
<1>7. Own(A, use, pc, wt, cp) => Own(A2, use, pc2, wt2, cp)
  BY <1>5, <1>6, Transfer
<1>8. QED BY <1>7 DEF A, A2, Q2, h

\* A kept result dies.
LEMMA KeptDies ==
  ASSUME NEW rs, NEW mt, NEW qq, NEW pg, NEW kk, NEW r \in kk,
         NEW use, NEW use2, NEW pc, NEW pc2, NEW wt, NEW wt2, NEW cp,
         FreesOne(use, use2, r),
         Own(At(rs, mt, qq, pg, kk), use, pc, wt, cp),
         SameClaims(pc, pc2, wt, wt2)
  PROVE  Own(At(rs, mt, qq, pg, kk \ {r}), use2, pc2, wt2, cp)
<1>. DEFINE A == At(rs, mt, qq, pg, kk)
            A2 == At(rs, mt, qq, pg, kk \ {r})
            D == IF r.slot = NoSlot THEN {} ELSE {<<"kept", r>>}
            f == [x \in Live(A2) |-> x]
<1>1. \A x \in Live(A2) : f[x] \in Live(A) \ D /\ SameFrame(A2[x], A[f[x]])
  BY AtFacts DEF SameFrame, Abandoned
<1>2. \A x, y \in Live(A2) : f[x] = f[y] => x = y
  BY AtFacts DEF Abandoned
<1>3. \A y \in Live(A) \ D : \E x \in Live(A2) : f[x] = y
  BY AtFacts DEF Abandoned
<1>4. D \subseteq Live(A)
  BY AtFacts
<1>5. Frees(A, D, use, use2)
  <2>1. CASE r.slot = NoSlot
    <3>1. \A s \in Streams, k \in RingSlots : ~Refers(r, s, k)
      BY <2>1, PipelineAssumption DEF Refers, NoSlot, RingSlots
    <3>2. QED BY <2>1, <3>1 DEF Frees, FreesOne
  <2>2. CASE r.slot # NoSlot
    <3>1. D = {<<"kept", r>>} /\ A[<<"kept", r>>] = r
      BY <2>2, AtFacts
    <3>. HIDE DEF A, D
    <3>2. QED BY <3>1 DEF Frees, FreesOne
  <2>3. QED BY <2>1, <2>2
<1>6. Carries(A, A2, D, f)
  BY <1>1, <1>2, <1>3, <1>4 DEF Carries
<1>. HIDE DEF A, A2, D, f
<1>7. Own(A, use, pc, wt, cp) => Own(A2, use2, pc2, wt2, cp)
  BY <1>5, <1>6, Transfer
<1>8. QED BY <1>7 DEF A, A2

\* The slot of a batch gives its ring slot back.
LEMMA BatchDies ==
  ASSUME NEW rs, NEW mt, NEW mt2, NEW qq, NEW pg, NEW kk, NEW bi \in rs,
         NEW use, NEW use2, NEW pc, NEW pc2, NEW wt, NEW wt2, NEW cp,
         \A c \in rs : c # bi => mt2[c[1]][c[2]] = mt[c[1]][c[2]],
         mt2[bi[1]][bi[2]].slot = NoSlot,
         FreesOne(use, use2, mt[bi[1]][bi[2]]),
         Own(At(rs, mt, qq, pg, kk), use, pc, wt, cp),
         SameClaims(pc, pc2, wt, wt2)
  PROVE  Own(At(rs, mt2, qq, pg, kk), use2, pc2, wt2, cp)
<1>. DEFINE A == At(rs, mt, qq, pg, kk)
            A2 == At(rs, mt2, qq, pg, kk)
            D == IF mt[bi[1]][bi[2]].slot = NoSlot THEN {} ELSE {<<"batch", bi>>}
            f == [x \in Live(A2) |-> x]
<1>1. \A x \in Live(A2) : f[x] \in Live(A) \ D /\ SameFrame(A2[x], A[f[x]])
  BY AtFacts DEF SameFrame, Abandoned
<1>2. \A x, y \in Live(A2) : f[x] = f[y] => x = y
  BY AtFacts DEF Abandoned
<1>3. \A y \in Live(A) \ D : \E x \in Live(A2) : f[x] = y
  BY AtFacts DEF Abandoned
<1>4. D \subseteq Live(A)
  BY AtFacts
<1>5. Frees(A, D, use, use2)
  <2>1. CASE mt[bi[1]][bi[2]].slot = NoSlot
    <3>1. \A s \in Streams, k \in RingSlots : ~Refers(mt[bi[1]][bi[2]], s, k)
      BY <2>1, PipelineAssumption DEF Refers, NoSlot, RingSlots
    <3>2. QED BY <2>1, <3>1 DEF Frees, FreesOne
  <2>2. CASE mt[bi[1]][bi[2]].slot # NoSlot
    <3>1. D = {<<"batch", bi>>} /\ A[<<"batch", bi>>] = mt[bi[1]][bi[2]]
      BY <2>2, AtFacts
    <3>. HIDE DEF A, D
    <3>2. QED BY <3>1 DEF Frees, FreesOne
  <2>3. QED BY <2>1, <2>2
<1>6. Carries(A, A2, D, f)
  BY <1>1, <1>2, <1>3, <1>4 DEF Carries
<1>. HIDE DEF A, A2, D, f
<1>7. Own(A, use, pc, wt, cp) => Own(A2, use2, pc2, wt2, cp)
  BY <1>5, <1>6, Transfer
<1>8. QED BY <1>7 DEF A, A2

\* Ready slots come and go while they own nothing.
LEMMA ReadyChanges ==
  ASSUME NEW rs, NEW rs2, NEW mt, NEW mt2, NEW qq, NEW pg, NEW kk,
         NEW use, NEW pc, NEW pc2, NEW wt, NEW wt2, NEW cp,
         \A c \in rs2 : IF c \in rs THEN mt2[c[1]][c[2]] = mt[c[1]][c[2]] ELSE mt2[c[1]][c[2]].slot = NoSlot,
         \A c \in rs \ rs2 : mt[c[1]][c[2]].slot = NoSlot,
         Own(At(rs, mt, qq, pg, kk), use, pc, wt, cp),
         SameClaims(pc, pc2, wt, wt2)
  PROVE  Own(At(rs2, mt2, qq, pg, kk), use, pc2, wt2, cp)
<1>. DEFINE A == At(rs, mt, qq, pg, kk)
            A2 == At(rs2, mt2, qq, pg, kk)
            D == {}
            f == [x \in Live(A2) |-> x]
<1>1. \A x \in Live(A2) : f[x] \in Live(A) \ D /\ SameFrame(A2[x], A[f[x]])
  BY AtFacts DEF SameFrame, Abandoned
<1>2. \A x, y \in Live(A2) : f[x] = f[y] => x = y
  BY AtFacts DEF Abandoned
<1>3. \A y \in Live(A) \ D : \E x \in Live(A2) : f[x] = y
  BY AtFacts DEF Abandoned
<1>4. D \subseteq Live(A)
  BY AtFacts
<1>5. Frees(A, D, use, use)
  BY DEF Frees
<1>6. Carries(A, A2, D, f)
  BY <1>1, <1>2, <1>3, <1>4 DEF Carries
<1>. HIDE DEF A, A2, D, f
<1>7. Own(A, use, pc, wt, cp) => Own(A2, use, pc2, wt2, cp)
  BY <1>5, <1>6, Transfer
<1>8. QED BY <1>7 DEF A, A2

\* Everybody's claims but those of s.
OtherClaims(s, pc, pc2, wt, wt2) ==
  \A t \in Streams \ {s} : /\ pc2[t] = "claimed" <=> pc[t] = "claimed"
                           /\ pc[t] = "claimed" => wt2[t] = wt[t] /\ wt[t] \in RingSlots

\* Slot k of stream s is taken, or given back, or filled with frame n.
SlotTaken(use, use2, s, k) ==
  \A t \in Streams, j \in RingSlots : use2[t][j] <=> use[t][j] \/ (t = s /\ j = k)

SlotReturned(use, use2, s, k) ==
  \A t \in Streams, j \in RingSlots : use2[t][j] <=> use[t][j] /\ ~(t = s /\ j = k)

SlotFilled(cp, cp2, s, k, n) ==
  /\ n \in cp2[s][k]
  /\ \A t \in Streams, j \in RingSlots : ~(t = s /\ j = k) => cp2[t][j] = cp[t][j]

\* A producer claims a free ring slot.
LEMMA SlotClaimed ==
  ASSUME NEW A, NEW use, NEW use2, NEW pc, NEW pc2, NEW wt, NEW wt2, NEW cp,
         NEW s \in Streams, NEW k \in RingSlots, pc[s] # "claimed", ~use[s][k],
         pc2[s] = "claimed", wt2[s] = k,
         OtherClaims(s, pc, pc2, wt, wt2),
         SlotTaken(use, use2, s, k),
         Own(A, use, pc, wt, cp)
  PROVE  Own(A, use2, pc2, wt2, cp)
<1>1. \A x \in Live(A) : A[x].stream \in Streams /\ A[x].slot \in RingSlots
  BY DEF Own
<1>2. ASSUME NEW x \in Live(A)
      PROVE  /\ ~(pc2[A[x].stream] = "claimed" /\ wt2[A[x].stream] = A[x].slot)
             /\ use2[A[x].stream][A[x].slot]
             /\ A[x].no \in cp[A[x].stream][A[x].slot]
  BY <1>1 DEF Own, OtherClaims, SlotTaken
<1>3. ASSUME NEW t \in Streams, pc2[t] = "claimed" PROVE use2[t][wt2[t]]
  BY <1>3 DEF Own, OtherClaims, SlotTaken
<1>4. ASSUME NEW t \in Streams, NEW j \in RingSlots, use2[t][j]
      PROVE  (pc2[t] = "claimed" /\ wt2[t] = j) \/ \E x \in Live(A) : Refers(A[x], t, j)
  BY <1>4 DEF Own, OtherClaims, SlotTaken
<1>5. QED BY <1>1, <1>2, <1>3, <1>4 DEF Own

\* A producer gives its claim back.
LEMMA ClaimReturned ==
  ASSUME NEW A, NEW use, NEW use2, NEW pc, NEW pc2, NEW wt, NEW wt2, NEW cp,
         NEW s \in Streams, pc[s] = "claimed", wt[s] \in RingSlots, pc2[s] # "claimed",
         OtherClaims(s, pc, pc2, wt, wt2),
         SlotReturned(use, use2, s, wt[s]),
         Own(A, use, pc, wt, cp)
  PROVE  Own(A, use2, pc2, wt2, cp)
<1>1. \A x \in Live(A) : A[x].stream \in Streams /\ A[x].slot \in RingSlots
  BY DEF Own
<1>2. ASSUME NEW x \in Live(A)
      PROVE  /\ ~(pc2[A[x].stream] = "claimed" /\ wt2[A[x].stream] = A[x].slot)
             /\ use2[A[x].stream][A[x].slot]
             /\ A[x].no \in cp[A[x].stream][A[x].slot]
  BY <1>1 DEF Own, OtherClaims, SlotReturned
<1>3. ASSUME NEW t \in Streams, pc2[t] = "claimed" PROVE use2[t][wt2[t]]
  BY <1>3 DEF Own, OtherClaims, SlotReturned
<1>4. ASSUME NEW t \in Streams, NEW j \in RingSlots, use2[t][j]
      PROVE  (pc2[t] = "claimed" /\ wt2[t] = j) \/ \E x \in Live(A) : Refers(A[x], t, j)
  BY <1>4 DEF Own, OtherClaims, SlotReturned
<1>5. QED BY <1>1, <1>2, <1>3, <1>4 DEF Own

\* A producer copies its frame into the slot it has claimed and passes it on with the
\* meta of its batch slot.
LEMMA FramePublished ==
  ASSUME NEW rs, NEW rs2, NEW mt, NEW mt2, NEW qq, NEW pg, NEW kk,
         NEW use, NEW pc, NEW pc2, NEW wt, NEW wt2, NEW cp, NEW cp2,
         NEW s \in Streams, NEW bi, NEW n, bi \notin rs, rs2 = rs \cup {bi},
         \A c \in rs : mt2[c[1]][c[2]] = mt[c[1]][c[2]],
         mt2[bi[1]][bi[2]] = [stream |-> s, no |-> n, slot |-> wt[s]],
         pc[s] = "claimed", wt[s] \in RingSlots, pc2[s] # "claimed",
         OtherClaims(s, pc, pc2, wt, wt2),
         SlotFilled(cp, cp2, s, wt[s], n),
         Own(At(rs, mt, qq, pg, kk), use, pc, wt, cp)
  PROVE  Own(At(rs2, mt2, qq, pg, kk), use, pc2, wt2, cp2)
<1>. DEFINE A == At(rs, mt, qq, pg, kk)
            A2 == At(rs2, mt2, qq, pg, kk)
            new == <<"batch", bi>>
<1>1. wt[s] # NoSlot
  BY PipelineAssumption DEF NoSlot, RingSlots
<1>2. new \in Live(A2) /\ new \notin Live(A) /\ A2[new] = [stream |-> s, no |-> n, slot |-> wt[s]]
  <2>1. bi \in rs2
    OBVIOUS
  <2>2. A2[new] = mt2[bi[1]][bi[2]]
    BY <2>1, AtFacts
  <2>3. mt2[bi[1]][bi[2]].slot # NoSlot
    BY <1>1
  <2>4. new \in Live(A2)
    BY <2>1, <2>3, AtFacts
  <2>5. new \notin Live(A)
    BY AtFacts
  <2>6. QED BY <2>2, <2>4, <2>5
<1>3. \A x \in Live(A2) : x # new => x \in Live(A) /\ A2[x] = A[x]
  BY AtFacts
<1>4. \A x \in Live(A) : x \in Live(A2)
  BY AtFacts
<1>5. Own(A, use, pc, wt, cp)
  OBVIOUS
<1>. HIDE DEF A, A2, new
<1>6. \A x \in Live(A2) : A2[x].stream \in Streams /\ A2[x].slot \in RingSlots
  BY <1>2, <1>3, <1>5 DEF Own
<1>7. \A x \in Live(A) : ~(A[x].stream = s /\ A[x].slot = wt[s])
  BY <1>5 DEF Own
<1>8. \A x, y \in Live(A2) : A2[x].stream = A2[y].stream /\ A2[x].slot = A2[y].slot => x = y
  BY <1>2, <1>3, <1>5, <1>7 DEF Own
<1>9. ASSUME NEW x \in Live(A2)
      PROVE  /\ ~(pc2[A2[x].stream] = "claimed" /\ wt2[A2[x].stream] = A2[x].slot)
             /\ use[A2[x].stream][A2[x].slot]
             /\ A2[x].no \in cp2[A2[x].stream][A2[x].slot]
  <2>1. CASE x = new
    BY <1>2, <1>5, <2>1 DEF Own, SlotFilled
  <2>2. CASE x # new
    BY <1>3, <1>5, <1>6, <1>7, <2>2 DEF Own, OtherClaims, SlotFilled
  <2>3. QED BY <2>1, <2>2
<1>10. ASSUME NEW t \in Streams, pc2[t] = "claimed" PROVE use[t][wt2[t]]
  BY <1>5, <1>10 DEF Own, OtherClaims, SlotFilled
<1>11. ASSUME NEW t \in Streams, NEW j \in RingSlots, use[t][j]
       PROVE  (pc2[t] = "claimed" /\ wt2[t] = j) \/ \E x \in Live(A2) : Refers(A2[x], t, j)
  <2>1. CASE t = s /\ j = wt[s]
    BY <1>2, <2>1 DEF Refers
  <2>2. CASE pc[t] = "claimed" /\ wt[t] = j /\ t # s
    BY <2>2 DEF OtherClaims
  <2>3. CASE \E x \in Live(A) : Refers(A[x], t, j)
    BY <1>2, <1>3, <1>4, <2>3
  <2>4. QED BY <1>5, <1>11, <2>1, <2>2, <2>3 DEF Own
<1>12. Own(A2, use, pc2, wt2, cp2)
  BY <1>6, <1>8, <1>9, <1>10, <1>11 DEF Own
<1>13. QED BY <1>12 DEF A2

-----------------------------------------------------------------------------
(* The invariant *)

\* What the batcher promises the threads that share a buffer.
BatchFacts ==
  /\ allocated \in [Bufs -> 0..MaxBatch]
  /\ filling \in Bufs \cup {None} /\ free_bufs \in SUBSET Bufs
  /\ prod \in [Streams -> {"out", "space", "woken", "writing", "refused", "done"}]
  /\ held \in [Streams -> Bufs \cup {None}] /\ slot \in [Streams -> 0..(MaxBatch - 1)]
  /\ \A s \in Streams : prod[s] = "writing" <=> held[s] # None
  /\ \A s, t \in Streams : held[s] # None /\ held[s] = held[t] /\ slot[s] = slot[t] => s = t
  /\ \A s \in Streams : held[s] # None => slot[s] < allocated[held[s]]
  /\ \A b \in free_bufs : allocated[b] = 0
  /\ taken # None => taken \notin free_bufs \cup {filling}
  /\ gpu = "busy" => /\ taken \in Bufs /\ allocated[taken] > 0
                     /\ \A s \in Streams : held[s] # taken

\* Types of what travels.
DataType ==
  /\ decoded \in [Streams -> Nat]
  /\ ppc \in [Streams -> Ppcs]
  /\ \A s \in Streams : ppc[s] \notin {"loop", "done"} => decoded[s] \in FrameNos
  /\ copy \in [Streams -> [RingSlots -> Nat]]
  /\ mem \in [Streams -> Dims \cup {NoDims}]
  /\ in_use \in [Streams -> [RingSlots -> BOOLEAN]]
  /\ rpc \in [Streams -> R!RpcStates]
  /\ want \in [Streams -> Dims \cup RingSlots \cup {NoDims}]
  /\ \A s \in Streams : rpc[s] \in {"claimed", "waitSlot", "wokenSlot"} => want[s] \in RingSlots
  /\ inferred \in [Streams -> Nat]
  /\ meta \in [Bufs -> [0..(MaxBatch - 1) -> Metas \cup {Abandoned}]]
  /\ q \in Seq(Metas)
  /\ pushing \in Metas \cup {Abandoned}
  /\ kept \in SUBSET Metas

\* How far the GPU thread is with its batch, and what it has given away.
PushInv ==
  /\ gi \in Nat
  /\ gpu # "busy" => gi = 0
  /\ gpu = "busy" => /\ gi <= 2 * allocated[taken]
                     /\ \A i \in 0..(MaxBatch - 1) :
                          i + allocated[taken] < gi => meta[taken][i].slot = NoSlot
  /\ pusher \in {"out", "asleep", "woken"}
  /\ pusher = "out" => pushing = Abandoned
  /\ pusher # "out" => pushing \in Metas /\ Pushing /\ BatchMeta.stream # None
  /\ ~HoldFrames => /\ \A i \in DOMAIN q : q[i].slot = NoSlot
                    /\ pushing.slot = NoSlot /\ kept = {}

\* What a reader of a ring slot can count on: the frame copied there, or, when the ring
\* has no memory, any frame.
Contents == [s \in Streams |-> [k \in RingSlots |->
               IF mem[s] = NoDims THEN Nat ELSE {copy[s][k]}]]

Owns == Own(At(ReadySlots, meta, q, pushing, kept), in_use, rpc, want, Contents)

PipeInv == DataType /\ PushInv /\ Owns

\* The batcher's invariant as the steps below use it.
LEMMA BatchInvariant == Spec => []BatchFacts
<1>1. None \notin Bufs
  BY PipelineAssumption
<1>2. BP!IInv => BatchFacts
  <2>1. SUFFICES ASSUME BP!TypeOK, BP!Bookkeeping, BP!BuffersPartitioned, BP!SlotsExclusive, BP!BatchIsComplete
                 PROVE  BatchFacts
    BY DEF BP!IInv
  <2>2. /\ allocated \in [Bufs -> 0..MaxBatch] /\ filling \in Bufs \cup {None} /\ free_bufs \in SUBSET Bufs
        /\ held \in [Streams -> Bufs \cup {None}] /\ slot \in [Streams -> 0..(MaxBatch - 1)]
        /\ taken \in Bufs \cup {None}
        /\ prod \in [Streams -> {"out", "space", "woken", "writing", "refused", "done"}]
    BY <2>1 DEF BP!TypeOK, BP!BufOrNone, BP!ProdStates
  <2>3. \A s \in Streams : prod[s] = "writing" <=> held[s] # None
    BY <2>1 DEF BP!Bookkeeping
  <2>4. /\ taken # None => taken \notin free_bufs \cup {filling}
        /\ \A b \in free_bufs : allocated[b] = 0
    BY <2>1 DEF BP!BuffersPartitioned, BP!Bookkeeping
  <2>5. gpu = "busy" => /\ taken \in Bufs /\ allocated[taken] > 0
                        /\ \A s \in Streams : held[s] # taken
    BY <2>1, <2>2 DEF BP!BatchIsComplete, BP!Writers, BP!Bookkeeping
  <2>6. /\ \A s, t \in Streams : held[s] # None /\ held[s] = held[t] /\ slot[s] = slot[t] => s = t
        /\ \A s \in Streams : held[s] # None => slot[s] < allocated[held[s]]
    BY <2>1 DEF BP!SlotsExclusive
  <2>7. QED BY <2>2, <2>3, <2>4, <2>5, <2>6 DEF BatchFacts
<1>3. QED BY <1>2, UsesBatcher, BatcherInvariant, PTL

\* Which batch slots are ready.
LEMMA ReadyFacts ==
  \A b, i : <<b, i>> \in ReadySlots <=>
     /\ b \in Bufs /\ i \in 0..(MaxBatch - 1) /\ i < allocated[b]
     /\ \A s \in Streams : held[s] = b => slot[s] # i
BY DEF ReadySlots

\* A ready slot is a pair.
LEMMA ReadyPairs ==
  /\ \A c \in ReadySlots : c = <<c[1], c[2]>>
  /\ \A c \in ReadySlots' : c = <<c[1], c[2]>>
BY DEF ReadySlots

\* Which batch slots are ready after a step.
LEMMA ReadyFactsNext ==
  \A b, i : <<b, i>> \in ReadySlots' <=>
     /\ b \in Bufs /\ i \in 0..(MaxBatch - 1) /\ i < allocated'[b]
     /\ \A s \in Streams : held'[s] = b => slot'[s] # i
BY DEF ReadySlots

\* Steps that leave the batcher's slots alone.
LEMMA SamePlaces == UNCHANGED <<allocated, held, slot>> => ReadySlots' = ReadySlots
BY DEF ReadySlots

\* A claim changes no ready slot.
LEMMA ClaimKeepsReady ==
  ASSUME BatchFacts, NEW s \in Streams, B!AcquireSlot(s) \/ B!AcquireRotate(s)
  PROVE  ReadySlots' = ReadySlots
<1>1. PICK b \in Bufs : B!Claim(s, b, allocated[b]) /\ allocated[b] < MaxBatch
  <2>1. CASE B!AcquireSlot(s)
    BY <2>1 DEF B!AcquireSlot, B!HasRoom, BatchFacts
  <2>2. CASE B!AcquireRotate(s)
    BY <2>2, PipelineAssumption DEF B!AcquireRotate, BatchFacts
  <2>3. QED BY <2>1, <2>2
<1>2. held[s] = None /\ None # b /\ prod[s] # "writing"
  BY PipelineAssumption DEF BatchFacts, B!AcquireSlot, B!AcquireRotate, B!InAcquire
<1>3. /\ \A c \in Bufs : allocated'[c] = IF c = b THEN allocated[b] + 1 ELSE allocated[c]
      /\ \A t \in Streams : held'[t] = IF t = s THEN b ELSE held[t]
      /\ \A t \in Streams : slot'[t] = IF t = s THEN allocated[b] ELSE slot[t]
      /\ \A c \in Bufs : allocated[c] \in Nat
  BY <1>1 DEF B!Claim, BatchFacts
<1>4. ASSUME NEW c \in Bufs, NEW i \in 0..(MaxBatch - 1)
      PROVE  <<c, i>> \in ReadySlots <=> <<c, i>> \in ReadySlots'
  <2>1. CASE c = b
    <3>1. i < allocated'[b] <=> i < allocated[b] \/ i = allocated[b]
      BY <1>1, <1>3
    <3>2. (\A t \in Streams : held'[t] = b => slot'[t] # i)
            <=> (\A t \in Streams : held[t] = b => slot[t] # i) /\ allocated[b] # i
      BY <1>2, <1>3
    <3>3. i = allocated[b] => ~ (i < allocated[b])
      BY <1>3
    <3>4. QED BY <2>1, <3>1, <3>2, <3>3, ReadyFacts, ReadyFactsNext
  <2>2. CASE c # b
    <3>1. allocated'[c] = allocated[c]
      BY <1>3, <2>2
    <3>2. \A t \in Streams : held'[t] = c <=> held[t] = c
      BY <1>2, <1>3, <2>2, PipelineAssumption
    <3>3. \A t \in Streams : held[t] = c => slot'[t] = slot[t]
      BY <1>2, <1>3, <2>2, PipelineAssumption
    <3>4. QED BY <3>1, <3>2, <3>3, ReadyFacts, ReadyFactsNext
  <2>3. QED BY <2>1, <2>2
<1>5. QED BY <1>4, ReadyPairs, ReadyFacts, ReadyFactsNext DEF ReadySlots

\* MarkReady adds the producer's batch slot.
LEMMA MarkReadyAdds ==
  ASSUME BatchFacts, NEW s \in Streams, B!MarkReady(s)
  PROVE  /\ <<held[s], slot[s]>> \notin ReadySlots
         /\ held[s] \in Bufs
         /\ ReadySlots' = ReadySlots \cup {<<held[s], slot[s]>>}
<1>1. held[s] \in Bufs /\ slot[s] \in 0..(MaxBatch - 1) /\ slot[s] < allocated[held[s]]
  BY PipelineAssumption DEF BatchFacts, B!MarkReady
<1>2. <<held[s], slot[s]>> \notin ReadySlots
  BY ReadyFacts
<1>3. /\ allocated' = allocated
      /\ \A t \in Streams : t # s => held'[t] = held[t] /\ slot'[t] = slot[t]
      /\ held'[s] = None
  BY DEF B!MarkReady, BatchFacts
<1>4. ASSUME NEW c \in Bufs, NEW i \in 0..(MaxBatch - 1)
      PROVE  <<c, i>> \in ReadySlots' <=> <<c, i>> \in ReadySlots \/ (c = held[s] /\ i = slot[s])
  <2>1. None # c
    BY PipelineAssumption
  <2>2. CASE c = held[s] /\ i = slot[s]
    <3>1. \A t \in Streams : held'[t] = c => slot'[t] # i
      BY <1>1, <1>3, <2>1, <2>2, PipelineAssumption DEF BatchFacts
    <3>2. QED BY <1>1, <1>3, <2>2, <3>1, ReadyFactsNext
  <2>3. CASE ~(c = held[s] /\ i = slot[s])
    <3>1. (\A t \in Streams : held'[t] = c => slot'[t] # i) <=> (\A t \in Streams : held[t] = c => slot[t] # i)
      BY <1>3, <2>1, <2>3
    <3>2. QED BY <1>3, <2>3, <3>1, ReadyFacts, ReadyFactsNext
  <2>4. QED BY <2>2, <2>3
<1>5. ReadySlots \subseteq Bufs \X (0..(MaxBatch - 1)) /\ ReadySlots' \subseteq Bufs \X (0..(MaxBatch - 1))
  BY DEF ReadySlots
<1>6. ReadySlots' = ReadySlots \cup {<<held[s], slot[s]>>}
  BY <1>1, <1>4, <1>5
<1>7. QED BY <1>1, <1>2, <1>6

\* Recycle takes all of the batch's away.
LEMMA RecycleRemoves ==
  ASSUME BatchFacts, B!Recycle
  PROVE  ReadySlots' = {c \in ReadySlots : c[1] # taken}
<1>1. /\ taken \in Bufs /\ held' = held /\ slot' = slot
      /\ \A b \in Bufs : allocated'[b] = IF b = taken THEN 0 ELSE allocated[b]
  BY DEF B!Recycle, B!ResetCounters, BatchFacts
<1>2. ASSUME NEW c \in Bufs, NEW i \in 0..(MaxBatch - 1)
      PROVE  <<c, i>> \in ReadySlots' <=> <<c, i>> \in ReadySlots /\ c # taken
  BY <1>1, ReadyFacts, ReadyFactsNext
<1>3. ReadySlots \subseteq Bufs \X (0..(MaxBatch - 1)) /\ ReadySlots' \subseteq Bufs \X (0..(MaxBatch - 1))
  BY DEF ReadySlots
<1>4. QED BY <1>2, <1>3

-----------------------------------------------------------------------------
(* The ring under the data plane *)

\* A notification changes nobody's claim.
LEMMA NotifyKeepsClaims ==
  ASSUME NEW r \in R!RpcStates
  PROVE  /\ R!NotifyRing(r) \in R!RpcStates
         /\ R!NotifyRing(r) = "claimed" <=> r = "claimed"
         /\ R!NotifyRing(r) \in {"claimed", "waitSlot", "wokenSlot"} => r \in {"claimed", "waitSlot", "wokenSlot"}
<1>1. CASE r = "waitAll"
  <2>1. R!NotifyRing(r) = "wokenAll"
    BY <1>1, Zenon DEF R!NotifyRing
  <2>2. QED BY <1>1, <2>1 DEF R!RpcStates
<1>2. CASE r = "waitSlot"
  <2>1. R!NotifyRing(r) = "wokenSlot"
    BY <1>2, Zenon DEF R!NotifyRing
  <2>2. QED BY <1>2, <2>1 DEF R!RpcStates
<1>3. CASE r # "waitAll" /\ r # "waitSlot"
  <2>1. R!NotifyRing(r) = r
    BY <1>3, Zenon DEF R!NotifyRing
  <2>2. QED BY <1>3, <2>1
<1>4. QED BY <1>1, <1>2, <1>3

\* What the death of one meta does to the rings.
RingsAfter(m) ==
  /\ FreesOne(in_use, in_use', m)
  /\ SameClaims(rpc, rpc', want, want')
  /\ in_use' \in [Streams -> [RingSlots -> BOOLEAN]]
  /\ rpc' \in [Streams -> R!RpcStates]
  /\ want' = want
  /\ \A s \in Streams : rpc'[s] \in {"claimed", "waitSlot", "wokenSlot"} => want'[s] \in RingSlots

\* Releasing what one meta owns frees its ring slot, if it has one, and nothing else.
LEMMA ReleaseOne ==
  ASSUME DataType, NEW m, R!ReleaseSlots(Owned({m}))
  PROVE  RingsAfter(m)
<1>1. ASSUME NEW s \in Streams, NEW k \in RingSlots
      PROVE  in_use'[s][k] <=> in_use[s][k] /\ ~Refers(m, s, k)
  <2>1. k # NoSlot /\ k \in R!Slots
    BY PipelineAssumption DEF RingSlots, NoSlot, R!Slots
  <2>2. k \in Owned({m})[s] <=> m.stream = s /\ m.slot = k
    BY <2>1 DEF Owned
  <2>3. in_use'[s][k] = (in_use[s][k] /\ k \notin Owned({m})[s])
    BY <2>1 DEF R!ReleaseSlots
  <2>4. QED BY <2>2, <2>3 DEF Refers
<1>2. in_use' \in [Streams -> [RingSlots -> BOOLEAN]]
  BY DEF R!ReleaseSlots, R!Slots, RingSlots
<1>3. ASSUME NEW s \in Streams
      PROVE  rpc'[s] = rpc[s] \/ rpc'[s] = R!NotifyRing(rpc[s])
  BY DEF R!ReleaseSlots
<1>4. rpc' \in [Streams -> R!RpcStates]
  <2>1. \A s \in Streams : rpc[s] \in R!RpcStates
    BY DEF DataType
  <2>2. \A s \in Streams : rpc'[s] \in R!RpcStates
    BY <1>3, <2>1, NotifyKeepsClaims
  <2>3. rpc' = [s \in Streams |-> rpc'[s]]
    BY DEF R!ReleaseSlots
  <2>4. QED BY <2>2, <2>3
<1>5. ASSUME NEW s \in Streams
      PROVE  /\ rpc'[s] = "claimed" <=> rpc[s] = "claimed"
             /\ rpc'[s] \in {"claimed", "waitSlot", "wokenSlot"} => rpc[s] \in {"claimed", "waitSlot", "wokenSlot"}
  <2>1. rpc[s] \in R!RpcStates
    BY DEF DataType
  <2>2. QED BY <1>3, <2>1, NotifyKeepsClaims
<1>6. want' = want
  BY DEF R!ReleaseSlots
<1>7. QED BY <1>1, <1>2, <1>4, <1>5, <1>6 DEF RingsAfter, FreesOne, SameClaims, DataType

\* The contents of the ring slots are what copy and mem make of them.
LEMMA SameContents == UNCHANGED <<copy, mem>> => Contents' = Contents
BY DEF Contents

\* A step that moves no meta and claims and frees no ring slot.
LEMMA NothingMoves ==
  ASSUME Owns, ReadySlots' = ReadySlots, UNCHANGED <<meta, q, pushing, kept, in_use, copy, mem>>,
         SameClaims(rpc, rpc', want, want')
  PROVE  Owns'
<1>1. Own(At(ReadySlots, meta, q, pushing, kept), in_use, rpc', want', Contents)
  BY ReadyChanges DEF Owns
<1>2. QED BY <1>1, SameContents DEF Owns

\* No meta lives in a ring whose slots are all free: its memory can go.
LEMMA FreeRingForgets ==
  ASSUME NEW A, NEW use, NEW pc, NEW wt, NEW cp, NEW cp2, NEW s \in Streams,
         Own(A, use, pc, wt, cp),
         \A k \in RingSlots : ~use[s][k],
         \A t \in Streams \ {s}, k \in RingSlots : cp2[t][k] = cp[t][k]
  PROVE  Own(A, use, pc, wt, cp2)
<1>1. \A x \in Live(A) : A[x].stream \in Streams \ {s} /\ A[x].slot \in RingSlots
  BY DEF Own
<1>2. QED BY <1>1 DEF Own

\* Ensure frees the memory of a ring only when all its slots are free.
LEMMA EnsureKeepsOwns ==
  ASSUME DataType, Owns, NEW s \in Streams, EnsureRing(s)
  PROVE  /\ Own(At(ReadySlots, meta, q, pushing, kept), in_use, rpc, want, Contents')
         /\ copy' \in [Streams -> [RingSlots -> Nat]]
         /\ mem' \in [Streams -> Dims \cup {NoDims}]
<1>1. PICK d \in Dims :
        \/ (R!EnsureFits(s, d) \/ R!EnsureWait(s, d)) /\ copy' = copy
        \/ (R!EnsureRealloc(s, d) \/ R!EnsureFails(s, d)) /\ ForgetCopies(s)
  BY DEF EnsureRing
<1>2. CASE UNCHANGED <<copy, mem>>
  BY <1>2, SameContents DEF Owns, DataType
<1>3. CASE R!AllFree(s) /\ ForgetCopies(s) /\ \E m \in Dims \cup {NoDims} : mem' = [mem EXCEPT ![s] = m]
  <2>1. \A k \in RingSlots : ~in_use[s][k]
    BY <1>3 DEF R!AllFree, R!Slots, RingSlots
  <2>2. \A t \in Streams \ {s} : copy'[t] = copy[t] /\ mem'[t] = mem[t]
    BY <1>3 DEF ForgetCopies, DataType
  <2>3. \A t \in Streams \ {s}, k \in RingSlots : Contents'[t][k] = Contents[t][k]
    BY <2>2 DEF Contents
  <2>. DEFINE A  == At(ReadySlots, meta, q, pushing, kept)
              C  == Contents
              C2 == Contents'
  <2>4. Own(A, in_use, rpc, want, C)
    BY DEF Owns
  <2>5. Own(A, in_use, rpc, want, C2)
    <3>1. \A t \in Streams \ {s}, k \in RingSlots : C2[t][k] = C[t][k]
      BY <2>3
    <3>. HIDE DEF A, C, C2
    <3>2. QED BY <2>1, <2>4, <3>1, FreeRingForgets
  <2>6. copy' \in [Streams -> [RingSlots -> Nat]] /\ mem' \in [Streams -> Dims \cup {NoDims}]
    BY <1>3 DEF ForgetCopies, DataType
  <2>7. QED BY <2>5, <2>6
<1>4. CASE (R!EnsureFits(s, d) \/ R!EnsureWait(s, d)) /\ copy' = copy
  BY <1>2, <1>4 DEF R!EnsureFits, R!EnsureWait
<1>5. CASE (R!EnsureRealloc(s, d) \/ R!EnsureFails(s, d)) /\ ForgetCopies(s)
  BY <1>3, <1>5 DEF R!EnsureRealloc, R!EnsureFails
<1>6. QED BY <1>1, <1>4, <1>5

\* Steps that leave the ring functions alone.
LEMMA ClaimsUnchanged ==
  ASSUME DataType, UNCHANGED <<rpc, want>> PROVE SameClaims(rpc, rpc', want, want')
BY DEF SameClaims, DataType

-----------------------------------------------------------------------------
(* The producers' steps *)

\* A notification neither starts nor ends the GPU thread's work on a batch.
LEMMA NotifiedGpu == B!Notified(gpu) = "busy" <=> gpu = "busy"
<1>1. CASE gpu = "asleep"
  <2>1. B!Notified(gpu) = "take"
    BY <1>1, Zenon DEF B!Notified
  <2>2. QED BY <1>1, <2>1
<1>2. CASE gpu = "straggling"
  <2>1. B!Notified(gpu) = "recheck"
    BY <1>2, Zenon DEF B!Notified
  <2>2. QED BY <1>2, <2>1
<1>3. CASE gpu # "asleep" /\ gpu # "straggling"
  <2>1. B!Notified(gpu) = gpu
    BY <1>3, Zenon DEF B!Notified
  <2>2. QED BY <1>3, <2>1
<1>4. QED BY <1>1, <1>2, <1>3

\* Steps that leave the GPU thread's batch, the queue and the results alone.
LEMMA PushStays ==
  ASSUME PushInv, BatchFacts, UNCHANGED <<gi, pushing, q, kept>>,
         pusher' = pusher \/ (pusher = "asleep" /\ pusher' = "woken"),
         gpu' = "busy" <=> gpu = "busy",
         gpu = "busy" => /\ taken' = taken /\ allocated'[taken] = allocated[taken]
                         /\ meta'[taken] = meta[taken]
  PROVE  PushInv'
<1>1. gi' \in Nat /\ (gpu' # "busy" => gi' = 0)
  BY DEF PushInv
<1>2. gpu' = "busy" => /\ gi' <= 2 * allocated'[taken']
                       /\ \A i \in 0..(MaxBatch - 1) :
                            i + allocated'[taken'] < gi' => meta'[taken'][i].slot = NoSlot
  BY DEF PushInv
<1>3. pusher' # "out" => pushing' \in Metas /\ Pushing' /\ BatchMeta'.stream # None
  BY DEF PushInv, Pushing, BatchMeta
<1>4. /\ pusher' \in {"out", "asleep", "woken"}
      /\ pusher' = "out" => pushing' = Abandoned
      /\ ~HoldFrames => /\ \A i \in DOMAIN q' : q'[i].slot = NoSlot
                        /\ pushing'.slot = NoSlot /\ kept' = {}
  BY DEF PushInv
<1>5. QED BY <1>1, <1>2, <1>3, <1>4 DEF PushInv

\* What the batcher's calls of a producer leave alone.
LEMMA BatcherCalls ==
  ASSUME BatchFacts, NEW s \in Streams,
         \/ B!AcquireSlot(s) \/ B!AcquireRotate(s) \/ B!AcquireWait(s) \/ B!AcquireRefused(s)
         \/ B!MarkReady(s) \/ B!ProducerDone(s)
  PROVE  /\ gpu' = "busy" <=> gpu = "busy"
         /\ gpu = "busy" => taken' = taken /\ allocated'[taken] = allocated[taken]
<1>1. CASE B!AcquireSlot(s)
  BY <1>1 DEF B!AcquireSlot, B!Claim, BatchFacts, B!HasRoom
<1>2. CASE B!AcquireRotate(s)
  <2>1. PICK b \in free_bufs : B!Claim(s, b, allocated[b])
    BY <1>2 DEF B!AcquireRotate
  <2>2. gpu = "busy" => b # taken /\ taken' = taken
    BY <1>2, PipelineAssumption DEF BatchFacts, B!AcquireRotate
  <2>3. gpu = "busy" => allocated'[taken] = allocated[taken]
    BY <2>1, <2>2 DEF B!Claim, BatchFacts
  <2>4. gpu' = "busy" <=> gpu = "busy"
    BY <1>2, NotifiedGpu DEF B!AcquireRotate, B!QueueFull
  <2>5. QED BY <2>2, <2>3, <2>4
<1>3. CASE B!AcquireWait(s)
  BY <1>3, NotifiedGpu DEF B!AcquireWait, B!QueueFull
<1>4. CASE B!AcquireRefused(s)
  BY <1>4 DEF B!AcquireRefused
<1>5. CASE B!MarkReady(s)
  BY <1>5, NotifiedGpu DEF B!MarkReady
<1>6. CASE B!ProducerDone(s)
  BY <1>6, NotifiedGpu DEF B!ProducerDone
<1>7. QED BY <1>1, <1>2, <1>3, <1>4, <1>5, <1>6

\* Decode, EnsureRing, the batcher's Acquire and the end of a producer move no meta.
LEMMA QuietProducerSteps ==
  ASSUME PipeInv, BatchFacts, NEW s \in Streams,
         Decode(s) \/ EnsureRing(s) \/ AcquireBatch(s) \/ LeaveLoop(s)
  PROVE  PipeInv'
<1>. USE DEF PipeInv
<1>1. SameClaims(rpc, rpc', want, want')
  <2>1. CASE Decode(s) \/ AcquireBatch(s) \/ LeaveLoop(s)
    BY <2>1, ClaimsUnchanged DEF Decode, AcquireBatch, LeaveLoop, ringVars
  <2>2. CASE EnsureRing(s)
    BY <2>2 DEF EnsureRing, R!EnsureFits, R!EnsureWait, R!EnsureRealloc, R!EnsureFails, R!GoTo,
                R!AtRealloc, DataType, SameClaims
  <2>3. QED BY <2>1, <2>2
<1>2. ReadySlots' = ReadySlots
  <2>1. CASE Decode(s) \/ EnsureRing(s)
    BY <2>1, SamePlaces DEF Decode, EnsureRing, batcherVars
  <2>2. CASE AcquireBatch(s)
    BY <2>2, SamePlaces, ClaimKeepsReady DEF AcquireBatch, B!AcquireWait, B!AcquireRefused
  <2>3. CASE LeaveLoop(s)
    BY <2>3, SamePlaces DEF LeaveLoop, B!ProducerDone
  <2>4. QED BY <2>1, <2>2, <2>3
<1>3. UNCHANGED <<meta, q, pushing, kept, in_use, gi, pusher>>
  BY DEF Decode, EnsureRing, AcquireBatch, LeaveLoop, ringVars, queueVars, consumerVars,
         R!EnsureFits, R!EnsureWait, R!EnsureRealloc, R!EnsureFails
<1>8. /\ Own(At(ReadySlots, meta, q, pushing, kept), in_use, rpc, want, Contents')
      /\ copy' \in [Streams -> [RingSlots -> Nat]]
      /\ mem' \in [Streams -> Dims \cup {NoDims}]
  <2>1. CASE UNCHANGED <<copy, mem>>
    BY <2>1, SameContents DEF Owns, DataType
  <2>2. QED BY <2>1, EnsureKeepsOwns DEF Decode, AcquireBatch, LeaveLoop, ringVars
<1>4. Owns'
  <2>1. Own(At(ReadySlots, meta, q, pushing, kept), in_use, rpc', want', Contents')
    BY <1>1, <1>8, ReadyChanges
  <2>2. QED BY <1>2, <1>3, <2>1 DEF Owns
<1>5. PushInv'
  <2>1. /\ gpu' = "busy" <=> gpu = "busy"
        /\ gpu = "busy" => taken' = taken /\ allocated'[taken] = allocated[taken]
    <3>1. CASE Decode(s) \/ EnsureRing(s)
      BY <3>1 DEF Decode, EnsureRing, batcherVars
    <3>2. CASE AcquireBatch(s) \/ LeaveLoop(s)
      BY <3>2, BatcherCalls DEF AcquireBatch, LeaveLoop
    <3>3. QED BY <3>1, <3>2
  <2>2. QED BY <1>3, <2>1, PushStays
<1>6. DataType'
  <2>1. decoded' \in [Streams -> Nat] /\ inferred' \in [Streams -> Nat]
    <3>1. CASE Decode(s)
      BY <3>1 DEF DataType, Decode
    <3>2. CASE EnsureRing(s) \/ AcquireBatch(s) \/ LeaveLoop(s)
      BY <3>2 DEF DataType, EnsureRing, AcquireBatch, LeaveLoop
    <3>3. QED BY <3>1, <3>2
  <2>2. ppc' \in [Streams -> Ppcs]
    BY DEF DataType, Decode, EnsureRing, AcquireBatch, LeaveLoop, MoveTo, Ppcs
  <2>3. \A t \in Streams : ppc'[t] \notin {"loop", "done"} => decoded'[t] \in FrameNos
    <3>1. CASE Decode(s)
      BY <3>1, PipelineAssumption DEF DataType, Decode, MoveTo, Wanted, FrameNos, Ppcs
    <3>2. CASE EnsureRing(s) \/ AcquireBatch(s) \/ LeaveLoop(s)
      BY <3>2 DEF DataType, EnsureRing, AcquireBatch, LeaveLoop, MoveTo, Ppcs
    <3>3. QED BY <3>1, <3>2
  <2>4. /\ rpc' \in [Streams -> R!RpcStates]
        /\ want' \in [Streams -> Dims \cup RingSlots \cup {NoDims}]
        /\ \A t \in Streams : rpc'[t] \in {"claimed", "waitSlot", "wokenSlot"} => want'[t] \in RingSlots
    <3>1. CASE Decode(s) \/ AcquireBatch(s) \/ LeaveLoop(s)
      BY <3>1 DEF Decode, AcquireBatch, LeaveLoop, ringVars, DataType
    <3>2. CASE EnsureRing(s)
      <4>1. PICK d \in Dims : \/ R!EnsureFits(s, d) \/ R!EnsureWait(s, d) \/ R!EnsureRealloc(s, d)
                              \/ R!EnsureFails(s, d)
        BY <3>2 DEF EnsureRing
      <4>2. \/ rpc' = [rpc EXCEPT ![s] = "ensured"] /\ want' = [want EXCEPT ![s] = d]
            \/ rpc' = [rpc EXCEPT ![s] = "waitAll"] /\ want' = [want EXCEPT ![s] = d]
            \/ rpc' = [rpc EXCEPT ![s] = "out"] /\ want' = [want EXCEPT ![s] = NoDims]
        BY <4>1 DEF R!EnsureFits, R!EnsureWait, R!EnsureRealloc, R!EnsureFails, R!GoTo
      <4>3. {"ensured", "waitAll", "out"} \subseteq R!RpcStates
        BY DEF R!RpcStates
      <4>4. QED BY <4>2, <4>3, ZenonT(60) DEF DataType
    <3>3. QED BY <3>1, <3>2
  <2>5. QED BY <1>3, <1>8, <2>1, <2>2, <2>3, <2>4 DEF DataType
<1>7. QED BY <1>4, <1>5, <1>6

\* A producer's ring claim ends (GoTo "out"), the others' do not.
LEMMA ClaimEnds ==
  ASSUME DataType, NEW s \in Streams, R!GoTo(s, "out", NoDims)
  PROVE  /\ rpc'[s] # "claimed"
         /\ OtherClaims(s, rpc, rpc', want, want')
         /\ rpc' \in [Streams -> R!RpcStates]
         /\ want' \in [Streams -> Dims \cup RingSlots \cup {NoDims}]
         /\ \A t \in Streams : rpc'[t] \in {"claimed", "waitSlot", "wokenSlot"} => want'[t] \in RingSlots
<1>1. "out" \in R!RpcStates
  BY DEF R!RpcStates
<1>2. QED BY <1>1 DEF R!GoTo, DataType, OtherClaims

\* ReleaseOwn frees the slot the producer had claimed.
LEMMA OwnReleased ==
  ASSUME DataType, Owns, NEW s \in Streams, R!ReleaseOwn(s)
  PROVE  /\ Own(At(ReadySlots, meta, q, pushing, kept), in_use', rpc', want', Contents)
         /\ in_use' \in [Streams -> [RingSlots -> BOOLEAN]]
<1>1. rpc[s] = "claimed" /\ want[s] \in RingSlots /\ in_use' = [in_use EXCEPT ![s][want[s]] = FALSE]
  BY DEF R!ReleaseOwn, DataType
<1>2. SlotReturned(in_use, in_use', s, want[s])
  BY <1>1 DEF DataType, SlotReturned
<1>3. rpc'[s] # "claimed" /\ OtherClaims(s, rpc, rpc', want, want')
  BY ClaimEnds DEF R!ReleaseOwn
<1>4. in_use' \in [Streams -> [RingSlots -> BOOLEAN]]
  BY <1>1 DEF DataType
<1>. DEFINE A == At(ReadySlots, meta, q, pushing, kept)
<1>5. Own(A, in_use, rpc, want, Contents)
  BY DEF Owns
<1>. HIDE DEF A
<1>6. Own(A, in_use', rpc', want', Contents)
  BY <1>1, <1>2, <1>3, <1>5, ClaimReturned
<1>7. QED BY <1>4, <1>6 DEF A

\* Claiming a ring slot, or falling asleep for it.
LEMMA AcquireRingStep ==
  ASSUME PipeInv, BatchFacts, NEW s \in Streams, AcquireRing(s) PROVE PipeInv'
<1>. USE DEF PipeInv
<1>. DEFINE k == inferred[s] % Depth
<1>1. k \in RingSlots
  BY PipelineAssumption, SMTT(40) DEF DataType, RingSlots
<1>2. ReadySlots' = ReadySlots
  BY SamePlaces DEF AcquireRing, batcherVars
<1>3. UNCHANGED <<meta, q, pushing, kept, copy, mem, gi, pusher, gpu, taken, allocated, decoded, inferred>>
  BY DEF AcquireRing, batcherVars, queueVars, consumerVars,
         R!AcquireSlotWait, R!AcquireSlot
<1>4. CASE R!AcquireSlotWait(s, k) /\ UNCHANGED ppc
  <2>1. in_use' = in_use /\ rpc' = [rpc EXCEPT ![s] = "waitSlot"] /\ want' = [want EXCEPT ![s] = k]
    BY <1>4 DEF R!AcquireSlotWait, R!GoTo
  <2>2. rpc[s] # "claimed"
    BY <1>4 DEF R!AcquireSlotWait, R!AtAcquire
  <2>3. SameClaims(rpc, rpc', want, want')
    BY <2>1, <2>2 DEF SameClaims, DataType
  <2>4. Owns'
    BY <1>2, <1>3, <2>1, <2>3, NothingMoves
  <2>5. PushInv'
    BY <1>3, PushStays
  <2>6. DataType'
    <3>1. "waitSlot" \in R!RpcStates
      BY DEF R!RpcStates
    <3>2. QED BY <1>1, <1>3, <1>4, <2>1, <3>1 DEF DataType
  <2>7. QED BY <2>4, <2>5, <2>6
<1>5. CASE R!AcquireSlot(s, k) /\ MoveTo(s, "batch")
  <2>1. /\ in_use' = [in_use EXCEPT ![s][k] = TRUE]
        /\ rpc' = [rpc EXCEPT ![s] = "claimed"] /\ want' = [want EXCEPT ![s] = k]
        /\ rpc[s] # "claimed" /\ ~in_use[s][k]
    BY <1>5 DEF R!AcquireSlot, R!GoTo, R!AtAcquire
  <2>. HIDE DEF k
  <2>2. OtherClaims(s, rpc, rpc', want, want') /\ rpc'[s] = "claimed" /\ want'[s] = k
    BY <2>1 DEF OtherClaims, DataType
  <2>3. SlotTaken(in_use, in_use', s, k)
    BY <1>1, <2>1 DEF DataType, SlotTaken
  <2>. DEFINE A == At(ReadySlots, meta, q, pushing, kept)
  <2>8. Own(A, in_use, rpc, want, Contents)
    BY DEF Owns
  <2>. HIDE DEF A
  <2>4. Own(A, in_use', rpc', want', Contents)
    BY <1>1, <2>1, <2>2, <2>3, <2>8, SlotClaimed
  <2>5. Owns'
    BY <1>2, <1>3, <2>4, SameContents DEF Owns, A
  <2>6. PushInv'
    BY <1>3, PushStays
  <2>7. DataType'
    <3>1. "claimed" \in R!RpcStates
      BY DEF R!RpcStates
    <3>2. /\ rpc' \in [Streams -> R!RpcStates]
          /\ want' \in [Streams -> Dims \cup RingSlots \cup {NoDims}]
          /\ \A t \in Streams : rpc'[t] \in {"claimed", "waitSlot", "wokenSlot"} => want'[t] \in RingSlots
          /\ in_use' \in [Streams -> [RingSlots -> BOOLEAN]]
      BY <1>1, <2>1, <3>1 DEF DataType
    <3>3. /\ ppc' \in [Streams -> Ppcs]
          /\ \A t \in Streams : ppc'[t] \notin {"loop", "done"} => decoded'[t] \in FrameNos
      BY <1>3, <1>5 DEF DataType, MoveTo, Ppcs, AcquireRing
    <3>4. QED BY <1>3, <3>2, <3>3 DEF DataType
  <2>9. QED BY <2>5, <2>6, <2>7
<1>6. QED BY <1>4, <1>5 DEF AcquireRing

\* Acquire was refused: the claim on the ring slot is given back.
LEMMA GiveUpStep ==
  ASSUME PipeInv, BatchFacts, NEW s \in Streams, GiveUpRingSlot(s) PROVE PipeInv'
<1>. USE DEF PipeInv
<1>1. ReadySlots' = ReadySlots
  BY SamePlaces DEF GiveUpRingSlot, batcherVars
<1>2. UNCHANGED <<meta, q, pushing, kept, copy, mem, gi, pusher, gpu, taken, allocated, decoded, inferred>>
  BY DEF GiveUpRingSlot, batcherVars, queueVars, consumerVars,
         RefusedReleases, R!ReleaseOwn
<1>3. R!ReleaseOwn(s) /\ R!GoTo(s, "out", NoDims) /\ MoveTo(s, "loop")
  BY DEF GiveUpRingSlot, RefusedReleases, R!ReleaseOwn
<1>4. Owns'
  BY <1>1, <1>2, <1>3, OwnReleased, SameContents DEF Owns
<1>5. PushInv'
  BY <1>2, PushStays
<1>6. DataType'
  <2>1. /\ ppc' \in [Streams -> Ppcs]
        /\ \A t \in Streams : ppc'[t] \notin {"loop", "done"} => decoded'[t] \in FrameNos
    BY <1>2, <1>3 DEF DataType, MoveTo, Ppcs
  <2>2. QED BY <1>2, <1>3, <2>1, ClaimEnds, OwnReleased DEF DataType
<1>7. QED BY <1>4, <1>5, <1>6

\* The meta of the batch slot a producer has filled or abandoned.
LEMMA MetaWritten ==
  ASSUME DataType, BatchFacts, NEW s \in Streams, B!MarkReady(s),
         NEW m \in Metas \cup {Abandoned}, WriteMeta(s, m)
  PROVE  /\ meta' \in [Bufs -> [0..(MaxBatch - 1) -> Metas \cup {Abandoned}]]
         /\ meta'[held[s]][slot[s]] = m
         /\ \A c \in ReadySlots : meta'[c[1]][c[2]] = meta[c[1]][c[2]]
         /\ gpu = "busy" => meta'[taken] = meta[taken]
<1>1. held[s] \in Bufs /\ slot[s] \in 0..(MaxBatch - 1)
  BY MarkReadyAdds DEF BatchFacts
<1>2. <<held[s], slot[s]>> \notin ReadySlots
  BY MarkReadyAdds
<1>3. meta' = [meta EXCEPT ![held[s]][slot[s]] = m]
  BY DEF WriteMeta
<1>4. meta' \in [Bufs -> [0..(MaxBatch - 1) -> Metas \cup {Abandoned}]] /\ meta'[held[s]][slot[s]] = m
  BY <1>1, <1>3 DEF DataType
<1>5. ASSUME NEW c \in ReadySlots PROVE meta'[c[1]][c[2]] = meta[c[1]][c[2]]
  <2>1. c = <<c[1], c[2]>> /\ c[1] \in Bufs /\ c[2] \in 0..(MaxBatch - 1)
    BY ReadyPairs DEF ReadySlots
  <2>2. ~(c[1] = held[s] /\ c[2] = slot[s])
    BY <1>2, <2>1
  <2>3. QED BY <1>1, <1>3, <2>1, <2>2 DEF DataType
<1>6. gpu = "busy" => meta'[taken] = meta[taken]
  BY <1>1, <1>3 DEF DataType, BatchFacts
<1>7. QED BY <1>4, <1>5, <1>6

\* The frame is copied and its ring slot passed on with the meta.
LEMMA PreprocessStep ==
  ASSUME PipeInv, BatchFacts, NEW s \in Streams, Preprocess(s) PROVE PipeInv'
<1>. USE DEF PipeInv
<1>1. /\ B!MarkReady(s) /\ R!PassOn(s) /\ R!GoTo(s, "out", NoDims) /\ WriteMeta(s, MetaOf(s))
      /\ UNCHANGED <<q, pushing, kept, gi, pusher, decoded, in_use>>
      /\ CopyFrame(s) /\ mem' = mem
      /\ rpc[s] = "claimed" /\ want[s] \in RingSlots
  BY DEF Preprocess, R!PassOn, queueVars, consumerVars, DataType
<1>2. MetaOf(s) \in Metas
  BY <1>1 DEF MetaOf, Metas, DataType, Preprocess
<1>3. /\ ReadySlots' = ReadySlots \cup {<<held[s], slot[s]>>} /\ <<held[s], slot[s]>> \notin ReadySlots
      /\ \A c \in ReadySlots : meta'[c[1]][c[2]] = meta[c[1]][c[2]]
      /\ meta'[held[s]][slot[s]] = [stream |-> s, no |-> decoded[s], slot |-> want[s]]
  BY <1>1, <1>2, MarkReadyAdds, MetaWritten DEF MetaOf
<1>4. SlotFilled(Contents, Contents', s, want[s], decoded[s])
  <2>1. copy'[s][want[s]] = IF mem[s] = NoDims THEN 0 ELSE decoded[s]
    BY <1>1 DEF CopyFrame, DataType
  <2>2. \A t \in Streams, j \in RingSlots : ~(t = s /\ j = want[s]) => copy'[t][j] = copy[t][j]
    BY <1>1 DEF CopyFrame, DataType
  <2>3. decoded[s] \in Nat
    BY DEF DataType
  <2>4. QED BY <1>1, <2>1, <2>2, <2>3 DEF Contents, SlotFilled
<1>5. Own(At(ReadySlots', meta', q, pushing, kept), in_use, rpc', want', Contents')
  <2>. DEFINE bi == <<held[s], slot[s]>>
  <2>1. bi \notin ReadySlots /\ ReadySlots' = ReadySlots \cup {bi}
        /\ meta'[bi[1]][bi[2]] = [stream |-> s, no |-> decoded[s], slot |-> want[s]]
    BY <1>3
  <2>. HIDE DEF bi
  <2>2. rpc'[s] # "claimed" /\ OtherClaims(s, rpc, rpc', want, want')
    BY <1>1, ClaimEnds
  <2>. DEFINE A == At(ReadySlots, meta, q, pushing, kept)
              A2 == At(ReadySlots', meta', q, pushing, kept)
  <2>3. Own(A, in_use, rpc, want, Contents)
    BY DEF Owns
  <2>4. Own(A, in_use, rpc, want, Contents) => Own(A2, in_use, rpc', want', Contents')
    BY <1>1, <1>3, <1>4, <2>1, <2>2, FramePublished
  <2>5. QED BY <2>3, <2>4
<1>6. Owns'
  BY <1>1, <1>5 DEF Owns
<1>7. PushInv'
  BY <1>1, <1>2, BatcherCalls, MetaWritten, PushStays
<1>8. DataType'
  <2>1. /\ ppc' \in [Streams -> Ppcs]
        /\ \A t \in Streams : ppc'[t] \notin {"loop", "done"} => decoded'[t] \in FrameNos
    BY <1>1 DEF DataType, MoveTo, Ppcs, Preprocess
  <2>2. copy' \in [Streams -> [RingSlots -> Nat]] /\ inferred' \in [Streams -> Nat]
    BY <1>1 DEF DataType, Preprocess, CopyFrame
  <2>3. QED BY <1>1, <1>2, <2>1, <2>2, ClaimEnds, MetaWritten DEF DataType
<1>9. QED BY <1>6, <1>7, <1>8

\* The exception handler: the ring slot is given back, the batch slot owns nothing.
LEMMA ThrowsStep ==
  ASSUME PipeInv, BatchFacts, NEW s \in Streams, PreprocessThrows(s) PROVE PipeInv'
<1>. USE DEF PipeInv
<1>1. /\ B!MarkReady(s) /\ R!ReleaseOwn(s) /\ R!GoTo(s, "out", NoDims) /\ WriteMeta(s, Abandoned)
      /\ UNCHANGED <<q, pushing, kept, gi, pusher, decoded, copy, mem>>
  BY DEF PreprocessThrows, R!ReleaseOwn, Abandon, queueVars, consumerVars
<1>2. /\ ReadySlots' = ReadySlots \cup {<<held[s], slot[s]>>}
      /\ \A c \in ReadySlots : meta'[c[1]][c[2]] = meta[c[1]][c[2]]
      /\ meta'[held[s]][slot[s]].slot = NoSlot
  <2>1. meta'[held[s]][slot[s]] = Abandoned /\ \A c \in ReadySlots : meta'[c[1]][c[2]] = meta[c[1]][c[2]]
    BY <1>1, MetaWritten
  <2>2. Abandoned.slot = NoSlot
    BY DEF Abandoned
  <2>3. QED BY <1>1, <2>1, <2>2, MarkReadyAdds
<1>3. Own(At(ReadySlots, meta, q, pushing, kept), in_use', rpc', want', Contents)
  BY <1>1, OwnReleased
<1>4. Own(At(ReadySlots', meta', q, pushing, kept), in_use', rpc', want', Contents)
  <2>1. \A c \in ReadySlots' : IF c \in ReadySlots THEN meta'[c[1]][c[2]] = meta[c[1]][c[2]]
                               ELSE meta'[c[1]][c[2]].slot = NoSlot
    BY <1>2
  <2>2. SameClaims(rpc', rpc', want', want')
    BY <1>1, ClaimEnds DEF SameClaims
  <2>3. QED BY <1>2, <1>3, <2>1, <2>2, ReadyChanges
<1>5. Owns'
  BY <1>1, <1>4, SameContents DEF Owns
<1>6. PushInv'
  BY <1>1, BatcherCalls, MetaWritten, PushStays
<1>7. DataType'
  <2>1. /\ ppc' \in [Streams -> Ppcs]
        /\ \A t \in Streams : ppc'[t] \notin {"loop", "done"} => decoded'[t] \in FrameNos
    BY <1>1 DEF DataType, MoveTo, Ppcs, PreprocessThrows
  <2>2. inferred' \in [Streams -> Nat]
    BY DEF DataType, PreprocessThrows
  <2>3. QED BY <1>1, <2>1, <2>2, ClaimEnds, OwnReleased, MetaWritten DEF DataType
<1>8. QED BY <1>5, <1>6, <1>7

-----------------------------------------------------------------------------
(* The steps of the GPU thread, the consumer and Stop() *)

\* Nobody is in Push unless the GPU thread works on a batch.
LEMMA IdleFacts ==
  ASSUME PushInv, gpu # "busy" PROVE gi = 0 /\ pusher = "out" /\ pushing = Abandoned
BY DEF PushInv, Pushing

\* The typed parts no step below changes.
LEMMA DataStays ==
  ASSUME DataType, UNCHANGED producerVars, UNCHANGED meta, UNCHANGED ringVars,
         q' \in Seq(Metas), pushing' \in Metas \cup {Abandoned}, kept' \in SUBSET Metas
  PROVE  DataType'
BY DEF DataType, producerVars, ringVars

\* Take changes whose buffer a batch is, not what is in it.
LEMMA TakeStep == ASSUME PipeInv, BatchFacts, BatchFacts', Take PROVE PipeInv'
<1>. USE DEF PipeInv
<1>1. /\ UNCHANGED <<allocated, held, slot>> /\ gpu # "busy"
  BY DEF Take, B!TakePending, B!TakeClose, B!TakeStragglers, B!TakeNull, B!TakeWait
<1>2. /\ UNCHANGED <<meta, q, pushing, kept, in_use, copy, mem, gi, pusher, rpc, want>>
      /\ UNCHANGED producerVars /\ UNCHANGED ringVars
  BY DEF Take, ringVars, queueVars, producerVars, consumerVars
<1>3. Owns'
  BY <1>1, <1>2, SamePlaces, ClaimsUnchanged, NothingMoves
<1>4. PushInv'
  <2>1. gi' = 0 /\ pusher' = "out" /\ pushing' = Abandoned
    BY <1>1, <1>2, IdleFacts
  <2>2. gpu' = "busy" => gi' <= 2 * allocated'[taken'] /\ \A i \in 0..(MaxBatch - 1) : ~(i + allocated'[taken'] < gi')
    BY <2>1, PipelineAssumption DEF BatchFacts
  <2>3. ~HoldFrames => /\ \A i \in DOMAIN q' : q'[i].slot = NoSlot
                       /\ pushing'.slot = NoSlot /\ kept' = {}
    BY <1>2 DEF PushInv
  <2>4. QED BY <2>1, <2>2, <2>3 DEF PushInv
<1>5. DataType'
  BY <1>2, DataStays DEF DataType
<1>6. QED BY <1>3, <1>4, <1>5

\* An abandoned slot owns nothing.
LEMMA SkipStep == ASSUME PipeInv, BatchFacts, SkipAbandoned PROVE PipeInv'
<1>. USE DEF PipeInv
<1>1. /\ UNCHANGED <<meta, q, pushing, kept, in_use, copy, mem, pusher, rpc, want, allocated, held, slot, gpu, taken>>
      /\ UNCHANGED producerVars /\ UNCHANGED ringVars
      /\ gi' = gi + 1 /\ gpu = "busy" /\ gi < allocated[taken] /\ BatchMeta.stream = None
  BY DEF SkipAbandoned, Pushing, batcherVars, ringVars, queueVars, producerVars, consumerVars
<1>2. Owns'
  BY <1>1, SamePlaces, ClaimsUnchanged, NothingMoves
<1>3. PushInv'
  <2>1. pusher' = "out" /\ pushing' = Abandoned
    BY <1>1 DEF PushInv
  <2>2. gi \in Nat /\ allocated[taken] \in Nat
    BY <1>1 DEF PushInv, BatchFacts
  <2>3. gi' \in Nat /\ gi' <= 2 * allocated'[taken'] /\ \A i \in 0..(MaxBatch - 1) : ~(i + allocated'[taken'] < gi')
    BY <1>1, <2>2, PipelineAssumption
  <2>4. ~HoldFrames => /\ \A i \in DOMAIN q' : q'[i].slot = NoSlot
                       /\ pushing'.slot = NoSlot /\ kept' = {}
    BY <1>1 DEF PushInv
  <2>5. QED BY <1>1, <2>1, <2>3, <2>4 DEF PushInv
<1>4. DataType'
  BY <1>1, DataStays DEF DataType
<1>5. QED BY <1>2, <1>3, <1>4

\* The end of GpuLoop and the steps of StopImpl only set flags and wake threads.
LEMMA FinishAndStopSteps ==
  ASSUME PipeInv, BatchFacts, FinishRun \/ StopCalled \/ StopStep PROVE PipeInv'
<1>. USE DEF PipeInv
<1>1. UNCHANGED <<meta, q, pushing, kept, in_use, copy, mem, gi, rpc, want, allocated, held, slot, taken>>
      /\ UNCHANGED producerVars /\ UNCHANGED ringVars
  BY DEF FinishRun, StopCalled, StopStep, StopFlag, StopBatcher, StopJoin, Q!MarkFinished, Q!QueueStop,
         B!SetStopping, batcherVars, ringVars, queueVars, producerVars, consumerVars
<1>2. pusher' = pusher \/ (pusher = "asleep" /\ pusher' = "woken")
  BY DEF FinishRun, StopCalled, StopStep, StopFlag, StopBatcher, StopJoin, Q!MarkFinished, Q!QueueStop,
         Q!WakePusher, queueVars
<1>3. gpu' = "busy" <=> gpu = "busy"
  BY NotifiedGpu
     DEF FinishRun, StopCalled, StopStep, StopFlag, StopBatcher, StopJoin, B!SetStopping, batcherVars
<1>4. Owns'
  BY <1>1, SamePlaces, ClaimsUnchanged, NothingMoves
<1>5. PushInv'
  BY <1>1, <1>2, <1>3, PushStays
<1>6. DataType'
  BY <1>1, DataStays DEF DataType
<1>7. QED BY <1>4, <1>5, <1>6

\* The batch slot the GPU thread pushes or releases is a ready one.
LEMMA BatchSlotReady ==
  ASSUME BatchFacts, gpu = "busy", NEW i \in Nat, i < allocated[taken]
  PROVE  /\ taken \in Bufs /\ i \in 0..(MaxBatch - 1) /\ <<taken, i>> \in ReadySlots
         /\ allocated[taken] \in Nat
<1>1. taken \in Bufs /\ allocated[taken] \in 0..MaxBatch
  BY DEF BatchFacts
<1>2. i \in 0..(MaxBatch - 1)
  BY <1>1, PipelineAssumption
<1>3. \A s \in Streams : held[s] = taken => slot[s] # i
  BY DEF BatchFacts
<1>4. QED BY <1>1, <1>2, <1>3, ReadyFacts

\* The result that PushResult hands to the queue, and who owns its ring slot.
TheResult == IF pusher = "out" THEN ResultOf(BatchMeta) ELSE pushing

\* Before the queue decides what becomes of it, the result owns the ring slot its batch
\* slot owned, or nothing without hold_frames.
LEMMA ResultFacts ==
  ASSUME PipeInv, BatchFacts, Pushing, BatchMeta.stream # None, HandOver, pusher \in {"out", "woken"}
  PROVE  /\ TheResult \in Metas
         /\ ~HoldFrames => TheResult.slot = NoSlot
         /\ meta' \in [Bufs -> [0..(MaxBatch - 1) -> Metas \cup {Abandoned}]]
         /\ meta'[taken][gi].stream # None
         /\ Own(At(ReadySlots, meta', q, TheResult, kept), in_use, rpc, want, Contents)
<1>. USE DEF PipeInv
<1>. DEFINE bi == <<taken, gi>>
            m == BatchMeta
<1>1. taken \in Bufs /\ gi \in 0..(MaxBatch - 1) /\ bi \in ReadySlots
  BY BatchSlotReady DEF Pushing, PushInv
<1>2. m = meta[taken][gi] /\ m \in Metas
  <2>0. meta \in [Bufs -> [0..(MaxBatch - 1) -> Metas \cup {Abandoned}]]
    BY DEF DataType
  <2>1. meta[taken][gi] \in Metas \cup {Abandoned}
    BY <1>1, <2>0
  <2>2. Abandoned.stream = None
    BY DEF Abandoned
  <2>3. QED BY <2>1, <2>2 DEF BatchMeta
<1>3. SameClaims(rpc, rpc, want, want)
  BY DEF SameClaims, DataType
<1>4. CASE pusher = "woken"
  <2>1. TheResult = pushing /\ meta' = meta /\ pushing \in Metas
    BY <1>4 DEF TheResult, HandOver, PushInv
  <2>2. QED BY <1>2, <2>1 DEF PushInv, DataType, Owns
<1>5. CASE pusher = "out" /\ HoldFrames
  <2>1. pushing = Abandoned /\ meta' = [meta EXCEPT ![taken][gi].slot = NoSlot]
    BY <1>5 DEF HandOver, PushInv
  <2>2. TheResult = [m EXCEPT !.slot = m.slot]
    BY <1>5 DEF TheResult, ResultOf
  <2>3. TheResult \in Metas /\ SameFrame(TheResult, m)
    BY <1>2, <2>2 DEF Metas, SameFrame
  <2>4. /\ meta' \in [Bufs -> [0..(MaxBatch - 1) -> Metas \cup {Abandoned}]]
        /\ meta'[taken][gi] = [m EXCEPT !.slot = NoSlot]
    <3>1. [m EXCEPT !.slot = NoSlot] \in Metas
      BY <1>2 DEF Metas
    <3>2. meta' = [meta EXCEPT ![taken] = [meta[taken] EXCEPT ![gi] = [m EXCEPT !.slot = NoSlot]]]
      BY <1>2, <2>1
    <3>. HIDE DEF m
    <3>3. QED BY <1>1, <3>1, <3>2 DEF DataType
  <2>5. meta'[taken][gi].slot = NoSlot /\ meta'[taken][gi].stream # None
    BY <1>2, <2>4 DEF Metas
  <2>6. \A c \in ReadySlots : c # bi => meta'[c[1]][c[2]] = meta[c[1]][c[2]]
    <3>1. ASSUME NEW c \in ReadySlots, c # bi PROVE meta'[c[1]][c[2]] = meta[c[1]][c[2]]
      <4>1. c = <<c[1], c[2]>> /\ c[1] \in Bufs /\ c[2] \in 0..(MaxBatch - 1)
        BY ReadyPairs DEF ReadySlots
      <4>2. ~(c[1] = taken /\ c[2] = gi)
        BY <3>1, <4>1
      <4>3. QED BY <1>1, <2>1, <4>1, <4>2 DEF DataType
    <3>2. QED BY <3>1
  <2>7. meta'[bi[1]][bi[2]].slot = NoSlot /\ SameFrame(TheResult, meta[bi[1]][bi[2]])
    BY <1>2, <2>3, <2>5
  <2>8. Own(At(ReadySlots, meta, q, Abandoned, kept), in_use, rpc, want, Contents)
    BY <2>1 DEF Owns
  <2>. HIDE DEF bi
  <2>9. Own(At(ReadySlots, meta', q, TheResult, kept), in_use, rpc, want, Contents)
    BY <1>1, <1>3, <2>6, <2>7, <2>8, BatchToPush
  <2>10. QED BY <1>5, <2>3, <2>4, <2>5, <2>9
<1>6. CASE pusher = "out" /\ ~HoldFrames
  <2>1. pushing = Abandoned /\ meta' = meta
    BY <1>6 DEF HandOver, PushInv
  <2>2. TheResult = [m EXCEPT !.slot = NoSlot]
    BY <1>6 DEF TheResult, ResultOf
  <2>3. TheResult \in Metas /\ TheResult.slot = NoSlot
    BY <1>2, <2>2 DEF Metas
  <2>4. Own(At(ReadySlots, meta, q, Abandoned, kept), in_use, rpc, want, Contents)
    BY <2>1 DEF Owns
  <2>5. Own(At(ReadySlots, meta, q, TheResult, kept), in_use, rpc, want, Contents)
    BY <1>3, <2>3, <2>4, EmptyToPush
  <2>6. QED BY <1>2, <2>1, <2>3, <2>5 DEF DataType
<1>7. QED BY <1>4, <1>5, <1>6

\* The rings after PushResult's queue call, and the queue.
LEMMA QueueCall ==
  ASSUME PipeInv, BatchFacts, PushResult
  PROVE  /\ Owns' /\ q' \in Seq(Metas)
         /\ ~HoldFrames => /\ \A i \in DOMAIN q' : q'[i].slot = NoSlot
                           /\ pushing'.slot = NoSlot
         /\ \/ pusher' = "out" /\ pushing' = Abandoned /\ gi' = gi + 1
            \/ pusher' = "asleep" /\ pushing' \in Metas /\ gi' = gi
         /\ in_use' \in [Streams -> [RingSlots -> BOOLEAN]]
         /\ rpc' \in [Streams -> R!RpcStates]
         /\ want' = want
         /\ \A s \in Streams : rpc'[s] \in {"claimed", "waitSlot", "wokenSlot"} => want'[s] \in RingSlots
<1>. USE DEF PipeInv
<1>. DEFINE r == TheResult
<1>1. /\ Pushing /\ BatchMeta.stream # None /\ HandOver /\ UNCHANGED <<copy, mem, kept>>
      /\ \/ Q!PushRoom(r) /\ gi' = gi + 1 /\ UNCHANGED ringVars
         \/ Q!PushWait(r) /\ UNCHANGED <<gi, ringVars>>
         \/ Q!PushEvict(r) /\ gi' = gi + 1 /\ R!ReleaseSlots(Owned({Head(q)}))
         \/ Q!PushDiscard(r) /\ gi' = gi + 1 /\ R!ReleaseSlots(Owned({r}))
  BY DEF PushResult, TheResult, producerVars, consumerVars, ringVars, R!ReleaseSlots
<1>2. pusher \in {"out", "woken"}
  BY <1>1 DEF Q!PushRoom, Q!PushWait, Q!PushEvict, Q!PushDiscard, Q!InPush
<1>3. /\ r \in Metas /\ (~HoldFrames => r.slot = NoSlot)
      /\ Own(At(ReadySlots, meta', q, r, kept), in_use, rpc, want, Contents)
  BY <1>1, <1>2, ResultFacts
<1>4. ReadySlots' = ReadySlots
  BY SamePlaces DEF PushResult, batcherVars
<1>5. q \in Seq(Metas) /\ (~HoldFrames => \A i \in DOMAIN q : q[i].slot = NoSlot) /\ Abandoned.slot = NoSlot
  BY DEF DataType, PushInv, Abandoned
<1>6. SameClaims(rpc, rpc, want, want)
  BY DEF SameClaims, DataType
<1>. HIDE DEF r
<1>7. CASE Q!PushRoom(r) /\ gi' = gi + 1 /\ UNCHANGED ringVars
  <2>1. q' = Append(q, r) /\ pusher' = "out" /\ pushing' = Abandoned
    BY <1>7 DEF Q!PushRoom, Q!Leave
  <2>2. Own(At(ReadySlots, meta', Append(q, r), Abandoned, kept), in_use, rpc, want, Contents)
    BY <1>3, <1>5, <1>6, PushToQueue
  <2>3. Owns'
    BY <1>1, <1>4, <1>7, <2>1, <2>2, SameContents DEF Owns, ringVars
  <2>4. q' \in Seq(Metas) /\ (~HoldFrames => \A i \in DOMAIN q' : q'[i].slot = NoSlot)
    BY <1>3, <1>5, <2>1, AppendOf
  <2>5. QED BY <1>5, <1>7, <2>1, <2>3, <2>4 DEF DataType, ringVars
<1>8. CASE Q!PushWait(r) /\ UNCHANGED <<gi, ringVars>>
  <2>1. q' = q /\ pusher' = "asleep" /\ pushing' = r
    BY <1>8 DEF Q!PushWait
  <2>2. Owns'
    BY <1>1, <1>3, <1>4, <1>8, <2>1, SameContents DEF Owns, ringVars
  <2>3. QED BY <1>3, <1>5, <1>8, <2>1, <2>2 DEF DataType, ringVars
<1>9. CASE Q!PushEvict(r) /\ gi' = gi + 1 /\ R!ReleaseSlots(Owned({Head(q)}))
  <2>1. q # <<>>
    <3>1. Capacity \in Nat \ {0} /\ Len(q) >= Capacity
      BY <1>9, PipelineAssumption DEF Q!PushEvict, Q!Full
    <3>2. QED BY <1>5, <3>1
  <2>2. q' = Append(Tail(q), r) /\ pusher' = "out" /\ pushing' = Abandoned
    BY <1>9 DEF Q!PushEvict, Q!Leave
  <2>3. RingsAfter(Head(q))
    BY <1>9, ReleaseOne
  <2>4. FreesOne(in_use, in_use', Head(q)) /\ SameClaims(rpc, rpc', want, want')
    BY <2>3 DEF RingsAfter
  <2>5. Own(At(ReadySlots, meta', Tail(q), r, kept), in_use', rpc', want', Contents)
    BY <1>3, <1>5, <2>1, <2>4, HeadDies
  <2>6. Tail(q) \in Seq(Metas) /\ SameClaims(rpc', rpc', want', want')
    BY <1>5, <2>1, <2>3, TailOf DEF RingsAfter, SameClaims
  <2>7. Own(At(ReadySlots, meta', Append(Tail(q), r), Abandoned, kept), in_use', rpc', want', Contents)
    BY <1>3, <2>5, <2>6, PushToQueue
  <2>8. Owns'
    BY <1>1, <1>4, <2>2, <2>7, SameContents DEF Owns
  <2>9. q' \in Seq(Metas) /\ (~HoldFrames => \A i \in DOMAIN q' : q'[i].slot = NoSlot)
    <3>1. ~HoldFrames => \A i \in DOMAIN Tail(q) : Tail(q)[i].slot = NoSlot
      BY <1>5, <2>1, TailOf
    <3>2. QED BY <1>3, <2>2, <2>6, <3>1, AppendOf
  <2>10. QED BY <1>5, <1>9, <2>2, <2>3, <2>8, <2>9 DEF RingsAfter
<1>10. CASE Q!PushDiscard(r) /\ gi' = gi + 1 /\ R!ReleaseSlots(Owned({r}))
  <2>1. q' = q /\ pusher' = "out" /\ pushing' = Abandoned
    BY <1>10 DEF Q!PushDiscard, Q!Leave
  <2>2. RingsAfter(r)
    BY <1>10, ReleaseOne
  <2>3. FreesOne(in_use, in_use', r) /\ SameClaims(rpc, rpc', want, want')
    BY <2>2 DEF RingsAfter
  <2>4. Own(At(ReadySlots, meta', q, Abandoned, kept), in_use', rpc', want', Contents)
    BY <1>3, <2>3, PushDies
  <2>5. Owns'
    BY <1>1, <1>4, <2>1, <2>4, SameContents DEF Owns
  <2>6. QED BY <1>5, <1>10, <2>1, <2>2, <2>5 DEF RingsAfter
<1>11. QED BY <1>1, <1>7, <1>8, <1>9, <1>10

\* Push: queued, blocked, or dead with its ring slot or the oldest result's freed.
LEMMA PushStep == ASSUME PipeInv, BatchFacts, PushResult PROVE PipeInv'
<1>. USE DEF PipeInv
<1>1. /\ Pushing /\ BatchMeta.stream # None /\ HandOver
      /\ UNCHANGED <<gpu, taken, allocated, kept>> /\ UNCHANGED producerVars
  BY DEF PushResult, batcherVars, consumerVars
<1>2. pusher \in {"out", "woken"}
  BY DEF PushResult, Q!PushRoom, Q!PushWait, Q!PushEvict, Q!PushDiscard, Q!InPush
<1>3. /\ meta' \in [Bufs -> [0..(MaxBatch - 1) -> Metas \cup {Abandoned}]]
      /\ meta'[taken][gi].stream # None
  BY <1>1, <1>2, ResultFacts
<1>4. gi \in Nat /\ allocated[taken] \in Nat /\ gpu = "busy" /\ gi < allocated[taken]
  BY <1>1, BatchSlotReady DEF PushInv, Pushing
<1>5. PushInv'
  <2>1. gi' \in Nat /\ gi' <= 2 * allocated'[taken'] /\ \A i \in 0..(MaxBatch - 1) : ~(i + allocated'[taken'] < gi')
    <3>1. gi' = gi + 1 \/ gi' = gi
      BY QueueCall
    <3>2. QED BY <1>1, <1>4, <3>1, PipelineAssumption
  <2>2. ~HoldFrames => /\ \A i \in DOMAIN q' : q'[i].slot = NoSlot
                       /\ pushing'.slot = NoSlot /\ kept' = {}
    BY <1>1, QueueCall DEF PushInv
  <2>3. CASE pusher' = "out" /\ pushing' = Abandoned /\ gi' = gi + 1
    BY <1>1, <1>4, <2>1, <2>2, <2>3 DEF PushInv
  <2>4. CASE pusher' = "asleep" /\ pushing' \in Metas /\ gi' = gi
    <3>1. Pushing' /\ BatchMeta'.stream # None
      BY <1>1, <1>3, <1>4, <2>4 DEF Pushing, BatchMeta
    <3>2. QED BY <1>1, <1>4, <2>1, <2>2, <2>4, <3>1 DEF PushInv
  <2>5. QED BY <2>3, <2>4, QueueCall
<1>6. DataType'
  <2>1. q' \in Seq(Metas) /\ pushing' \in Metas \cup {Abandoned}
    BY QueueCall
  <2>2. /\ in_use' \in [Streams -> [RingSlots -> BOOLEAN]]
        /\ rpc' \in [Streams -> R!RpcStates]
        /\ want' = want
        /\ \A s \in Streams : rpc'[s] \in {"claimed", "waitSlot", "wokenSlot"} => want'[s] \in RingSlots
    BY QueueCall
  <2>3. UNCHANGED <<copy, mem>>
    BY DEF PushResult, producerVars, ringVars, R!ReleaseSlots
  <2>4. QED BY <1>1, <1>3, <2>1, <2>2, <2>3 DEF DataType, producerVars
<1>7. QED BY <1>5, <1>6, QueueCall

\* What nobody took over is released, once.
LEMMA ReleaseRingStep == ASSUME PipeInv, BatchFacts, ReleaseRing PROVE PipeInv'
<1>. USE DEF PipeInv
<1>. DEFINE i == gi - allocated[taken]
            m == meta[taken][i]
            bi == <<taken, i>>
<1>1. /\ gpu = "busy" /\ gi' = gi + 1 /\ R!ReleaseSlots(Owned({m}))
      /\ meta' = [meta EXCEPT ![taken][i].slot = NoSlot]
      /\ UNCHANGED <<q, pushing, pusher, kept, gpu, taken, allocated, held, slot>> /\ UNCHANGED producerVars
  BY DEF ReleaseRing, Releasing, batcherVars, queueVars, consumerVars
<1>2. gi \in Nat /\ allocated[taken] \in Nat /\ allocated[taken] > 0 /\ taken \in Bufs
  BY <1>1 DEF PushInv, BatchFacts
<1>3. i \in Nat /\ i < allocated[taken] /\ gi = i + allocated[taken]
  BY <1>2 DEF ReleaseRing, Releasing
<1>. HIDE DEF i
<1>4. i \in 0..(MaxBatch - 1) /\ bi \in ReadySlots
  BY <1>1, <1>3, BatchSlotReady
<1>5. meta \in [Bufs -> [0..(MaxBatch - 1) -> Metas \cup {Abandoned}]]
  BY DEF DataType
<1>6. m \in Metas \cup {Abandoned}
  BY <1>2, <1>4, <1>5
<1>7. [m EXCEPT !.slot = NoSlot] \in Metas \cup {Abandoned} /\ [m EXCEPT !.slot = NoSlot].slot = NoSlot
  <2>1. CASE m \in Metas
    BY <2>1 DEF Metas
  <2>2. CASE m = Abandoned
    BY <2>2 DEF Abandoned
  <2>3. QED BY <1>6, <2>1, <2>2
<1>8. meta' = [meta EXCEPT ![taken] = [meta[taken] EXCEPT ![i] = [m EXCEPT !.slot = NoSlot]]]
  BY <1>1, <1>2, <1>4, <1>5
<1>. DEFINE m2 == [m EXCEPT !.slot = NoSlot]
<1>9. m2 \in Metas \cup {Abandoned} /\ m2.slot = NoSlot
      /\ meta' = [meta EXCEPT ![taken] = [meta[taken] EXCEPT ![i] = m2]]
  BY <1>7, <1>8
<1>. HIDE DEF m2
<1>10. /\ meta' \in [Bufs -> [0..(MaxBatch - 1) -> Metas \cup {Abandoned}]]
       /\ meta'[taken][i] = m2
       /\ \A j \in 0..(MaxBatch - 1) : j # i => meta'[taken][j] = meta[taken][j]
       /\ \A b \in Bufs : b # taken => meta'[b] = meta[b]
  BY <1>2, <1>4, <1>5, <1>9
<1>11. \A c \in ReadySlots : c # bi => meta'[c[1]][c[2]] = meta[c[1]][c[2]]
  <2>1. ASSUME NEW c \in ReadySlots, c # bi PROVE meta'[c[1]][c[2]] = meta[c[1]][c[2]]
    <3>1. c = <<c[1], c[2]>> /\ c[1] \in Bufs /\ c[2] \in 0..(MaxBatch - 1)
      BY ReadyPairs DEF ReadySlots
    <3>2. ~(c[1] = taken /\ c[2] = i)
      BY <2>1, <3>1
    <3>3. QED BY <1>10, <3>1, <3>2
  <2>2. QED BY <2>1
<1>12. RingsAfter(m)
  BY <1>1, ReleaseOne
<1>13. Own(At(ReadySlots, meta', q, pushing, kept), in_use', rpc', want', Contents)
  <2>1. FreesOne(in_use, in_use', meta[bi[1]][bi[2]]) /\ SameClaims(rpc, rpc', want, want')
    BY <1>12 DEF RingsAfter
  <2>2. meta'[bi[1]][bi[2]].slot = NoSlot
    BY <1>9, <1>10
  <2>3. Own(At(ReadySlots, meta, q, pushing, kept), in_use, rpc, want, Contents)
    BY DEF Owns
  <2>. HIDE DEF bi
  <2>4. QED BY <1>4, <1>11, <2>1, <2>2, <2>3, BatchDies
<1>14. Owns'
  <2>1. ReadySlots' = ReadySlots /\ UNCHANGED <<copy, mem>>
    BY <1>1, SamePlaces DEF producerVars, R!ReleaseSlots
  <2>2. QED BY <1>1, <1>13, <2>1, SameContents DEF Owns
<1>15. PushInv'
  <2>1. gi' \in Nat /\ gi' <= 2 * allocated'[taken']
    BY <1>1, <1>2, <1>3
  <2>2. ASSUME NEW j \in 0..(MaxBatch - 1), j + allocated'[taken'] < gi' PROVE meta'[taken'][j].slot = NoSlot
    <3>1. j = i \/ j + allocated[taken] < gi
      BY <1>1, <1>2, <1>3, <2>2
    <3>2. CASE j = i
      BY <1>1, <1>9, <1>10, <3>2
    <3>3. CASE j # i
      <4>1. meta[taken][j].slot = NoSlot
        BY <1>1, <3>1, <3>3 DEF PushInv
      <4>2. QED BY <1>1, <1>10, <3>3, <4>1
    <3>4. QED BY <3>2, <3>3
  <2>3. pusher = "out"
    BY <1>2, <1>3 DEF PushInv, Pushing
  <2>4. QED BY <1>1, <2>1, <2>2, <2>3 DEF PushInv
<1>16. DataType'
  <2>1. UNCHANGED <<copy, mem>>
    BY <1>1 DEF producerVars, R!ReleaseSlots
  <2>2. QED BY <1>1, <1>10, <1>12, <2>1 DEF DataType, producerVars, RingsAfter
<1>17. QED BY <1>14, <1>15, <1>16

\* A recycled batch owns nothing any more.
LEMMA RecycleStep == ASSUME PipeInv, BatchFacts, RecycleBatch PROVE PipeInv'
<1>. USE DEF PipeInv
<1>1. /\ gpu = "busy" /\ gi = 2 * allocated[taken] /\ B!Recycle /\ gi' = 0
      /\ UNCHANGED <<meta, q, pushing, pusher, kept, in_use, rpc, want, copy, mem>>
      /\ UNCHANGED producerVars /\ UNCHANGED ringVars
  BY DEF RecycleBatch, ringVars, queueVars, producerVars, consumerVars
<1>2. gi \in Nat /\ allocated[taken] \in Nat /\ allocated[taken] > 0 /\ taken \in Bufs
  BY <1>1 DEF PushInv, BatchFacts
<1>3. \A c \in ReadySlots \ ReadySlots' : meta[c[1]][c[2]].slot = NoSlot
  <2>1. ASSUME NEW c \in ReadySlots, c \notin ReadySlots' PROVE meta[c[1]][c[2]].slot = NoSlot
    <3>1. c[1] = taken
      BY <1>1, <2>1, RecycleRemoves
    <3>2. c[2] \in 0..(MaxBatch - 1) /\ c[2] < allocated[taken]
      BY <2>1, <3>1 DEF ReadySlots
    <3>3. c[2] + allocated[taken] < gi
      BY <1>1, <1>2, <3>2
    <3>4. QED BY <1>1, <3>1, <3>2, <3>3 DEF PushInv
  <2>2. QED BY <2>1
<1>4. ReadySlots' \subseteq ReadySlots
  BY <1>1, RecycleRemoves
<1>5. SameClaims(rpc, rpc, want, want)
  BY DEF SameClaims, DataType
<1>6. Own(At(ReadySlots', meta, q, pushing, kept), in_use, rpc, want, Contents)
  <2>1. Own(At(ReadySlots, meta, q, pushing, kept), in_use, rpc, want, Contents)
    BY DEF Owns
  <2>2. \A c \in ReadySlots' : IF c \in ReadySlots THEN meta[c[1]][c[2]] = meta[c[1]][c[2]]
                               ELSE meta[c[1]][c[2]].slot = NoSlot
    BY <1>4
  <2>3. QED BY <1>3, <1>5, <2>1, <2>2, ReadyChanges
<1>7. Owns'
  BY <1>1, <1>6, SameContents DEF Owns
<1>8. PushInv'
  <2>1. pusher = "out"
    BY <1>1, <1>2 DEF PushInv, Pushing
  <2>2. gpu' = "take"
    BY <1>1 DEF B!Recycle
  <2>3. QED BY <1>1, <2>1, <2>2 DEF PushInv
<1>9. DataType'
  BY <1>1, DataStays DEF DataType
<1>10. QED BY <1>7, <1>8, <1>9

\* A polled result is kept with the slot it holds, or held none.
LEMMA ConsumerSteps == ASSUME PipeInv, BatchFacts, ConsumerStep PROVE PipeInv'
<1>. USE DEF PipeInv
<1>1. PICK c \in Pollers : ConsumerPoll(c)
  BY DEF ConsumerStep
<1>2. /\ UNCHANGED <<meta, gi, in_use, rpc, want, copy, mem, gpu, taken, allocated, held, slot>>
      /\ UNCHANGED producerVars /\ UNCHANGED ringVars
  BY <1>1 DEF ConsumerPoll, batcherVars, ringVars, producerVars
<1>3. q \in Seq(Metas) /\ ReadySlots' = ReadySlots /\ SameClaims(rpc, rpc', want, want')
  BY <1>2, SamePlaces, ClaimsUnchanged DEF DataType
<1>4. CASE (Q!PollFinished(c) \/ Q!PollWait(c)) /\ UNCHANGED consumerVars
  <2>1. UNCHANGED <<q, pushing, pusher, kept>>
    BY <1>4 DEF Q!PollFinished, Q!PollWait, Q!PollMoves, consumerVars
  <2>2. QED BY <1>2, <1>3, <2>1, NothingMoves, PushStays, DataStays DEF DataType
<1>5. CASE /\ Q!PollOk(c)
           /\ kept' = IF HoldFrames THEN kept \cup {Head(q)} ELSE kept
  <2>1. /\ q # <<>> /\ q' = Tail(q) /\ pushing' = pushing
        /\ pusher' = pusher \/ (pusher = "asleep" /\ pusher' = "woken")
    BY <1>5 DEF Q!PollOk, Q!WakePusher
  <2>2. Own(At(ReadySlots, meta, q, pushing, kept), in_use, rpc, want, Contents)
    BY DEF Owns
  <2>3. Own(At(ReadySlots, meta, q', pushing, kept'), in_use, rpc, want, Contents)
    <3>1. CASE HoldFrames
      <4>1. Own(At(ReadySlots, meta, Tail(q), pushing, kept \cup {Head(q)}), in_use, rpc, want, Contents)
        BY <1>2, <1>3, <2>1, <2>2, HeadKept
      <4>2. QED BY <1>5, <2>1, <3>1, <4>1
    <3>2. CASE ~HoldFrames
      <4>1. Head(q).slot = NoSlot
        BY <1>3, <2>1, <3>2, TailOf DEF PushInv
      <4>2. FreesOne(in_use, in_use, Head(q))
        BY <4>1, PipelineAssumption DEF FreesOne, Refers, NoSlot, RingSlots
      <4>3. Own(At(ReadySlots, meta, Tail(q), pushing, kept), in_use, rpc, want, Contents)
        BY <1>2, <1>3, <2>1, <2>2, <4>2, HeadDies
      <4>4. QED BY <1>5, <2>1, <3>2, <4>3
    <3>3. QED BY <3>1, <3>2
  <2>4. Owns'
    BY <1>2, <1>3, <2>1, <2>3, SameContents DEF Owns
  <2>5. Tail(q) \in Seq(Metas) /\ Head(q) \in Metas
    BY <1>3, <2>1, TailOf
  <2>6. PushInv'
    <3>1. gi' \in Nat /\ (gpu' # "busy" => gi' = 0)
      BY <1>2 DEF PushInv
    <3>2. gpu' = "busy" => /\ gi' <= 2 * allocated'[taken']
                           /\ \A i \in 0..(MaxBatch - 1) :
                                i + allocated'[taken'] < gi' => meta'[taken'][i].slot = NoSlot
      BY <1>2 DEF PushInv
    <3>3. pusher' # "out" => pushing' \in Metas /\ Pushing' /\ BatchMeta'.stream # None
      BY <1>2, <2>1 DEF PushInv, Pushing, BatchMeta
    <3>4. /\ pusher' \in {"out", "asleep", "woken"}
          /\ pusher' = "out" => pushing' = Abandoned
      BY <2>1 DEF PushInv
    <3>5. ~HoldFrames => \A i \in DOMAIN q' : q'[i].slot = NoSlot
      BY <1>3, <2>1, TailOf DEF PushInv
    <3>6. ~HoldFrames => pushing'.slot = NoSlot /\ kept' = {}
      BY <1>5, <2>1 DEF PushInv
    <3>7. QED BY <3>1, <3>2, <3>3, <3>4, <3>5, <3>6 DEF PushInv
  <2>7. DataType'
    <3>1. q' \in Seq(Metas) /\ pushing' \in Metas \cup {Abandoned} /\ kept' \in SUBSET Metas
      BY <1>5, <2>1, <2>5 DEF DataType
    <3>2. QED BY <1>2, <3>1, DataStays
  <2>8. QED BY <2>4, <2>6, <2>7
<1>6. QED BY <1>1, <1>4, <1>5 DEF ConsumerPoll

\* A kept result dies and its ring slot is freed.
LEMMA ReleaseFrameStep ==
  ASSUME PipeInv, BatchFacts, NEW r \in kept, ReleaseFrame(r) PROVE PipeInv'
<1>. USE DEF PipeInv
<1>1. /\ kept' = kept \ {r} /\ R!ReleaseSlots(Owned({r}))
      /\ UNCHANGED <<meta, gi, q, pushing, pusher, copy, mem, gpu, taken, allocated, held, slot>>
      /\ UNCHANGED producerVars
  BY DEF ReleaseFrame, batcherVars, queueVars, producerVars, R!ReleaseSlots
<1>2. RingsAfter(r)
  BY <1>1, ReleaseOne
<1>3. Own(At(ReadySlots, meta, q, pushing, kept \ {r}), in_use', rpc', want', Contents)
  <2>1. Own(At(ReadySlots, meta, q, pushing, kept), in_use, rpc, want, Contents)
    BY DEF Owns
  <2>2. FreesOne(in_use, in_use', r) /\ SameClaims(rpc, rpc', want, want')
    BY <1>2 DEF RingsAfter
  <2>3. QED BY <2>1, <2>2, KeptDies
<1>4. Owns'
  BY <1>1, <1>3, SamePlaces, SameContents DEF Owns
<1>5. PushInv'
  BY <1>1 DEF PushInv, Pushing, BatchMeta
<1>6. DataType'
  BY <1>1, <1>2 DEF DataType, producerVars, RingsAfter
<1>7. QED BY <1>4, <1>5, <1>6

-----------------------------------------------------------------------------
(* The invariant, and the theorems *)

\* Nothing is owned at first.
LEMMA PipeInit == Init => PipeInv
<1>. SUFFICES ASSUME Init PROVE PipeInv
  OBVIOUS
<1>1. DataType
  <2>1. "loop" \in Ppcs /\ "out" \in R!RpcStates /\ 0 \in Nat
    BY DEF Ppcs, R!RpcStates
  <2>2. /\ q = <<>> /\ pushing = Abandoned /\ kept = {}
        /\ in_use = [s \in Streams |-> [k \in RingSlots |-> FALSE]]
        /\ rpc = [s \in Streams |-> "out"] /\ want = [s \in Streams |-> NoDims]
    BY DEF Init, Q!Init, R!Init, R!Slots, RingSlots
  <2>3. /\ decoded \in [Streams -> Nat] /\ ppc \in [Streams -> Ppcs]
        /\ \A s \in Streams : ppc[s] = "loop"
        /\ inferred \in [Streams -> Nat]
        /\ copy \in [Streams -> [RingSlots -> Nat]]
        /\ mem \in [Streams -> Dims \cup {NoDims}]
    BY <2>1 DEF Init, R!Init
  <2>4. meta \in [Bufs -> [0..(MaxBatch - 1) -> Metas \cup {Abandoned}]]
    BY DEF Init
  <2>5. QED BY <2>1, <2>2, <2>3, <2>4 DEF DataType
<1>2. PushInv
  BY DEF Init, B!Init, Q!Init, PushInv, Abandoned
<1>3. Owns
  <2>1. ReadySlots = {}
    BY DEF Init, B!Init, ReadySlots
  <2>2. DOMAIN q = {} /\ kept = {} /\ pushing.slot = NoSlot
    BY DEF Init, Q!Init, Abandoned
  <2>3. Live(At(ReadySlots, meta, q, pushing, kept)) = {}
    BY <2>1, <2>2, AtFacts
  <2>4. /\ \A s \in Streams : rpc[s] = "out"
        /\ \A s \in Streams, k \in RingSlots : ~in_use[s][k]
    BY DEF Init, R!Init, R!Slots, RingSlots
  <2>5. QED BY <2>3, <2>4 DEF Owns, Own
<1>4. QED BY <1>1, <1>2, <1>3 DEF PipeInv

\* Every step keeps the invariant, given what the batcher promises.
LEMMA PipeStep == PipeInv /\ BatchFacts /\ BatchFacts' /\ [Next]_vars => PipeInv'
<1>. SUFFICES ASSUME PipeInv, BatchFacts, BatchFacts', [Next]_vars PROVE PipeInv'
  OBVIOUS
<1>1. ASSUME NEW s \in Streams, ProducerStep(s) PROVE PipeInv'
  BY <1>1, QuietProducerSteps, AcquireRingStep, GiveUpStep, PreprocessStep, ThrowsStep DEF ProducerStep
<1>2. CASE GpuStep
  BY <1>2, TakeStep, SkipStep, PushStep, ReleaseRingStep, RecycleStep, FinishAndStopSteps DEF GpuStep
<1>3. CASE ConsumerStep
  BY <1>3, ConsumerSteps
<1>4. CASE \E r \in kept : ReleaseFrame(r)
  BY <1>4, ReleaseFrameStep
<1>5. CASE StopCalled \/ StopStep
  BY <1>5, FinishAndStopSteps
<1>6. CASE UNCHANGED vars
  <2>1. /\ UNCHANGED <<meta, q, pushing, pusher, kept, in_use, copy, mem, gi, rpc, want, allocated, held, slot, gpu, taken>>
        /\ UNCHANGED producerVars /\ UNCHANGED ringVars
    BY <1>6 DEF vars, batcherVars, ringVars, queueVars, producerVars, consumerVars
  <2>2. QED BY <2>1, SamePlaces, ClaimsUnchanged, NothingMoves, PushStays, DataStays DEF PipeInv, DataType
<1>7. QED BY <1>1, <1>2, <1>3, <1>4, <1>5, <1>6 DEF Next

\* The invariant holds.
LEMMA PipeInvariant == Spec => []PipeInv
<1>1. QED BY PipeInit, PipeStep, BatchInvariant, PTL DEF Spec

\* A set that holds exactly what satisfies P, when at most one does.
LEMMA OneMember ==
  ASSUME NEW S, NEW cond \in BOOLEAN, \A x, y \in S : x = y, cond <=> S # {}
  PROVE  Cardinality(S) = One(cond)
<1>1. CASE S = {}
  BY <1>1, FS_EmptySet DEF One
<1>2. CASE S # {}
  <2>1. PICK x : S = {x}
    BY <1>2
  <2>2. QED BY <1>2, <2>1, FS_Singleton DEF One
<1>3. QED BY <1>1, <1>2

\* The number of owners of a ring slot, counted place by place.
LEMMA InvariantCounts ==
  ASSUME Owns, NEW s \in Streams, NEW k \in RingSlots
  PROVE  Owners(s, k) = One(in_use[s][k])
<1>. DEFINE A == At(ReadySlots, meta, q, pushing, kept)
            InBatch == {bi \in ReadySlots : Refers(MetaAt(bi), s, k)}
            InQueue == {i \in DOMAIN q : Refers(q[i], s, k)}
            InKept == {r \in kept : Refers(r, s, k)}
            claimed == rpc[s] = "claimed" /\ want[s] = k
            pushed == Refers(pushing, s, k)
<1>1. k # NoSlot
  BY PipelineAssumption DEF RingSlots, NoSlot
<1>2. /\ \A bi \in InBatch : <<"batch", bi>> \in Live(A) /\ Refers(A[<<"batch", bi>>], s, k)
      /\ \A i \in InQueue : <<"queue", i>> \in Live(A) /\ Refers(A[<<"queue", i>>], s, k)
      /\ \A r \in InKept : <<"kept", r>> \in Live(A) /\ Refers(A[<<"kept", r>>], s, k)
      /\ pushed => <<"push", 0>> \in Live(A) /\ Refers(A[<<"push", 0>>], s, k)
  BY <1>1, AtFacts DEF Refers, MetaAt
<1>3. \A x \in Live(A) : Refers(A[x], s, k) =>
        \/ \E bi \in InBatch : x = <<"batch", bi>>
        \/ \E i \in InQueue : x = <<"queue", i>>
        \/ pushed /\ x = <<"push", 0>>
        \/ \E r \in InKept : x = <<"kept", r>>
  BY AtFacts DEF MetaAt
<1>4. /\ \A x, y \in Live(A) : Refers(A[x], s, k) /\ Refers(A[y], s, k) => x = y
      /\ \A x \in Live(A) : Refers(A[x], s, k) => ~claimed /\ in_use[s][k]
      /\ claimed => in_use[s][k]
      /\ in_use[s][k] => claimed \/ \E x \in Live(A) : Refers(A[x], s, k)
  BY DEF Owns, Own, Refers
<1>. HIDE DEF A, InBatch, InQueue, InKept, pushed
<1>5. /\ \A x, y \in InBatch : x = y
      /\ \A x, y \in InQueue : x = y
      /\ \A x, y \in InKept : x = y
  <2>1. \A x, y : <<"batch", x>> = <<"batch", y>> \/ <<"queue", x>> = <<"queue", y>>
                    \/ <<"kept", x>> = <<"kept", y>> => x = y
    OBVIOUS
  <2>2. QED BY <1>2, <1>4, <2>1
<1>. DEFINE b == InBatch # {}
            u == InQueue # {}
            h == InKept # {}
<1>6. Cardinality(InBatch) = One(b) /\ Cardinality(InQueue) = One(u) /\ Cardinality(InKept) = One(h)
  BY <1>5, OneMember
<1>7. /\ ~(b /\ (u \/ h \/ pushed)) /\ ~(u /\ (h \/ pushed)) /\ ~(h /\ pushed)
      /\ claimed => ~(b \/ u \/ h \/ pushed)
      /\ in_use[s][k] <=> claimed \/ b \/ u \/ h \/ pushed
  <2>1. \A x, y : /\ <<"batch", x>> # <<"queue", y>> /\ <<"batch", x>> # <<"kept", y>>
                  /\ <<"batch", x>> # <<"push", 0>> /\ <<"queue", x>> # <<"kept", y>>
                  /\ <<"queue", x>> # <<"push", 0>> /\ <<"kept", x>> # <<"push", 0>>
    OBVIOUS
  <2>2. ~(b /\ (u \/ h \/ pushed)) /\ ~(u /\ (h \/ pushed)) /\ ~(h /\ pushed)
    BY <1>2, <1>4, <2>1
  <2>3. claimed => ~(b \/ u \/ h \/ pushed)
    BY <1>2, <1>4
  <2>4. in_use[s][k] <=> claimed \/ b \/ u \/ h \/ pushed
    BY <1>2, <1>3, <1>4
  <2>5. QED BY <2>2, <2>3, <2>4
<1>8. Owners(s, k) = One(claimed) + One(b) + One(u) + One(pushed) + One(h)
  BY <1>6 DEF Owners, InBatch, InQueue, InKept, pushed
<1>. HIDE DEF b, u, h, claimed
<1>9. One(claimed) + One(b) + One(u) + One(pushed) + One(h) = One(in_use[s][k])
  BY <1>7 DEF One
<1>10. QED BY <1>8, <1>9

\* Every ring slot in use has exactly one owner that will release it, whatever the number
\* of cameras, the ring depth, the queue's capacity and the skip factor, and through
\* evictions, exceptions and Stop() alike.
THEOREM OneOwner == Spec => []SlotHasOneOwner
<1>1. PipeInv => SlotHasOneOwner
  BY InvariantCounts DEF PipeInv, SlotHasOneOwner
<1>2. QED BY <1>1, PipeInvariant, PTL

\* The ring slot behind a preprocessed, queued or held frame holds that very frame.
THEOREM CopiesIntact == Spec => []FrameCopyIntact
<1>1. PipeInv => FrameCopyIntact
  <2>1. SUFFICES ASSUME Owns, NEW m \in LiveMetas, m.slot # NoSlot
                 PROVE  copy[m.stream][m.slot] = m.no \/ mem[m.stream] = NoDims
    BY DEF PipeInv, FrameCopyIntact
  <2>. DEFINE A == At(ReadySlots, meta, q, pushing, kept)
  <2>2. \E x \in Live(A) : A[x] = m
    <3>1. CASE \E bi \in ReadySlots : m = MetaAt(bi)
      <4>1. PICK bi \in ReadySlots : m = meta[bi[1]][bi[2]]
        BY <3>1 DEF MetaAt
      <4>2. <<"batch", bi>> \in Live(A) /\ A[<<"batch", bi>>] = m
        BY <2>1, <4>1, AtFacts
      <4>. HIDE DEF A
      <4>3. QED BY <4>2
    <3>2. CASE \E i \in DOMAIN q : m = q[i]
      <4>1. PICK i \in DOMAIN q : m = q[i]
        BY <3>2
      <4>2. <<"queue", i>> \in Live(A) /\ A[<<"queue", i>>] = m
        BY <2>1, <4>1, AtFacts
      <4>. HIDE DEF A
      <4>3. QED BY <4>2
    <3>3. CASE m = pushing
      <4>1. <<"push", 0>> \in Live(A) /\ A[<<"push", 0>>] = m
        BY <2>1, <3>3, AtFacts
      <4>. HIDE DEF A
      <4>2. QED BY <4>1
    <3>4. CASE m \in kept
      <4>1. <<"kept", m>> \in Live(A) /\ A[<<"kept", m>>] = m
        BY <2>1, <3>4, AtFacts
      <4>. HIDE DEF A
      <4>2. QED BY <4>1
    <3>5. QED BY <3>1, <3>2, <3>3, <3>4 DEF LiveMetas
  <2>3. m.stream \in Streams /\ m.slot \in RingSlots /\ m.no \in Contents[m.stream][m.slot]
    BY <2>1, <2>2 DEF Owns, Own
  <2>4. QED BY <2>3 DEF Contents
<1>2. QED BY <1>1, PipeInvariant, PTL

-----------------------------------------------------------------------------
(* The data plane uses the queue *)

\* The queue's steps, in the instance the proofs about it are made in.
LEMMA QueueSteps ==
  /\ \A r \in Metas : Q!PushRoom(r) => QP!PushRoom(r)
  /\ \A r \in Metas : Q!PushWait(r) => QP!PushWait(r)
  /\ \A r \in Metas : Q!PushEvict(r) => QP!PushEvict(r)
  /\ \A r \in Metas : Q!PushDiscard(r) => QP!PushDiscard(r)
  /\ Q!MarkFinished => QP!MarkFinished
  /\ Q!QueueStop => QP!QueueStop
  /\ \A c \in Pollers : Q!PollOk(c) => QP!PollOk(c)
  /\ \A c \in Pollers : Q!PollFinished(c) => QP!PollFinished(c)
  /\ \A c \in Pollers : Q!PollWait(c) => QP!PollWait(c)
<1>1. \A r \in Metas : Q!InPush(r) <=> QP!InPush(r)
  BY DEF Q!InPush, QP!InPush, Q!Cardinality, QP!Cardinality
<1>2. \A r \in Metas : Q!PushRoom(r) => QP!PushRoom(r)
  BY <1>1 DEF Q!PushRoom, QP!PushRoom, Q!Full, QP!Full, Q!NotifyOnePoller, QP!NotifyOnePoller,
              Q!Leave, QP!Leave, Q!CountPush, QP!CountPush
<1>3. \A r \in Metas : Q!PushWait(r) => QP!PushWait(r)
  BY <1>1 DEF Q!PushWait, QP!PushWait, Q!Full, QP!Full, Q!CountPush, QP!CountPush
<1>4. \A r \in Metas : Q!PushEvict(r) => QP!PushEvict(r)
  BY <1>1 DEF Q!PushEvict, QP!PushEvict, Q!Full, QP!Full, Q!NotifyOnePoller, QP!NotifyOnePoller,
              Q!Leave, QP!Leave, Q!CountPush, QP!CountPush
<1>5. \A r \in Metas : Q!PushDiscard(r) => QP!PushDiscard(r)
  BY <1>1 DEF Q!PushDiscard, QP!PushDiscard, Q!Leave, QP!Leave, Q!CountPush, QP!CountPush
<1>6. Q!MarkFinished => QP!MarkFinished
  BY DEF Q!MarkFinished, QP!MarkFinished, Q!NotifyAllPollers, QP!NotifyAllPollers
<1>7. Q!QueueStop => QP!QueueStop
  BY DEF Q!QueueStop, QP!QueueStop, Q!WakePusher, QP!WakePusher, Q!NotifyAllPollers, QP!NotifyAllPollers
<1>8. \A c \in Pollers : Q!PollOk(c) => QP!PollOk(c)
  BY DEF Q!PollOk, QP!PollOk, Q!InPoll, QP!InPoll, Q!WakePusher, QP!WakePusher
<1>9. \A c \in Pollers : Q!PollFinished(c) => QP!PollFinished(c)
  BY DEF Q!PollFinished, QP!PollFinished, Q!InPoll, QP!InPoll, Q!PollReady, QP!PollReady,
         Q!PollMoves, QP!PollMoves
<1>10. \A c \in Pollers : Q!PollWait(c) => QP!PollWait(c)
  BY DEF Q!PollWait, QP!PollWait, Q!InPoll, QP!InPoll, Q!PollReady, QP!PollReady,
         Q!PollMoves, QP!PollMoves
<1>11. QED BY <1>2, <1>3, <1>4, <1>5, <1>6, <1>7, <1>8, <1>9, <1>10

\* Every step of the data plane is one of the queue's or leaves it alone; what PushResult
\* pushes is a result.
LEMMA StepUsesQueue == PipeInv /\ BatchFacts /\ [Next]_vars => [QP!Next]_QP!qvars
<1>. SUFFICES ASSUME PipeInv, BatchFacts, [Next]_vars PROVE QP!Next \/ UNCHANGED queueVars
  BY DEF queueVars, QP!qvars
<1>1. ASSUME PushResult PROVE QP!Next
  <2>1. /\ Pushing /\ BatchMeta.stream # None /\ HandOver
        /\ \/ Q!PushRoom(TheResult) \/ Q!PushWait(TheResult)
           \/ Q!PushEvict(TheResult) \/ Q!PushDiscard(TheResult)
    BY <1>1 DEF PushResult, TheResult
  <2>2. pusher \in {"out", "woken"}
    BY <2>1 DEF Q!PushRoom, Q!PushWait, Q!PushEvict, Q!PushDiscard, Q!InPush
  <2>3. TheResult \in Metas
    BY <2>1, <2>2, ResultFacts
  <2>4. QED BY <2>1, <2>3, QueueSteps DEF QP!Next, QP!PusherStep, QP!Push
<1>2. ASSUME ConsumerStep PROVE QP!Next
  <2>1. PICK c \in Pollers : Q!PollOk(c) \/ Q!PollFinished(c) \/ Q!PollWait(c)
    BY <1>2 DEF ConsumerStep, ConsumerPoll
  <2>2. QED BY <2>1, QueueSteps DEF QP!Next, QP!PollStep
<1>3. ASSUME GpuStep, ~PushResult PROVE QP!Next \/ UNCHANGED queueVars
  BY <1>3, QueueSteps DEF GpuStep, Take, SkipAbandoned, ReleaseRing, RecycleBatch, FinishRun, QP!Next,
                          QP!PusherStep
<1>4. ASSUME NEW s \in Streams, ProducerStep(s) PROVE UNCHANGED queueVars
  BY <1>4 DEF ProducerStep, Decode, EnsureRing, AcquireRing, AcquireBatch, GiveUpRingSlot, Preprocess,
              PreprocessThrows, LeaveLoop
<1>5. ASSUME StopCalled \/ StopStep \/ \E r \in kept : ReleaseFrame(r) PROVE QP!Next \/ UNCHANGED queueVars
  BY <1>5, QueueSteps DEF StopCalled, StopStep, StopFlag, StopBatcher, StopJoin, ReleaseFrame, QP!Next
<1>6. CASE UNCHANGED vars
  BY <1>6 DEF vars
<1>7. QED BY <1>1, <1>2, <1>3, <1>4, <1>5, <1>6 DEF Next

\* The GPU thread, the pollers and Stop() call the result queue as its specification
\* allows, so that every result pushed is handed out, queued, counted as dropped or
\* discarded by Stop().
THEOREM UsesQueue == Spec => QP!Spec /\ []QP!NothingVanishes
<1>1. Init => QP!Init
  BY DEF Init, Q!Init, QP!Init
<1>2. QP!Spec => []QP!NothingVanishes
  <2>1. Capacity \in Nat \ {0} /\ Modes \subseteq BOOLEAN
    BY PipelineAssumption
  <2>2. Cardinality(Streams) * MaxFrames \in Nat
    BY PipelineAssumption, FS_CardinalityType
  <2>3. QP!Cardinality(Streams) * MaxFrames \in Nat
    BY <2>2 DEF Cardinality, QP!Cardinality
  <2>4. QED
    BY <2>1, <2>2, <2>3, QP!QueueLosesNothing
       DEF QP!CapacityAssumption, QP!ModesAssumption, QP!MaxPushesAssumption
<1>3. QED BY <1>1, <1>2, StepUsesQueue, PipeInvariant, BatchInvariant, PTL DEF Spec, QP!Spec

-----------------------------------------------------------------------------
(* Frame order: the invariant *)

\* The stream and the number of the frame in a batch slot.
StreamAt(mt, c) == mt[c[1]][c[2]].stream
NoAt(mt, c) == mt[c[1]][c[2]].no

\* The buffers in the order the GPU thread pushes them: the one it has, the queued ones,
\* the one being filled.
BufOrder ==
  {bc \in Bufs \X Bufs :
     \/ bc[1] = taken /\ bc[2] # taken
     \/ \E k, l \in DOMAIN pending : k < l /\ pending[k] = bc[1] /\ pending[l] = bc[2]
     \/ bc[1] \in B!InPending /\ bc[2] = filling}

\* Slot c is pushed before slot d, when buffers are pushed in order ord.
Before(ord, c, d) == <<c[1], d[1]>> \in ord \/ (c[1] = d[1] /\ c[2] < d[2])

\* The frames of a stream are in order in the queue qq, and there before the unpushed slots us.
QueueOrder(qq, us, mt) ==
  /\ \A i, j \in DOMAIN qq : i < j /\ qq[i].stream = qq[j].stream => qq[i].no < qq[j].no
  /\ \A i \in DOMAIN qq, c \in us : qq[i].stream = StreamAt(mt, c) => qq[i].no < NoAt(mt, c)

\* They are in order in the batches, where abandoned slots belong to no stream.
BatchOrder(us, mt, ord) ==
  \A c, d \in us :
    Before(ord, c, d) /\ StreamAt(mt, c) = StreamAt(mt, d) /\ StreamAt(mt, c) # None
      => NoAt(mt, c) < NoAt(mt, d)

\* The slot a producer is writing comes after all its others.
ClaimsLast(us, mt, ord, hd, sl) ==
  \A s \in Streams : hd[s] # None =>
    \A c \in us : StreamAt(mt, c) = s => Before(ord, c, <<hd[s], sl[s]>>)

\* Frame n of stream s is queued or in a batch slot that is not pushed yet.
Flying(qq, us, mt, s, n) ==
  \/ \E i \in DOMAIN qq : qq[i].stream = s /\ qq[i].no = n
  \/ \E c \in us : StreamAt(mt, c) = s /\ NoAt(mt, c) = n

\* Frames in flight come after the shown ones and were decoded; the frame a producer works
\* on is later than all of them.
FlightNumbers(qq, us, mt, sh, dec, pc) ==
  \A s \in Streams :
    /\ sh[s] <= dec[s]
    /\ \A n \in FrameNos : Flying(qq, us, mt, s, n) => sh[s] < n /\ n <= dec[s]
    /\ pc[s] \in {"ring", "batch", "preprocess"} =>
         /\ sh[s] < dec[s]
         /\ \A n \in FrameNos : Flying(qq, us, mt, s, n) => n < dec[s]

OrderInv ==
  /\ shown \in [Streams -> Nat]
  /\ pusher # "out" => pushing.stream = BatchMeta.stream /\ pushing.no = BatchMeta.no
  /\ QueueOrder(q, Unpushed, meta)
  /\ BatchOrder(Unpushed, meta, BufOrder)
  /\ ClaimsLast(Unpushed, meta, BufOrder, held, slot)
  /\ FlightNumbers(q, Unpushed, meta, shown, decoded, ppc)

\* Where the batch buffers are.
BufferFacts ==
  /\ pending \in Seq(Bufs) /\ taken \in Bufs \cup {None}
  /\ \A i, j \in DOMAIN pending : pending[i] = pending[j] => i = j
  /\ filling \notin B!InPending /\ taken \notin B!InPending
  /\ free_bufs \cap B!InPending = {} /\ filling \notin free_bufs
  /\ \A b \in Bufs : allocated[b] > 0 => b \in B!InPending \cup {filling, taken}
  /\ taken # None => gpu \in {"straggling", "recheck", "busy"}

\* The batcher's invariant again, as the order needs it.
LEMMA BufferInvariant == Spec => []BufferFacts
<1>1. None \notin Bufs
  BY PipelineAssumption
<1>2. BP!IInv => BufferFacts
  <2>1. SUFFICES ASSUME BP!TypeOK, BP!Bookkeeping, BP!BuffersPartitioned PROVE BufferFacts
    BY DEF BP!IInv
  <2>2. /\ pending \in Seq(Bufs) /\ taken \in Bufs \cup {None} /\ free_bufs \in SUBSET Bufs
        /\ allocated \in [Bufs -> 0..MaxBatch] /\ filling \in Bufs \cup {None}
    BY <2>1 DEF BP!TypeOK, BP!BufOrNone
  <2>3. B!InPending = BP!InPending /\ B!InPending \subseteq Bufs
    BY <2>2 DEF B!InPending, BP!InPending
  <2>4. /\ \A i, j \in DOMAIN pending : pending[i] = pending[j] => i = j
        /\ filling \notin B!InPending /\ taken \notin B!InPending
        /\ free_bufs \cap B!InPending = {}
        /\ filling \notin free_bufs
    BY <1>1, <2>1, <2>2, <2>3 DEF BP!BuffersPartitioned
  <2>5. \A b \in Bufs : allocated[b] > 0 => b \in B!InPending \cup {filling, taken}
    <3>1. \A b \in free_bufs : ~(allocated[b] > 0)
      BY <2>1, <2>2 DEF BP!Bookkeeping
    <3>2. QED BY <2>1, <2>3, <3>1 DEF BP!BuffersPartitioned
  <2>6. taken # None => gpu \in {"straggling", "recheck", "busy"}
    BY <2>1 DEF BP!Bookkeeping
  <2>7. QED BY <2>2, <2>4, <2>5, <2>6 DEF BufferFacts
<1>3. QED BY <1>2, UsesBatcher, BatcherInvariant, PTL

-----------------------------------------------------------------------------
(* Frame order: what keeps the order *)

\* Slots may be pushed or given up, and buffers may move on, as long as the order of what
\* is left is the same.
LEMMA BatchOrderKept ==
  ASSUME NEW us, NEW us2, NEW mt, NEW mt2, NEW ord, NEW ord2, NEW hd, NEW hd2, NEW sl, NEW sl2,
         BatchOrder(us, mt, ord), ClaimsLast(us, mt, ord, hd, sl),
         \A c \in us2 : StreamAt(mt2, c) # None =>
            c \in us /\ StreamAt(mt2, c) = StreamAt(mt, c) /\ NoAt(mt2, c) = NoAt(mt, c),
         \A c, d \in us2 : <<c[1], d[1]>> \in ord2 => <<c[1], d[1]>> \in ord,
         \A s \in Streams : hd2[s] # None => hd2[s] = hd[s] /\ sl2[s] = sl[s],
         \A s \in Streams : hd2[s] # None =>
            \A c \in us2 : <<c[1], hd[s]>> \in ord => <<c[1], hd[s]>> \in ord2
  PROVE  BatchOrder(us2, mt2, ord2) /\ ClaimsLast(us2, mt2, ord2, hd2, sl2)
<1>1. None \notin Streams
  BY PipelineAssumption
<1>2. ASSUME NEW c \in us2, NEW d \in us2, Before(ord2, c, d), StreamAt(mt2, c) = StreamAt(mt2, d),
             StreamAt(mt2, c) # None
      PROVE  NoAt(mt2, c) < NoAt(mt2, d)
  <2>1. Before(ord, c, d)
    BY <1>2 DEF Before
  <2>2. c \in us /\ d \in us /\ StreamAt(mt, c) = StreamAt(mt, d) /\ StreamAt(mt, c) # None
        /\ NoAt(mt2, c) = NoAt(mt, c) /\ NoAt(mt2, d) = NoAt(mt, d)
    BY <1>2
  <2>3. QED BY <2>1, <2>2 DEF BatchOrder
<1>3. ASSUME NEW s \in Streams, hd2[s] # None, NEW c \in us2, StreamAt(mt2, c) = s
      PROVE  Before(ord2, c, <<hd2[s], sl2[s]>>)
  <2>1. c \in us /\ StreamAt(mt, c) = s /\ hd2[s] = hd[s] /\ sl2[s] = sl[s]
    BY <1>1, <1>3
  <2>2. Before(ord, c, <<hd[s], sl[s]>>)
    BY <1>3, <2>1 DEF ClaimsLast
  <2>3. QED BY <1>3, <2>1, <2>2 DEF Before
<1>4. QED BY <1>2, <1>3 DEF BatchOrder, ClaimsLast

\* What is in flight, as the line of each stream.
LEMMA LineFacts ==
  /\ DOMAIN Line = Streams
  /\ \A s \in Streams : \A n : n \in Line[s] <=> n \in FrameNos /\ Flying(q, Unpushed, meta, s, n)
<1>1. \A s, n : <<s, n>> \in InFlight <=> Flying(q, Unpushed, meta, s, n)
  BY DEF InFlight, Flying, StreamAt, NoAt, MetaAt
<1>2. QED BY <1>1 DEF Line

\* The same after a step.
LEMMA LineFactsNext ==
  /\ DOMAIN Line' = Streams
  /\ \A s \in Streams : \A n : n \in Line'[s] <=> n \in FrameNos /\ Flying(q', Unpushed', meta', s, n)
<1>1. \A s, n : <<s, n>> \in InFlight' <=> Flying(q', Unpushed', meta', s, n)
  BY DEF InFlight, Flying, StreamAt, NoAt, MetaAt
<1>2. QED BY <1>1 DEF Line

\* Steps after which the same frames are in flight.
LEMMA SameLine ==
  ASSUME \A s \in Streams, n \in FrameNos :
           Flying(q', Unpushed', meta', s, n) <=> Flying(q, Unpushed, meta, s, n)
  PROVE  Line' = Line
<1>1. \A s \in Streams : Line'[s] = Line[s]
  BY LineFacts, LineFactsNext
<1>2. Line = [s \in Streams |-> Line[s]] /\ Line' = [s \in Streams |-> Line'[s]]
  BY DEF Line
<1>3. QED BY <1>1, <1>2

\* Streams and numbers of what the batch slots and the queue hold.
LEMMA MetaTypes ==
  ASSUME DataType
  PROVE  /\ \A c \in ReadySlots : StreamAt(meta, c) \in Streams \cup {None} /\ NoAt(meta, c) \in Nat
         /\ \A c \in ReadySlots : StreamAt(meta, c) # None => NoAt(meta, c) \in FrameNos
         /\ \A i \in DOMAIN q : q[i].stream \in Streams /\ q[i].no \in FrameNos
         /\ Unpushed \subseteq ReadySlots
<1>1. ASSUME NEW c \in ReadySlots PROVE meta[c[1]][c[2]] \in Metas \cup {Abandoned}
  <2>1. c[1] \in Bufs /\ c[2] \in 0..(MaxBatch - 1)
    BY DEF ReadySlots
  <2>2. meta \in [Bufs -> [0..(MaxBatch - 1) -> Metas \cup {Abandoned}]]
    BY DEF DataType
  <2>3. QED BY <2>1, <2>2
<1>2. /\ \A m \in Metas : m.stream \in Streams /\ m.no \in FrameNos /\ m.no \in Nat
      /\ Abandoned.stream = None /\ Abandoned.no \in Nat
  BY DEF Metas, Abandoned, FrameNos
<1>3. ASSUME NEW c \in ReadySlots
      PROVE  /\ StreamAt(meta, c) \in Streams \cup {None} /\ NoAt(meta, c) \in Nat
             /\ StreamAt(meta, c) # None => NoAt(meta, c) \in FrameNos
  BY <1>1, <1>2 DEF StreamAt, NoAt
<1>4. \A i \in DOMAIN q : q[i] \in Metas
  BY DEF DataType
<1>5. Unpushed \subseteq ReadySlots
  BY DEF Unpushed
<1>6. QED BY <1>2, <1>3, <1>4, <1>5

\* One more is later.
LEMMA NextIsLater == \A n, m \in Nat : n <= m => n < m + 1 /\ n <= m + 1
OBVIOUS

\* The queue and the numbers, when the batches only lose abandoned slots and gain none of a
\* stream's frames.
LEMMA QueueKept ==
  ASSUME QueueOrder(q, Unpushed, meta), FlightNumbers(q, Unpushed, meta, shown, decoded, ppc),
         \A i \in DOMAIN q : q[i].stream \in Streams,
         \A c \in Unpushed' : StreamAt(meta', c) # None =>
            c \in Unpushed /\ StreamAt(meta', c) = StreamAt(meta, c) /\ NoAt(meta', c) = NoAt(meta, c),
         \A c \in Unpushed : StreamAt(meta, c) # None =>
            c \in Unpushed' /\ StreamAt(meta', c) = StreamAt(meta, c) /\ NoAt(meta', c) = NoAt(meta, c),
         \A s \in Streams : shown[s] \in Nat /\ decoded[s] \in Nat,
         \A s \in Streams :
           \/ /\ decoded'[s] = decoded[s]
              /\ ppc'[s] \in {"ring", "batch", "preprocess"} => ppc[s] \in {"ring", "batch", "preprocess"}
           \/ decoded'[s] = decoded[s] + 1
  PROVE  /\ QueueOrder(q, Unpushed', meta')
         /\ FlightNumbers(q, Unpushed', meta', shown, decoded', ppc')
         /\ \A s \in Streams, n \in FrameNos : Flying(q, Unpushed', meta', s, n) <=> Flying(q, Unpushed, meta, s, n)
<1>1. None \notin Streams
  BY PipelineAssumption
<1>2. QueueOrder(q, Unpushed', meta')
  BY <1>1 DEF QueueOrder
<1>3. \A s \in Streams, n \in FrameNos : Flying(q, Unpushed', meta', s, n) <=> Flying(q, Unpushed, meta, s, n)
  BY <1>1 DEF Flying
<1>4. ASSUME NEW s \in Streams
      PROVE  /\ shown[s] <= decoded'[s]
             /\ \A n \in FrameNos : Flying(q, Unpushed', meta', s, n) => shown[s] < n /\ n <= decoded'[s]
             /\ ppc'[s] \in {"ring", "batch", "preprocess"} =>
                  /\ shown[s] < decoded'[s]
                  /\ \A n \in FrameNos : Flying(q, Unpushed', meta', s, n) => n < decoded'[s]
  <2>1. FrameNos \subseteq Nat
    BY DEF FrameNos
  <2>2. /\ shown[s] <= decoded[s]
        /\ \A n \in FrameNos : Flying(q, Unpushed', meta', s, n) => shown[s] < n /\ n <= decoded[s]
        /\ ppc[s] \in {"ring", "batch", "preprocess"} =>
             shown[s] < decoded[s] /\ \A n \in FrameNos : Flying(q, Unpushed', meta', s, n) => n < decoded[s]
    BY <1>3 DEF FlightNumbers
  <2>3. CASE decoded'[s] = decoded[s] + 1
    <3>1. \A n \in Nat : n <= decoded[s] => n < decoded'[s] /\ n <= decoded'[s]
      BY <2>3, NextIsLater
    <3>2. QED BY <2>1, <2>2, <3>1, Zenon
  <2>4. CASE /\ decoded'[s] = decoded[s]
             /\ ppc'[s] \in {"ring", "batch", "preprocess"} => ppc[s] \in {"ring", "batch", "preprocess"}
    BY <2>2, <2>4, Zenon
  <2>5. QED BY <2>3, <2>4
<1>5. QED BY <1>2, <1>3, <1>4 DEF FlightNumbers

\* Which slots are unpushed when the batch the GPU thread has, its progress and the
\* places are the same.
LEMMA SameUnpushed ==
  ASSUME ReadySlots' = ReadySlots, UNCHANGED <<taken, gi>> PROVE Unpushed' = Unpushed
BY DEF Unpushed

\* Steps that touch neither the queue nor a stream's unpushed slots: the order stays, and
\* the lines are the same.
LEMMA OrderStays ==
  ASSUME OrderInv, DataType,
         UNCHANGED <<q, shown>>,
         pusher' # "out" => pushing'.stream = BatchMeta'.stream /\ pushing'.no = BatchMeta'.no,
         \A c \in Unpushed' : StreamAt(meta', c) # None =>
            c \in Unpushed /\ StreamAt(meta', c) = StreamAt(meta, c) /\ NoAt(meta', c) = NoAt(meta, c),
         \A c \in Unpushed : StreamAt(meta, c) # None =>
            c \in Unpushed' /\ StreamAt(meta', c) = StreamAt(meta, c) /\ NoAt(meta', c) = NoAt(meta, c),
         \A s \in Streams :
           \/ /\ decoded'[s] = decoded[s]
              /\ ppc'[s] \in {"ring", "batch", "preprocess"} => ppc[s] \in {"ring", "batch", "preprocess"}
           \/ decoded'[s] = decoded[s] + 1,
         BatchOrder(Unpushed', meta', BufOrder'), ClaimsLast(Unpushed', meta', BufOrder', held', slot')
  PROVE  OrderInv' /\ Line' = Line
<1>1. /\ \A i \in DOMAIN q : q[i].stream \in Streams
      /\ \A s \in Streams : shown[s] \in Nat /\ decoded[s] \in Nat
  BY MetaTypes DEF DataType, OrderInv
<1>2. /\ QueueOrder(q, Unpushed', meta')
      /\ FlightNumbers(q, Unpushed', meta', shown, decoded', ppc')
      /\ \A s \in Streams, n \in FrameNos :
           Flying(q, Unpushed', meta', s, n) <=> Flying(q, Unpushed, meta, s, n)
  <2>1. QueueOrder(q, Unpushed, meta) /\ FlightNumbers(q, Unpushed, meta, shown, decoded, ppc)
    BY DEF OrderInv
  <2>2. QED BY <1>1, <2>1, QueueKept
<1>3. Line' = Line
  BY <1>2, SameLine
<1>4. QED BY <1>2, <1>3 DEF OrderInv

-----------------------------------------------------------------------------
(* Frame order: the batch buffers move on *)

\* The order of the buffers, in words.
LEMMA BufOrderIs ==
  \A b, c \in Bufs : <<b, c>> \in BufOrder <=>
     \/ b = taken /\ c # taken
     \/ \E k, l \in DOMAIN pending : k < l /\ pending[k] = b /\ pending[l] = c
     \/ b \in B!InPending /\ c = filling
BY DEF BufOrder

\* The same after a step.
LEMMA BufOrderIsNext ==
  \A b, c \in Bufs : <<b, c>> \in BufOrder' <=>
     \/ b = taken' /\ c # taken'
     \/ \E k, l \in DOMAIN pending' : k < l /\ pending'[k] = b /\ pending'[l] = c
     \/ b \in B!InPending' /\ c = filling'
BY DEF BufOrder

\* Queueing the full filling buffer keeps the order of the buffers with slots in use.
LEMMA QueueFullKeepsOrder ==
  ASSUME BatchFacts, BufferFacts, taken' = taken, B!QueueFull,
         filling' \in Bufs \cup {None}, filling' # None => allocated[filling'] = 0,
         NEW b \in Bufs, NEW c \in Bufs, allocated[b] > 0, allocated[c] > 0
  PROVE  <<b, c>> \in BufOrder' <=> <<b, c>> \in BufOrder
<1>0. None \notin Bufs /\ allocated[b] # 0 /\ allocated[c] # 0 /\ c # filling'
  BY PipelineAssumption DEF BatchFacts
<1>1. CASE filling = None
  <2>1. pending' = pending
    BY <1>1 DEF B!QueueFull
  <2>2. B!InPending' = B!InPending
    BY <2>1 DEF B!InPending
  <2>3. QED BY <1>0, <1>1, <2>1, <2>2, BufOrderIs, BufOrderIsNext
<1>2. CASE filling # None
  <2>1. pending \in Seq(Bufs) /\ filling \in Bufs /\ pending' = Append(pending, filling)
    BY <1>2 DEF B!QueueFull, BatchFacts, BufferFacts
  <2>2. /\ DOMAIN pending' = DOMAIN pending \cup {Len(pending) + 1}
        /\ pending'[Len(pending) + 1] = filling
        /\ \A i \in DOMAIN pending : pending'[i] = pending[i] /\ i < Len(pending) + 1
    BY <2>1
  <2>. DEFINE e == Len(pending) + 1
  <2>3. e \notin DOMAIN pending /\ \A l \in DOMAIN pending : ~(e < l)
    BY <2>1, <2>2
  <2>4. filling \notin B!InPending
    BY DEF BufferFacts
  <2>. HIDE DEF e
  <2>5. (\E k, l \in DOMAIN pending' : k < l /\ pending'[k] = b /\ pending'[l] = c)
          <=> \/ \E k, l \in DOMAIN pending : k < l /\ pending[k] = b /\ pending[l] = c
              \/ b \in B!InPending /\ c = filling
    <3>1. ASSUME NEW k \in DOMAIN pending', NEW l \in DOMAIN pending', k < l, pending'[k] = b, pending'[l] = c
          PROVE  \/ \E i, j \in DOMAIN pending : i < j /\ pending[i] = b /\ pending[j] = c
                 \/ b \in B!InPending /\ c = filling
      <4>1. CASE l = e
        <5>1. k \in DOMAIN pending /\ pending[k] = b
          BY <2>1, <2>2, <3>1, <4>1 DEF e
        <5>2. QED BY <2>2, <3>1, <4>1, <5>1 DEF B!InPending, e
      <4>2. CASE l \in DOMAIN pending
        <5>1. k # e
          BY <2>3, <3>1, <4>2
        <5>2. QED BY <2>2, <3>1, <4>2, <5>1 DEF e
      <4>3. QED BY <2>2, <4>1, <4>2 DEF e
    <3>2. ASSUME NEW k \in DOMAIN pending, NEW l \in DOMAIN pending, k < l, pending[k] = b, pending[l] = c
          PROVE  \E i, j \in DOMAIN pending' : i < j /\ pending'[i] = b /\ pending'[j] = c
      BY <2>2, <3>2
    <3>3. ASSUME b \in B!InPending, c = filling
          PROVE  \E i, j \in DOMAIN pending' : i < j /\ pending'[i] = b /\ pending'[j] = c
      <4>1. PICK k \in DOMAIN pending : pending[k] = b
        BY <3>3 DEF B!InPending
      <4>2. k \in DOMAIN pending' /\ e \in DOMAIN pending' /\ k < e /\ pending'[k] = b /\ pending'[e] = c
        BY <2>2, <3>3, <4>1 DEF e
      <4>3. QED BY <4>2
    <3>4. QED BY <3>1, <3>2, <3>3
  <2>6. QED BY <1>0, <2>5, BufOrderIs, BufOrderIsNext
<1>3. QED BY <1>1, <1>2

\* So do the GPU thread's taking the oldest queued buffer, or the filling one when none is
\* queued.
LEMMA TakeKeepsOrder ==
  ASSUME BatchFacts, BufferFacts, B!TakePending \/ B!TakeClose,
         NEW b \in Bufs, NEW c \in Bufs, allocated[b] > 0, allocated[c] > 0
  PROVE  <<b, c>> \in BufOrder' <=> <<b, c>> \in BufOrder
<1>1. None \notin Bufs /\ taken = None /\ allocated[b] # 0 /\ allocated[c] # 0
  BY PipelineAssumption DEF BufferFacts, BatchFacts, B!TakePending, B!TakeClose
<1>2. b \in B!InPending \cup {filling} /\ c \in B!InPending \cup {filling}
  BY <1>1 DEF BufferFacts
<1>3. CASE B!TakePending
  <2>1. /\ pending # <<>> /\ pending \in Seq(Bufs) /\ pending' = Tail(pending) /\ filling' = filling
        /\ taken' = Head(pending)
    BY <1>3 DEF B!TakePending, B!CanTakePending, BufferFacts
  <2>2. /\ 1 \in DOMAIN pending /\ taken' = pending[1] /\ taken' \in Bufs
        /\ \A i \in DOMAIN pending' : i \in Nat /\ i + 1 \in DOMAIN pending /\ pending'[i] = pending[i + 1]
        /\ \A i \in DOMAIN pending : i # 1 => i - 1 \in DOMAIN pending' /\ pending'[i - 1] = pending[i]
        /\ \A i \in DOMAIN pending : i \in Nat /\ (i # 1 => 1 < i)
    <3>1. /\ \A i \in DOMAIN pending : i \in Nat /\ (i # 1 => 1 < i)
          /\ \A i \in DOMAIN pending' : i \in Nat
      BY <2>1
    <3>2. QED BY <2>1, <3>1, TailOf
  <2>3. filling # taken'
    BY <2>2 DEF BufferFacts, B!InPending
  <2>4. \A i, j \in DOMAIN pending : pending[i] = pending[j] => i = j
    BY DEF BufferFacts
  <2>5. ASSUME <<b, c>> \in BufOrder PROVE <<b, c>> \in BufOrder'
    <3>1. CASE \E k, l \in DOMAIN pending : k < l /\ pending[k] = b /\ pending[l] = c
      <4>1. PICK k, l \in DOMAIN pending : k < l /\ pending[k] = b /\ pending[l] = c
        BY <3>1
      <4>2. l # 1 /\ l \in Nat /\ k \in Nat
        BY <2>2, <4>1
      <4>3. CASE k = 1
        BY <2>2, <2>4, <4>1, <4>2, <4>3, BufOrderIsNext
      <4>4. CASE k # 1
        <5>1. k - 1 < l - 1
          BY <4>1, <4>2
        <5>2. QED BY <2>2, <4>1, <4>2, <4>4, <5>1, BufOrderIsNext
      <4>5. QED BY <4>3, <4>4
    <3>2. CASE b \in B!InPending /\ c = filling
      <4>1. PICK k \in DOMAIN pending : pending[k] = b
        BY <3>2 DEF B!InPending
      <4>2. CASE k = 1
        BY <2>2, <2>3, <3>2, <4>1, <4>2, BufOrderIsNext
      <4>3. CASE k # 1
        <5>1. b \in B!InPending'
          BY <2>2, <4>1, <4>3 DEF B!InPending
        <5>2. QED BY <2>1, <3>2, <5>1, BufOrderIsNext
      <4>4. QED BY <4>2, <4>3
    <3>3. QED BY <1>1, <2>5, <3>1, <3>2, BufOrderIs
  <2>6. ASSUME <<b, c>> \in BufOrder' PROVE <<b, c>> \in BufOrder
    <3>1. CASE b = taken' /\ c # taken'
      <4>1. CASE c = filling
        <5>1. b \in B!InPending
          BY <2>2, <3>1 DEF B!InPending
        <5>2. QED BY <4>1, <5>1, BufOrderIs
      <4>2. CASE c \in B!InPending
        <5>1. PICK l \in DOMAIN pending : pending[l] = c
          BY <4>2 DEF B!InPending
        <5>2. 1 < l
          BY <2>2, <3>1, <5>1
        <5>3. QED BY <2>2, <3>1, <5>1, <5>2, BufOrderIs
      <4>3. QED BY <1>2, <4>1, <4>2
    <3>2. CASE \E k, l \in DOMAIN pending' : k < l /\ pending'[k] = b /\ pending'[l] = c
      <4>1. PICK k, l \in DOMAIN pending' : k < l /\ pending'[k] = b /\ pending'[l] = c
        BY <3>2
      <4>2. k + 1 < l + 1
        BY <2>2, <4>1
      <4>3. QED BY <2>2, <4>1, <4>2, BufOrderIs
    <3>3. CASE b \in B!InPending' /\ c = filling'
      <4>1. b \in B!InPending
        BY <2>2, <3>3 DEF B!InPending
      <4>2. QED BY <2>1, <3>3, <4>1, BufOrderIs
    <3>4. QED BY <2>6, <3>1, <3>2, <3>3, BufOrderIsNext
  <2>7. QED BY <2>5, <2>6
<1>4. CASE B!TakeClose
  <2>1. pending = <<>> /\ pending' = <<>> /\ B!InPending = {}
    BY <1>4 DEF B!TakeClose, B!CanClose, B!InPending
  <2>2. taken' = filling /\ B!InPending' = {}
    BY <1>4, <2>1 DEF B!TakeClose, B!InPending
  <2>3. QED BY <1>1, <1>2, <2>1, <2>2, BufOrderIs, BufOrderIsNext
<1>5. QED BY <1>3, <1>4

\* The buffers of ready slots and of claims have slots in use.
LEMMA BuffersInUse ==
  ASSUME BatchFacts
  PROVE  /\ \A c \in ReadySlots : c[1] \in Bufs /\ allocated[c[1]] > 0 /\ c[2] \in Nat /\ c[2] < allocated[c[1]]
         /\ \A s \in Streams : held[s] # None => held[s] \in Bufs /\ allocated[held[s]] > 0
         /\ Unpushed \subseteq ReadySlots
<1>1. \A c \in ReadySlots : c[1] \in Bufs /\ c[2] \in Nat /\ c[2] < allocated[c[1]]
  BY PipelineAssumption DEF ReadySlots
<1>2. \A b \in Bufs : allocated[b] \in Nat
  BY DEF BatchFacts
<1>3. \A s \in Streams : held[s] # None => held[s] \in Bufs /\ slot[s] \in Nat /\ slot[s] < allocated[held[s]]
  BY PipelineAssumption DEF BatchFacts
<1>4. \A i, n \in Nat : i < n => n > 0
  OBVIOUS
<1>5. QED BY <1>1, <1>2, <1>3, <1>4 DEF Unpushed

\* When the buffers in use keep their order, so do the slots, and the claims there were
\* come last.
LEMMA SameSlotsSameOrder ==
  ASSUME OrderInv, BatchFacts, Unpushed' = Unpushed, meta' = meta,
         \A b, c \in Bufs : allocated[b] > 0 /\ allocated[c] > 0
            => (<<b, c>> \in BufOrder' <=> <<b, c>> \in BufOrder)
  PROVE  BatchOrder(Unpushed', meta', BufOrder') /\ ClaimsLast(Unpushed', meta', BufOrder', held, slot)
<1>1. BatchOrder(Unpushed, meta, BufOrder) /\ ClaimsLast(Unpushed, meta, BufOrder, held, slot)
  BY DEF OrderInv
<1>2. \A c, d \in Unpushed : <<c[1], d[1]>> \in BufOrder' => <<c[1], d[1]>> \in BufOrder
  BY BuffersInUse
<1>3. \A s \in Streams : held[s] # None =>
        \A c \in Unpushed : <<c[1], held[s]>> \in BufOrder => <<c[1], held[s]>> \in BufOrder'
  BY BuffersInUse
<1>. DEFINE us == Unpushed
            ord == BufOrder
            ord2 == BufOrder'
<1>4. /\ BatchOrder(us, meta, ord) /\ ClaimsLast(us, meta, ord, held, slot)
      /\ \A c, d \in us : <<c[1], d[1]>> \in ord2 => <<c[1], d[1]>> \in ord
      /\ \A s \in Streams : held[s] # None =>
           \A c \in us : <<c[1], held[s]>> \in ord => <<c[1], held[s]>> \in ord2
  BY <1>1, <1>2, <1>3
<1>. HIDE DEF us, ord, ord2
<1>5. BatchOrder(us, meta, ord2) /\ ClaimsLast(us, meta, ord2, held, slot)
  BY <1>4, BatchOrderKept
<1>6. QED BY <1>5 DEF us, ord2

\* A claim: the slot comes after every unpushed one.
LEMMA ClaimOrder ==
  ASSUME OrderInv, BatchFacts, BufferFacts, meta' = meta, gi' = gi,
         NEW s \in Streams, B!AcquireSlot(s) \/ B!AcquireRotate(s)
  PROVE  /\ Unpushed' = Unpushed
         /\ BatchOrder(Unpushed', meta', BufOrder')
         /\ ClaimsLast(Unpushed', meta', BufOrder', held', slot')
<1>1. PICK b \in Bufs : /\ B!Claim(s, b, allocated[b]) /\ filling' = b /\ taken' = taken
                        /\ B!AcquireSlot(s) \/ (B!AcquireRotate(s) /\ b \in free_bufs)
  <2>1. CASE B!AcquireSlot(s)
    BY <2>1 DEF B!AcquireSlot, B!HasRoom, BatchFacts
  <2>2. CASE B!AcquireRotate(s)
    BY <2>2 DEF B!AcquireRotate, BatchFacts
  <2>3. QED BY <2>1, <2>2
<1>2. Unpushed' = Unpushed
  BY <1>1, ClaimKeepsReady, SameUnpushed
<1>3. ASSUME NEW c \in Bufs, NEW d \in Bufs, allocated[c] > 0, allocated[d] > 0
      PROVE  <<c, d>> \in BufOrder' <=> <<c, d>> \in BufOrder
  <2>1. CASE B!AcquireSlot(s)
    <3>1. filling' = filling /\ pending' = pending /\ B!InPending' = B!InPending
      BY <2>1 DEF B!AcquireSlot, B!InPending
    <3>2. QED BY <1>1, <3>1, BufOrderIs, BufOrderIsNext
  <2>2. CASE B!AcquireRotate(s) /\ b \in free_bufs
    <3>1. allocated[b] = 0 /\ B!QueueFull
      BY <2>2 DEF BatchFacts, B!AcquireRotate
    <3>2. QED BY <1>1, <1>3, <3>1, QueueFullKeepsOrder
  <2>3. QED BY <1>1, <2>1, <2>2
<1>4. BatchOrder(Unpushed', meta', BufOrder') /\ ClaimsLast(Unpushed', meta', BufOrder', held, slot)
  BY <1>2, <1>3, SameSlotsSameOrder
<1>5. /\ held' = [held EXCEPT ![s] = b] /\ slot' = [slot EXCEPT ![s] = allocated[b]]
      /\ DOMAIN held = Streams /\ DOMAIN slot = Streams
  BY <1>1 DEF B!Claim, BatchFacts
<1>6. ASSUME NEW c \in Unpushed PROVE Before(BufOrder', c, <<b, allocated[b]>>)
  <2>1. c[1] \in Bufs /\ allocated[c[1]] > 0 /\ c[2] < allocated[c[1]]
    BY BuffersInUse
  <2>2. CASE c[1] = b
    BY <2>1, <2>2 DEF Before
  <2>3. CASE c[1] # b
    <3>1. c[1] \in B!InPending \cup {filling, taken}
      BY <2>1 DEF BufferFacts
    <3>2. c[1] = taken \/ c[1] \in B!InPending'
      <4>1. CASE B!AcquireSlot(s)
        BY <1>1, <2>3, <3>1, <4>1 DEF B!AcquireSlot, B!InPending
      <4>2. CASE B!AcquireRotate(s)
        <5>1. CASE filling = None
          BY <2>1, <3>1, <4>2, <5>1, PipelineAssumption DEF B!AcquireRotate, B!QueueFull, B!InPending
        <5>2. CASE filling # None
          <6>1. pending \in Seq(Bufs) /\ filling \in Bufs /\ pending' = Append(pending, filling)
            BY <4>2, <5>2 DEF B!AcquireRotate, B!QueueFull, BatchFacts, BufferFacts
          <6>2. B!InPending' = B!InPending \cup {filling}
            BY <6>1, AppendOf DEF B!InPending
          <6>3. QED BY <3>1, <6>2
        <5>3. QED BY <5>1, <5>2
      <4>3. QED BY <4>1, <4>2
    <3>3. <<c[1], b>> \in BufOrder'
      BY <1>1, <2>1, <2>3, <3>2, BufOrderIsNext
    <3>4. QED BY <3>3 DEF Before
  <2>4. QED BY <2>2, <2>3
<1>7. ClaimsLast(Unpushed', meta', BufOrder', held', slot')
  <2>1. ASSUME NEW t \in Streams, held'[t] # None, NEW c \in Unpushed', StreamAt(meta', c) = t
        PROVE  Before(BufOrder', c, <<held'[t], slot'[t]>>)
    <3>1. CASE t = s
      BY <1>2, <1>5, <1>6, <3>1
    <3>2. CASE t # s
      <4>1. held'[t] = held[t] /\ slot'[t] = slot[t]
        BY <1>5, <3>2
      <4>2. QED BY <1>4, <2>1, <4>1 DEF ClaimsLast
    <3>3. QED BY <3>1, <3>2
  <2>2. QED BY <2>1 DEF ClaimsLast
<1>8. QED BY <1>2, <1>4, <1>7

\* The order of the buffers is strict.
LEMMA BufOrderStrict ==
  ASSUME BatchFacts, BufferFacts, NEW b \in Bufs, NEW c \in Bufs, <<b, c>> \in BufOrder
  PROVE  <<c, b>> \notin BufOrder /\ b # c
<1>1. /\ taken \in Bufs => taken \notin B!InPending /\ taken # filling
      /\ filling \notin B!InPending
  BY PipelineAssumption DEF BatchFacts, BufferFacts
<1>2. \A k \in DOMAIN pending : pending[k] \in B!InPending /\ k \in Nat
  BY DEF B!InPending, BufferFacts
<1>3. CASE b = taken /\ c # taken
  BY <1>1, <1>2, <1>3, BufOrderIs
<1>4. CASE \E k, l \in DOMAIN pending : k < l /\ pending[k] = b /\ pending[l] = c
  <2>1. PICK k, l \in DOMAIN pending : k < l /\ pending[k] = b /\ pending[l] = c
    BY <1>4
  <2>2. \A i, j \in DOMAIN pending : pending[i] = b /\ pending[j] = c => i = k /\ j = l
    BY <2>1 DEF BufferFacts
  <2>3. b # c
    BY <1>2, <2>1, <2>2
  <2>4. ~\E i, j \in DOMAIN pending : i < j /\ pending[i] = c /\ pending[j] = b
    BY <1>2, <2>1, <2>2
  <2>5. b \in B!InPending /\ c \in B!InPending
    BY <1>2, <2>1
  <2>6. QED BY <1>1, <2>3, <2>4, <2>5, BufOrderIs
<1>5. CASE b \in B!InPending /\ c = filling
  BY <1>1, <1>2, <1>5, BufOrderIs
<1>6. QED BY <1>3, <1>4, <1>5, BufOrderIs

\* So is the order of the slots.
LEMMA SlotOrderStrict ==
  ASSUME BatchFacts, BufferFacts, NEW c, NEW d, c[1] \in Bufs, d[1] \in Bufs, c[2] \in Nat, d[2] \in Nat,
         Before(BufOrder, c, d)
  PROVE  ~Before(BufOrder, d, c)
<1>1. CASE <<c[1], d[1]>> \in BufOrder
  BY <1>1, BufOrderStrict DEF Before
<1>2. CASE c[1] = d[1] /\ c[2] < d[2]
  BY <1>2, BufOrderStrict DEF Before
<1>3. QED BY <1>1, <1>2 DEF Before

-----------------------------------------------------------------------------
(* Frame order: the producers *)

\* What a step that only moves threads leaves alone.
LEMMA SameBuffersSameOrder ==
  ASSUME UNCHANGED <<filling, pending, taken>>
  PROVE  BufOrder' = BufOrder
BY DEF BufOrder, B!InPending

\* The producer's steps before and after the batch slot.
LEMMA ProducerOrder ==
  ASSUME OrderInv, PipeInv, BatchFacts, BufferFacts, NEW s \in Streams,
         \/ Decode(s) \/ EnsureRing(s) \/ AcquireRing(s) \/ AcquireBatch(s) \/ GiveUpRingSlot(s)
         \/ LeaveLoop(s)
  PROVE  OrderInv' /\ Line' = Line /\ UNCHANGED <<shown, drop_oldest, q_stopping>>
<1>1. UNCHANGED <<meta, q, pushing, pusher, gi, shown, drop_oldest, q_stopping, taken>>
  <2>1. UNCHANGED <<meta, gi>> /\ UNCHANGED queueVars /\ UNCHANGED consumerVars
    BY DEF Decode, EnsureRing, AcquireRing, AcquireBatch, GiveUpRingSlot, LeaveLoop
  <2>2. taken' = taken
    <3>1. CASE Decode(s) \/ EnsureRing(s) \/ AcquireRing(s) \/ GiveUpRingSlot(s)
      BY <3>1 DEF Decode, EnsureRing, AcquireRing, GiveUpRingSlot, batcherVars
    <3>2. CASE AcquireBatch(s) \/ LeaveLoop(s)
      BY <3>2 DEF AcquireBatch, LeaveLoop, B!AcquireSlot, B!AcquireRotate, B!AcquireWait, B!AcquireRefused,
                  B!ProducerDone
    <3>3. QED BY <3>1, <3>2
  <2>3. QED BY <2>1, <2>2 DEF queueVars, consumerVars
<1>2. /\ Unpushed' = Unpushed
      /\ BatchOrder(Unpushed', meta', BufOrder')
      /\ ClaimsLast(Unpushed', meta', BufOrder', held', slot')
  <2>1. CASE UNCHANGED <<filling, pending, allocated, held, slot>>
    <3>1. Unpushed' = Unpushed /\ BufOrder' = BufOrder
      BY <1>1, <2>1, SamePlaces, SameUnpushed, SameBuffersSameOrder
    <3>2. QED BY <1>1, <2>1, <3>1 DEF OrderInv
  <2>2. CASE Decode(s) \/ EnsureRing(s) \/ AcquireRing(s) \/ GiveUpRingSlot(s) \/ LeaveLoop(s)
    <3>1. UNCHANGED <<filling, pending, allocated, held, slot>>
      BY <2>2 DEF Decode, EnsureRing, AcquireRing, GiveUpRingSlot, batcherVars, LeaveLoop, B!ProducerDone
    <3>2. QED BY <2>1, <3>1
  <2>3. CASE B!AcquireSlot(s) \/ B!AcquireRotate(s)
    BY <1>1, <2>3, ClaimOrder
  <2>4. CASE B!AcquireRefused(s)
    BY <2>1, <2>4 DEF B!AcquireRefused
  <2>5. CASE B!AcquireWait(s)
    <3>1. /\ B!QueueFull /\ filling' = None /\ UNCHANGED <<allocated, held, slot, taken>>
      BY <2>5 DEF B!AcquireWait
    <3>2. Unpushed' = Unpushed
      BY <1>1, <3>1, SamePlaces, SameUnpushed
    <3>3. \A b, c \in Bufs : allocated[b] > 0 /\ allocated[c] > 0
            => (<<b, c>> \in BufOrder' <=> <<b, c>> \in BufOrder)
      BY <3>1, QueueFullKeepsOrder
    <3>4. QED BY <1>1, <3>1, <3>2, <3>3, SameSlotsSameOrder
  <2>6. QED BY <2>2, <2>3, <2>4, <2>5 DEF AcquireBatch
<1>3. ASSUME NEW t \in Streams
      PROVE  \/ /\ decoded'[t] = decoded[t]
                /\ ppc'[t] \in {"ring", "batch", "preprocess"} => ppc[t] \in {"ring", "batch", "preprocess"}
             \/ decoded'[t] = decoded[t] + 1
  <2>1. decoded \in [Streams -> Nat] /\ ppc \in [Streams -> Ppcs]
    BY DEF PipeInv, DataType
  <2>2. CASE Decode(s)
    BY <2>1, <2>2 DEF Decode, MoveTo
  <2>3. CASE EnsureRing(s) \/ AcquireRing(s) \/ AcquireBatch(s) \/ GiveUpRingSlot(s) \/ LeaveLoop(s)
    <3>1. decoded' = decoded
      BY <2>3 DEF EnsureRing, AcquireRing, AcquireBatch, GiveUpRingSlot, LeaveLoop
    <3>2. \/ ppc' = ppc
          \/ ppc[s] \in {"ring", "batch"} /\ \E x : ppc' = [ppc EXCEPT ![s] = x]
          \/ \E x \in {"loop", "done"} : ppc' = [ppc EXCEPT ![s] = x]
      BY <2>3 DEF EnsureRing, AcquireRing, AcquireBatch, GiveUpRingSlot, LeaveLoop, MoveTo
    <3>3. QED BY <2>1, <3>1, <3>2
  <2>4. QED BY <2>2, <2>3
<1>4. pusher' # "out" => pushing'.stream = BatchMeta'.stream /\ pushing'.no = BatchMeta'.no
  BY <1>1 DEF BatchMeta, OrderInv
<1>5. DataType
  BY DEF PipeInv
<1>6. QED BY <1>1, <1>2, <1>3, <1>4, <1>5, OrderStays

\* The unpushed slots after MarkReady.
LEMMA MarkReadyUnpushed ==
  ASSUME PushInv, BatchFacts, NEW s \in Streams, B!MarkReady(s), gi' = gi
  PROVE  /\ Unpushed' = Unpushed \cup {<<held[s], slot[s]>>}
         /\ <<held[s], slot[s]>> \notin Unpushed
         /\ held[s] \in Bufs /\ slot[s] \in Nat
         /\ BufOrder' = BufOrder
         /\ \A t \in Streams : held'[t] # None => t # s /\ held'[t] = held[t] /\ slot'[t] = slot[t]
<1>1. /\ <<held[s], slot[s]>> \notin ReadySlots /\ held[s] \in Bufs
      /\ ReadySlots' = ReadySlots \cup {<<held[s], slot[s]>>}
  BY MarkReadyAdds
<1>2. UNCHANGED <<filling, pending, taken>>
  BY DEF B!MarkReady
<1>3. slot[s] \in Nat /\ 0 \in Nat
  BY PipelineAssumption DEF BatchFacts
<1>4. held[s] = taken => slot[s] >= gi
  BY <1>3 DEF BatchFacts, PushInv
<1>5. Unpushed' = Unpushed \cup {<<held[s], slot[s]>>}
  BY <1>1, <1>2, <1>4 DEF Unpushed
<1>6. <<held[s], slot[s]>> \notin Unpushed
  BY <1>1 DEF Unpushed
<1>7. \A t \in Streams : held'[t] # None => t # s /\ held'[t] = held[t] /\ slot'[t] = slot[t]
  BY DEF B!MarkReady, BatchFacts
<1>8. QED BY <1>1, <1>2, <1>3, <1>5, <1>6, <1>7, SameBuffersSameOrder


\* A producer's frame joins the others of its stream, as the last.
LEMMA FrameJoins ==
  ASSUME NEW s \in Streams, NEW b,
         QueueOrder(q, Unpushed, meta), BatchOrder(Unpushed, meta, BufOrder), ClaimsLast(Unpushed, meta, BufOrder, held, slot),
         FlightNumbers(q, Unpushed, meta, shown, decoded, ppc),
         \A i \in DOMAIN q : q[i].no \in FrameNos,
         \A c \in Unpushed : StreamAt(meta, c) # None => NoAt(meta, c) \in FrameNos,
         \A c \in Unpushed : StreamAt(meta', c) = StreamAt(meta, c) /\ NoAt(meta', c) = NoAt(meta, c),
         \A t \in Streams : shown[t] \in Nat /\ decoded[t] \in Nat,
         decoded[s] \in FrameNos, StreamAt(meta', b) = s, NoAt(meta', b) = decoded[s],
         held[s] # None, b = <<held[s], slot[s]>>,
         \A c \in Unpushed \cup {b} : Before(BufOrder, c, b) => ~Before(BufOrder, b, c),
         \A t \in Streams : held'[t] # None => t # s /\ held'[t] = held[t] /\ slot'[t] = slot[t],
         ppc[s] = "preprocess", ppc'[s] = "loop", \A t \in Streams : t # s => ppc'[t] = ppc[t]
  PROVE  /\ QueueOrder(q, Unpushed \cup {b}, meta')
         /\ BatchOrder(Unpushed \cup {b}, meta', BufOrder)
         /\ ClaimsLast(Unpushed \cup {b}, meta', BufOrder, held', slot')
         /\ FlightNumbers(q, Unpushed \cup {b}, meta', shown, decoded, ppc')
         /\ shown[s] < decoded[s]
         /\ \A m \in FrameNos : Flying(q, Unpushed, meta, s, m) => m < decoded[s]
         /\ \A t \in Streams, m \in FrameNos :
              Flying(q, Unpushed \cup {b}, meta', t, m) <=> Flying(q, Unpushed, meta, t, m) \/ (t = s /\ m = decoded[s])
<1>1. None \notin Streams /\ FrameNos \subseteq Nat
  BY PipelineAssumption DEF FrameNos
<1>2. shown[s] < decoded[s] /\ \A m \in FrameNos : Flying(q, Unpushed, meta, s, m) => m < decoded[s]
  BY DEF FlightNumbers
<1>3. \A i \in DOMAIN q : q[i].stream = s => q[i].no < decoded[s]
  BY <1>2 DEF Flying
<1>4. \A c \in Unpushed : StreamAt(meta, c) = s => NoAt(meta, c) < decoded[s]
  BY <1>1, <1>2 DEF Flying
<1>5. QueueOrder(q, Unpushed \cup {b}, meta')
  BY <1>3 DEF QueueOrder
<1>6. ASSUME NEW c \in Unpushed \cup {b}, NEW d \in Unpushed \cup {b}, Before(BufOrder, c, d),
             StreamAt(meta', c) = StreamAt(meta', d), StreamAt(meta', c) # None
      PROVE  NoAt(meta', c) < NoAt(meta', d)
  <2>1. CASE c \in Unpushed /\ d \in Unpushed
    BY <1>6, <2>1 DEF BatchOrder
  <2>2. CASE c \in Unpushed /\ d = b
    BY <1>4, <1>6, <2>2
  <2>3. CASE c = b /\ d \in Unpushed
    <3>1. Before(BufOrder, d, b)
      BY <1>6, <2>3 DEF ClaimsLast
    <3>2. QED BY <1>6, <2>3, <3>1
  <2>4. CASE c = b /\ d = b
    BY <1>6, <2>4
  <2>5. QED BY <2>1, <2>2, <2>3, <2>4
<1>7. BatchOrder(Unpushed \cup {b}, meta', BufOrder)
  BY <1>6 DEF BatchOrder
<1>8. ClaimsLast(Unpushed \cup {b}, meta', BufOrder, held', slot')
  <2>1. ASSUME NEW t \in Streams, held'[t] # None, NEW c \in Unpushed \cup {b}, StreamAt(meta', c) = t
        PROVE  Before(BufOrder, c, <<held'[t], slot'[t]>>)
    <3>1. c \in Unpushed /\ StreamAt(meta, c) = t /\ held'[t] = held[t] /\ slot'[t] = slot[t]
      BY <2>1
    <3>2. QED BY <2>1, <3>1 DEF ClaimsLast
  <2>2. QED BY <2>1 DEF ClaimsLast
<1>9. \A t \in Streams, m \in FrameNos :
        Flying(q, Unpushed \cup {b}, meta', t, m) <=> Flying(q, Unpushed, meta, t, m) \/ (t = s /\ m = decoded[s])
  BY DEF Flying
<1>10. ASSUME NEW t \in Streams
       PROVE  /\ shown[t] <= decoded[t]
              /\ \A m \in FrameNos : Flying(q, Unpushed \cup {b}, meta', t, m) => shown[t] < m /\ m <= decoded[t]
              /\ ppc'[t] \in {"ring", "batch", "preprocess"} =>
                   /\ shown[t] < decoded[t]
                   /\ \A m \in FrameNos : Flying(q, Unpushed \cup {b}, meta', t, m) => m < decoded[t]
  <2>1. CASE t = s
    <3>1. \A m \in FrameNos : Flying(q, Unpushed, meta, s, m) => shown[s] < m /\ m < decoded[s]
      BY <1>2 DEF FlightNumbers
    <3>2. \A m \in FrameNos : Flying(q, Unpushed \cup {b}, meta', s, m) => shown[s] < m /\ m <= decoded[s]
      BY <1>1, <1>2, <1>9, <3>1
    <3>3. QED BY <1>2, <2>1, <3>2
  <2>2. CASE t # s
    BY <1>9, <2>2 DEF FlightNumbers
  <2>3. QED BY <2>1, <2>2
<1>11. FlightNumbers(q, Unpushed \cup {b}, meta', shown, decoded, ppc')
  BY <1>10 DEF FlightNumbers
<1>12. QED BY <1>2, <1>5, <1>7, <1>8, <1>9, <1>11

\* A preprocessed frame joins its stream's line, as the last.
LEMMA PreprocessOrder ==
  ASSUME OrderInv, PipeInv, BatchFacts, BufferFacts, NEW s \in Streams, Preprocess(s)
  PROVE  OrderInv' /\ \E n \in FrameNos : Delivery!Publish(s, n)
<1>1. /\ ppc[s] = "preprocess" /\ B!MarkReady(s) /\ WriteMeta(s, MetaOf(s)) /\ R!PassOn(s)
      /\ UNCHANGED <<q, pushing, pusher, gi, shown, drop_oldest, q_stopping, decoded>>
      /\ ppc' = [ppc EXCEPT ![s] = "loop"]
  BY DEF Preprocess, MoveTo, queueVars, consumerVars
<1>2. /\ DataType /\ PushInv
      /\ \A t \in Streams : shown[t] \in Nat /\ decoded[t] \in Nat
      /\ held[s] # None
  BY <1>1 DEF PipeInv, OrderInv, DataType, BatchFacts, B!MarkReady
<1>. DEFINE b == <<held[s], slot[s]>>
            us == Unpushed
<1>3. /\ Unpushed' = us \cup {b} /\ b \notin us /\ held[s] \in Bufs /\ slot[s] \in Nat /\ BufOrder' = BufOrder
      /\ \A t \in Streams : held'[t] # None => t # s /\ held'[t] = held[t] /\ slot'[t] = slot[t]
  BY <1>1, <1>2, MarkReadyUnpushed
<1>4. decoded[s] \in FrameNos /\ want[s] \in RingSlots
  BY <1>1, <1>2 DEF DataType, R!PassOn
<1>5. MetaOf(s) \in Metas
  BY <1>4 DEF MetaOf, Metas
<1>6. /\ meta'[held[s]][slot[s]] = MetaOf(s)
      /\ \A c \in ReadySlots : meta'[c[1]][c[2]] = meta[c[1]][c[2]]
      /\ gpu = "busy" => meta'[taken] = meta[taken]
  BY <1>1, <1>2, <1>5, MetaWritten
<1>7. /\ StreamAt(meta', b) = s /\ NoAt(meta', b) = decoded[s]
      /\ \A c \in us : StreamAt(meta', c) = StreamAt(meta, c) /\ NoAt(meta', c) = NoAt(meta, c)
  BY <1>6, BuffersInUse DEF StreamAt, NoAt, MetaOf
<1>8. \A c \in us \cup {b} : Before(BufOrder, c, b) => ~Before(BufOrder, b, c)
  BY <1>3, BuffersInUse, SlotOrderStrict
<1>9. /\ \A i \in DOMAIN q : q[i].no \in FrameNos
      /\ \A c \in us : StreamAt(meta, c) # None => NoAt(meta, c) \in FrameNos
  BY <1>2, MetaTypes
<1>10. ppc'[s] = "loop" /\ \A t \in Streams : t # s => ppc'[t] = ppc[t]
  BY <1>1, <1>2 DEF DataType
<1>11. pusher # "out" => pushing'.stream = BatchMeta'.stream /\ pushing'.no = BatchMeta'.no
  <2>1. pusher # "out" => gpu = "busy" /\ taken' = taken
    BY <1>1, <1>2 DEF PushInv, Pushing, B!MarkReady
  <2>2. pusher # "out" => BatchMeta' = BatchMeta
    BY <1>1, <1>6, <2>1 DEF BatchMeta
  <2>3. QED BY <1>1, <2>2 DEF OrderInv
<1>12. /\ QueueOrder(q, us, meta) /\ BatchOrder(us, meta, BufOrder) /\ ClaimsLast(us, meta, BufOrder, held, slot)
       /\ FlightNumbers(q, us, meta, shown, decoded, ppc)
  BY DEF OrderInv
<1>. DEFINE us2 == us \cup {b}
<1>13. /\ QueueOrder(q, us2, meta') /\ BatchOrder(us2, meta', BufOrder)
       /\ ClaimsLast(us2, meta', BufOrder, held', slot')
       /\ FlightNumbers(q, us2, meta', shown, decoded, ppc')
       /\ shown[s] < decoded[s]
       /\ \A m \in FrameNos : Flying(q, us, meta, s, m) => m < decoded[s]
       /\ \A t \in Streams, m \in FrameNos :
            Flying(q, us2, meta', t, m) <=> Flying(q, us, meta, t, m) \/ (t = s /\ m = decoded[s])
  <2>1. b = <<held[s], slot[s]>>
    OBVIOUS
  <2>. HIDE DEF b
  <2>2. QED BY <1>1, <1>2, <1>3, <1>4, <1>7, <1>8, <1>9, <1>10, <1>12, <2>1, FrameJoins
<1>14. OrderInv'
  BY <1>1, <1>3, <1>11, <1>13 DEF OrderInv
<1>15. Line' = [Line EXCEPT ![s] = @ \cup {decoded[s]}]
  <2>1. \A t \in Streams, m \in FrameNos :
          Flying(q', Unpushed', meta', t, m) <=> Flying(q, Unpushed, meta, t, m) \/ (t = s /\ m = decoded[s])
    BY <1>1, <1>3, <1>13
  <2>2. \A t \in Streams : Line'[t] = [Line EXCEPT ![s] = @ \cup {decoded[s]}][t]
    BY <1>4, <2>1, LineFacts, LineFactsNext
  <2>3. Line = [t \in Streams |-> Line[t]] /\ Line' = [t \in Streams |-> Line'[t]]
    BY DEF Line
  <2>4. QED BY <2>2, <2>3
<1>16. decoded[s] > shown[s] /\ \A m \in Line[s] : decoded[s] > m
  <2>1. \A m \in Line[s] : m \in FrameNos /\ m < decoded[s]
    BY <1>13, LineFacts
  <2>2. FrameNos \subseteq Nat
    BY DEF FrameNos
  <2>3. QED BY <1>2, <1>13, <2>1, <2>2
<1>17. Delivery!Publish(s, decoded[s])
  BY <1>1, <1>15, <1>16 DEF Delivery!Publish, Lossy
<1>18. QED BY <1>4, <1>14, <1>17

\* An abandoned slot belongs to no stream's line.
LEMMA ThrowsOrder ==
  ASSUME OrderInv, PipeInv, BatchFacts, BufferFacts, NEW s \in Streams, PreprocessThrows(s)
  PROVE  OrderInv' /\ Line' = Line /\ UNCHANGED <<shown, drop_oldest, q_stopping>>
<1>1. /\ B!MarkReady(s) /\ WriteMeta(s, Abandoned)
      /\ UNCHANGED <<q, pushing, pusher, gi, shown, drop_oldest, q_stopping, decoded>>
      /\ ppc' = [ppc EXCEPT ![s] = "loop"]
  BY DEF PreprocessThrows, Abandon, MoveTo, queueVars, consumerVars
<1>2. DataType /\ PushInv
  BY DEF PipeInv
<1>. DEFINE b == <<held[s], slot[s]>>
            us == Unpushed
<1>3. /\ Unpushed' = us \cup {b} /\ BufOrder' = BufOrder
      /\ \A t \in Streams : held'[t] # None => t # s /\ held'[t] = held[t] /\ slot'[t] = slot[t]
  BY <1>1, <1>2, MarkReadyUnpushed
<1>4. /\ meta'[held[s]][slot[s]] = Abandoned
      /\ \A c \in ReadySlots : meta'[c[1]][c[2]] = meta[c[1]][c[2]]
      /\ gpu = "busy" => meta'[taken] = meta[taken]
  BY <1>1, <1>2, MetaWritten
<1>5. /\ StreamAt(meta', b) = None
      /\ \A c \in us : StreamAt(meta', c) = StreamAt(meta, c) /\ NoAt(meta', c) = NoAt(meta, c)
  BY <1>4, BuffersInUse DEF StreamAt, NoAt, Abandoned
<1>6. /\ \A c \in Unpushed' : StreamAt(meta', c) # None =>
           c \in us /\ StreamAt(meta', c) = StreamAt(meta, c) /\ NoAt(meta', c) = NoAt(meta, c)
      /\ \A c \in us : c \in Unpushed' /\ StreamAt(meta', c) = StreamAt(meta, c) /\ NoAt(meta', c) = NoAt(meta, c)
  BY <1>3, <1>5
<1>7. pusher' # "out" => pushing'.stream = BatchMeta'.stream /\ pushing'.no = BatchMeta'.no
  <2>1. pusher # "out" => gpu = "busy" /\ taken' = taken
    BY <1>1, <1>2 DEF PushInv, Pushing, B!MarkReady
  <2>2. pusher # "out" => BatchMeta' = BatchMeta
    BY <1>1, <1>4, <2>1 DEF BatchMeta
  <2>3. QED BY <1>1, <2>2 DEF OrderInv
<1>8. \A t \in Streams : ppc'[t] \in {"ring", "batch", "preprocess"} => ppc[t] \in {"ring", "batch", "preprocess"}
  BY <1>1, <1>2 DEF DataType
<1>9. BatchOrder(Unpushed', meta', BufOrder') /\ ClaimsLast(Unpushed', meta', BufOrder', held', slot')
  <2>. DEFINE us2 == Unpushed'
              mt2 == meta'
              hd2 == held'
              sl2 == slot'
              ord2 == BufOrder'
  <2>1. /\ BatchOrder(us, meta, BufOrder) /\ ClaimsLast(us, meta, BufOrder, held, slot)
        /\ ord2 = BufOrder
        /\ \A c \in us2 : StreamAt(mt2, c) # None =>
             c \in us /\ StreamAt(mt2, c) = StreamAt(meta, c) /\ NoAt(mt2, c) = NoAt(meta, c)
        /\ \A t \in Streams : hd2[t] # None => hd2[t] = held[t] /\ sl2[t] = slot[t]
    BY <1>3, <1>6 DEF OrderInv
  <2>. HIDE DEF us, us2, mt2, hd2, sl2, ord2
  <2>2. BatchOrder(us2, mt2, ord2) /\ ClaimsLast(us2, mt2, ord2, hd2, sl2)
    BY <2>1, BatchOrderKept
  <2>3. QED BY <2>2 DEF us2, mt2, hd2, sl2, ord2
<1>10. QED BY <1>1, <1>2, <1>6, <1>7, <1>8, <1>9, OrderStays

-----------------------------------------------------------------------------
(* Frame order: the steps that push nothing *)

\* Steps that change nothing the order is about.
LEMMA QuietOrder ==
  ASSUME OrderInv, PipeInv,
         UNCHANGED <<meta, q, pushing, gi, shown, decoded, ppc, filling, pending, allocated, held, slot, taken>>,
         pusher' # "out" => pusher # "out"
  PROVE  OrderInv' /\ Line' = Line
<1>1. Unpushed' = Unpushed /\ BufOrder' = BufOrder
  BY SamePlaces, SameUnpushed, SameBuffersSameOrder
<1>2. BatchOrder(Unpushed', meta', BufOrder') /\ ClaimsLast(Unpushed', meta', BufOrder', held', slot')
  BY <1>1 DEF OrderInv
<1>3. pusher' # "out" => pushing'.stream = BatchMeta'.stream /\ pushing'.no = BatchMeta'.no
  BY DEF BatchMeta, OrderInv
<1>4. DataType
  BY DEF PipeInv
<1>5. QED BY <1>1, <1>2, <1>3, <1>4, OrderStays

\* Such are the last step of GpuLoop, those of StopImpl and the death of a kept result.
LEMMA OtherStepsOrder ==
  ASSUME OrderInv, PipeInv,
         FinishRun \/ StopCalled \/ StopStep \/ (\E r \in kept : ReleaseFrame(r)) \/ UNCHANGED vars
  PROVE  /\ OrderInv' /\ Line' = Line /\ UNCHANGED <<shown, drop_oldest>>
         /\ q_stopping' = q_stopping \/ (StopCalled /\ q_stopping' = TRUE)
<1>1. /\ UNCHANGED <<meta, q, pushing, gi, shown, decoded, ppc, filling, pending, allocated, held, slot, taken>>
      /\ drop_oldest' = drop_oldest
      /\ pusher' # "out" => pusher # "out"
      /\ q_stopping' = q_stopping \/ (StopCalled /\ q_stopping' = TRUE)
  <2>1. CASE FinishRun
    BY <2>1 DEF FinishRun, Q!MarkFinished, batcherVars, producerVars, consumerVars
  <2>2. CASE StopCalled
    BY <2>2 DEF StopCalled, Q!QueueStop, Q!WakePusher, batcherVars, producerVars, consumerVars
  <2>3. CASE StopFlag \/ StopJoin
    BY <2>3 DEF StopFlag, StopJoin, batcherVars, queueVars, producerVars, consumerVars
  <2>4. CASE StopBatcher
    BY <2>4 DEF StopBatcher, B!SetStopping, queueVars, producerVars, consumerVars
  <2>5. CASE \E r \in kept : ReleaseFrame(r)
    BY <2>5 DEF ReleaseFrame, batcherVars, queueVars, producerVars
  <2>6. CASE UNCHANGED vars
    BY <2>6 DEF vars, batcherVars, queueVars, producerVars, consumerVars
  <2>7. QED BY <2>1, <2>2, <2>3, <2>4, <2>5, <2>6 DEF StopStep
<1>2. QED BY <1>1, QuietOrder

\* Taking a buffer changes neither which slots are unpushed nor their order.
LEMMA TakeOrder ==
  ASSUME OrderInv, PipeInv, BatchFacts, BufferFacts, Take
  PROVE  OrderInv' /\ Line' = Line /\ UNCHANGED <<shown, drop_oldest, q_stopping>>
<1>1. /\ UNCHANGED <<meta, q, pushing, pusher, gi, shown, drop_oldest, q_stopping, decoded, ppc>>
      /\ UNCHANGED <<allocated, held, slot>>
  BY DEF Take, queueVars, producerVars, consumerVars, B!TakePending, B!TakeClose, B!TakeStragglers, B!TakeNull,
         B!TakeWait
<1>2. DataType /\ PushInv
  BY DEF PipeInv
<1>3. CASE B!TakePending \/ B!TakeClose
  <2>1. gpu = "take" /\ gi = 0 /\ taken = None /\ pusher = "out"
    BY <1>2, <1>3 DEF B!TakePending, B!TakeClose, PushInv, BufferFacts, Pushing
  <2>2. \A c \in ReadySlots : c[1] \in Bufs /\ c[2] \in Nat /\ None \notin Bufs
    BY BuffersInUse, PipelineAssumption
  <2>3. Unpushed = ReadySlots
    BY <2>1, <2>2 DEF Unpushed
  <2>4. Unpushed' = Unpushed
    <3>1. ReadySlots' = ReadySlots
      BY <1>1, SamePlaces
    <3>2. \A c \in ReadySlots : c[2] >= gi
      BY <2>1, <2>2
    <3>3. QED BY <1>1, <2>3, <3>1, <3>2 DEF Unpushed
  <2>5. \A b, c \in Bufs : allocated[b] > 0 /\ allocated[c] > 0
          => (<<b, c>> \in BufOrder' <=> <<b, c>> \in BufOrder)
    BY <1>3, TakeKeepsOrder
  <2>6. BatchOrder(Unpushed', meta', BufOrder') /\ ClaimsLast(Unpushed', meta', BufOrder', held', slot')
    BY <1>1, <2>4, <2>5, SameSlotsSameOrder
  <2>7. QED BY <1>1, <1>2, <2>1, <2>4, <2>6, OrderStays
<1>4. CASE B!TakeStragglers \/ B!TakeNull \/ B!TakeWait
  <2>1. UNCHANGED <<filling, pending, taken>>
    BY <1>4 DEF B!TakeStragglers, B!TakeNull, B!TakeWait
  <2>2. QED BY <1>1, <2>1, QuietOrder
<1>5. QED BY <1>3, <1>4 DEF Take

\* The unpushed slots when the GPU thread goes on to the next.
LEMMA NextUnpushed ==
  ASSUME BatchFacts, BufferFacts, PushInv, gpu = "busy", gi' = gi + 1, UNCHANGED <<taken, allocated, held, slot>>
  PROVE  /\ Unpushed' = Unpushed \ {<<taken, gi>>}
         /\ gi >= allocated[taken] => Unpushed' = Unpushed
         /\ gi < allocated[taken] => <<taken, gi>> \in Unpushed
<1>1. ReadySlots' = ReadySlots
  BY SamePlaces
<1>2. gi \in Nat /\ taken \in Bufs /\ allocated[taken] \in Nat
  BY BuffersInUse DEF PushInv, BatchFacts
<1>3. ASSUME NEW c \in ReadySlots
      PROVE  (c[1] = taken => c[2] >= gi + 1) <=> (c[1] = taken => c[2] >= gi) /\ c # <<taken, gi>>
  <2>1. c = <<c[1], c[2]>> /\ c[2] \in Nat
    BY ReadyPairs, BuffersInUse
  <2>2. c # <<taken, gi>> <=> (c[1] = taken => c[2] # gi)
    BY <2>1
  <2>3. c[2] >= gi + 1 <=> c[2] >= gi /\ c[2] # gi
    BY <1>2, <2>1
  <2>4. QED BY <2>2, <2>3
<1>4. Unpushed' = Unpushed \ {<<taken, gi>>}
  BY <1>1, <1>3 DEF Unpushed
<1>5. gi >= allocated[taken] => <<taken, gi>> \notin Unpushed
  <2>1. <<taken, gi>> \in ReadySlots => gi < allocated[taken]
    BY BuffersInUse
  <2>2. QED BY <1>2, <2>1 DEF Unpushed
<1>6. gi < allocated[taken] => <<taken, gi>> \in Unpushed
  BY <1>2, BatchSlotReady DEF Unpushed
<1>7. QED BY <1>4, <1>5, <1>6

\* Fewer unpushed slots are still in order.
LEMMA FewerSlotsOrder ==
  ASSUME OrderInv, Unpushed' \subseteq Unpushed, UNCHANGED <<filling, pending, taken, held, slot>>,
         \A c \in Unpushed' : StreamAt(meta', c) = StreamAt(meta, c) /\ NoAt(meta', c) = NoAt(meta, c)
  PROVE  BatchOrder(Unpushed', meta', BufOrder') /\ ClaimsLast(Unpushed', meta', BufOrder', held', slot')
<1>1. BufOrder' = BufOrder
  BY SameBuffersSameOrder
<1>2. QED BY <1>1 DEF OrderInv, BatchOrder, ClaimsLast

\* Passing over an abandoned slot.
LEMMA SkipOrder ==
  ASSUME OrderInv, PipeInv, BatchFacts, BufferFacts, SkipAbandoned
  PROVE  OrderInv' /\ Line' = Line /\ UNCHANGED <<shown, drop_oldest, q_stopping>>
<1>1. /\ UNCHANGED <<meta, q, pushing, pusher, shown, drop_oldest, q_stopping, decoded, ppc>>
      /\ UNCHANGED <<filling, pending, allocated, held, slot, taken>>
      /\ gpu = "busy" /\ gi' = gi + 1 /\ BatchMeta.stream = None
  BY DEF SkipAbandoned, Pushing, batcherVars, queueVars, producerVars, consumerVars
<1>2. DataType /\ PushInv
  BY DEF PipeInv
<1>3. Unpushed' = Unpushed \ {<<taken, gi>>} /\ StreamAt(meta, <<taken, gi>>) = None
  BY <1>1, <1>2, NextUnpushed DEF BatchMeta, StreamAt
<1>4. pusher = "out"
  BY <1>1, <1>2 DEF PushInv
<1>5. BatchOrder(Unpushed', meta', BufOrder') /\ ClaimsLast(Unpushed', meta', BufOrder', held', slot')
  BY <1>1, <1>3, FewerSlotsOrder
<1>6. QED BY <1>1, <1>2, <1>3, <1>4, <1>5, OrderStays

\* Taking the ring slot out of a batch slot's meta, and nothing else, changes no frame.
LEMMA SameFramesInMeta ==
  ASSUME DataType, NEW b \in Bufs, NEW i \in 0..(MaxBatch - 1),
         meta' = [meta EXCEPT ![b][i].slot = NoSlot]
  PROVE  \A c \in ReadySlots : StreamAt(meta', c) = StreamAt(meta, c) /\ NoAt(meta', c) = NoAt(meta, c)
<1>1. meta \in [Bufs -> [0..(MaxBatch - 1) -> Metas \cup {Abandoned}]]
  BY DEF DataType
<1>. DEFINE m == meta[b][i]
            m2 == [m EXCEPT !.slot = NoSlot]
<1>2. m2.stream = m.stream /\ m2.no = m.no
  <2>1. m \in Metas \cup {Abandoned}
    BY <1>1
  <2>. HIDE DEF m
  <2>2. CASE m \in Metas
    BY <2>2 DEF Metas
  <2>3. CASE m = Abandoned
    BY <2>3 DEF Abandoned
  <2>4. QED BY <2>1, <2>2, <2>3
<1>3. meta' = [meta EXCEPT ![b] = [meta[b] EXCEPT ![i] = m2]]
  BY <1>1
<1>. HIDE DEF m2
<1>4. ASSUME NEW c \in ReadySlots
      PROVE  StreamAt(meta', c) = StreamAt(meta, c) /\ NoAt(meta', c) = NoAt(meta, c)
  <2>1. c[1] \in Bufs /\ c[2] \in 0..(MaxBatch - 1)
    BY DEF ReadySlots
  <2>2. /\ meta'[b] = [meta[b] EXCEPT ![i] = m2] /\ DOMAIN meta[b] = 0..(MaxBatch - 1)
        /\ c[1] # b => meta'[c[1]] = meta[c[1]]
    BY <1>1, <1>3, <2>1
  <2>3. meta'[b][i] = m2 /\ (c[2] # i => meta'[b][c[2]] = meta[b][c[2]])
    BY <2>1, <2>2
  <2>4. QED BY <1>2, <2>2, <2>3 DEF StreamAt, NoAt
<1>5. QED BY <1>4

\* Releasing a batch's ring slots.
LEMMA ReleaseOrder ==
  ASSUME OrderInv, PipeInv, BatchFacts, BufferFacts, ReleaseRing
  PROVE  OrderInv' /\ Line' = Line /\ UNCHANGED <<shown, drop_oldest, q_stopping>>
<1>. DEFINE i == gi - allocated[taken]
<1>1. /\ UNCHANGED <<q, pushing, pusher, shown, drop_oldest, q_stopping, decoded, ppc>>
      /\ UNCHANGED <<filling, pending, allocated, held, slot, taken>>
      /\ gpu = "busy" /\ gi' = gi + 1 /\ Releasing
      /\ meta' = [meta EXCEPT ![taken][i].slot = NoSlot]
  BY DEF ReleaseRing, Releasing, batcherVars, queueVars, producerVars, consumerVars
<1>2. DataType /\ PushInv
  BY DEF PipeInv
<1>3. /\ gi \in Nat /\ taken \in Bufs /\ allocated[taken] \in Nat /\ gi >= allocated[taken]
      /\ i \in Nat /\ i < allocated[taken]
  <2>1. gi \in Nat /\ taken \in Bufs /\ allocated[taken] \in Nat
    BY <1>1, <1>2 DEF PushInv, BatchFacts
  <2>2. QED BY <1>1, <2>1 DEF Releasing
<1>. HIDE DEF i
<1>4. i \in 0..(MaxBatch - 1)
  BY <1>1, <1>3, BatchSlotReady
<1>5. Unpushed' = Unpushed /\ Unpushed \subseteq ReadySlots
  BY <1>1, <1>2, <1>3, NextUnpushed, BuffersInUse
<1>6. \A c \in Unpushed : StreamAt(meta', c) = StreamAt(meta, c) /\ NoAt(meta', c) = NoAt(meta, c)
  BY <1>1, <1>2, <1>3, <1>4, <1>5, SameFramesInMeta
<1>7. pusher = "out"
  BY <1>2, <1>3 DEF PushInv, Pushing
<1>8. BatchOrder(Unpushed', meta', BufOrder') /\ ClaimsLast(Unpushed', meta', BufOrder', held', slot')
  BY <1>1, <1>5, <1>6, FewerSlotsOrder
<1>9. QED BY <1>1, <1>2, <1>5, <1>6, <1>7, <1>8, OrderStays

\* Recycling a batch: none of its slots were unpushed any more, and the others keep their
\* order.
LEMMA RecycleOrder ==
  ASSUME OrderInv, PipeInv, BatchFacts, BufferFacts, RecycleBatch
  PROVE  OrderInv' /\ Line' = Line /\ UNCHANGED <<shown, drop_oldest, q_stopping>>
<1>1. /\ UNCHANGED <<meta, q, pushing, pusher, shown, drop_oldest, q_stopping, decoded, ppc>>
      /\ UNCHANGED <<filling, pending, held, slot>>
      /\ gpu = "busy" /\ gi = 2 * allocated[taken] /\ gi' = 0 /\ taken' = None /\ B!Recycle
  BY DEF RecycleBatch, B!Recycle, queueVars, producerVars, consumerVars
<1>2. DataType /\ PushInv
  BY DEF PipeInv
<1>3. taken \in Bufs /\ allocated[taken] \in Nat /\ allocated[taken] > 0
  BY <1>1 DEF BatchFacts
<1>4. ReadySlots' = {c \in ReadySlots : c[1] # taken}
  BY <1>1, RecycleRemoves
<1>5. Unpushed' = Unpushed /\ \A c \in Unpushed : c[1] # taken /\ c[1] \in Bufs
  <2>1. ASSUME NEW c \in ReadySlots
        PROVE  (c[1] = taken => ~(c[2] >= gi)) /\ c[1] # None /\ c[1] \in Bufs
    BY <1>1, <1>3, BuffersInUse, PipelineAssumption
  <2>2. Unpushed = {c \in ReadySlots : c[1] # taken}
    BY <2>1 DEF Unpushed
  <2>3. Unpushed' = ReadySlots'
    BY <1>1, <1>4, <2>1 DEF Unpushed
  <2>4. QED BY <1>4, <2>1, <2>2, <2>3
<1>6. \A b, c \in Bufs : b # taken => (<<b, c>> \in BufOrder' <=> <<b, c>> \in BufOrder)
  <2>1. None \notin Bufs /\ B!InPending' = B!InPending
    BY <1>1, PipelineAssumption DEF B!InPending
  <2>2. QED BY <1>1, <2>1, BufOrderIs, BufOrderIsNext
<1>7. BatchOrder(Unpushed', meta', BufOrder') /\ ClaimsLast(Unpushed', meta', BufOrder', held', slot')
  <2>1. \A s \in Streams : held[s] # None => held[s] \in Bufs
    BY BuffersInUse
  <2>2. ASSUME NEW c \in Unpushed, NEW d, d[1] \in Bufs
        PROVE  Before(BufOrder', c, d) <=> Before(BufOrder, c, d)
    BY <1>5, <1>6, <2>2 DEF Before
  <2>3. BatchOrder(Unpushed, meta, BufOrder')
    BY <1>5, <2>2 DEF OrderInv, BatchOrder
  <2>4. ClaimsLast(Unpushed, meta, BufOrder', held, slot)
    <3>1. ASSUME NEW s \in Streams, held[s] # None, NEW c \in Unpushed, StreamAt(meta, c) = s
          PROVE  Before(BufOrder', c, <<held[s], slot[s]>>)
      <4>1. Before(BufOrder, c, <<held[s], slot[s]>>)
        BY <3>1 DEF OrderInv, ClaimsLast
      <4>2. QED BY <2>1, <2>2, <3>1, <4>1
    <3>2. QED BY <3>1 DEF ClaimsLast
  <2>5. QED BY <1>1, <1>5, <2>3, <2>4
<1>8. pusher = "out"
  BY <1>1, <1>2, <1>3 DEF PushInv, Pushing
<1>9. QED BY <1>1, <1>2, <1>5, <1>7, <1>8, OrderStays

-----------------------------------------------------------------------------
(* Frame order: pushing a result *)

\* The next slot's frame leaves the batch: it comes before every frame of its stream that is
\* left there, and after those in the queue.
LEMMA NextFrame ==
  ASSUME OrderInv, PipeInv, BatchFacts, BufferFacts, gpu = "busy", gi < allocated[taken], gi' = gi + 1,
         UNCHANGED <<filling, pending, taken, allocated, held, slot>>, BatchMeta.stream # None,
         \A c \in ReadySlots : StreamAt(meta', c) = StreamAt(meta, c) /\ NoAt(meta', c) = NoAt(meta, c)
  PROVE  /\ BatchOrder(Unpushed', meta', BufOrder') /\ ClaimsLast(Unpushed', meta', BufOrder', held', slot')
         /\ \A c \in Unpushed' : c \in Unpushed /\ StreamAt(meta', c) = StreamAt(meta, c) /\ NoAt(meta', c) = NoAt(meta, c)
         /\ \A c \in Unpushed' : StreamAt(meta, c) = BatchMeta.stream => BatchMeta.no < NoAt(meta, c)
         /\ \A i \in DOMAIN q : q[i].stream = BatchMeta.stream => q[i].no < BatchMeta.no
         /\ \A s \in Streams, n \in FrameNos :
              (\E c \in Unpushed : StreamAt(meta, c) = s /\ NoAt(meta, c) = n) <=>
                 \/ \E c \in Unpushed' : StreamAt(meta', c) = s /\ NoAt(meta', c) = n
                 \/ s = BatchMeta.stream /\ n = BatchMeta.no
<1>1. DataType /\ PushInv
  BY DEF PipeInv
<1>. DEFINE b == <<taken, gi>>
<1>2. Unpushed' = Unpushed \ {b} /\ b \in Unpushed /\ Unpushed \subseteq ReadySlots
  BY <1>1, NextUnpushed, BuffersInUse
<1>3. StreamAt(meta, b) = BatchMeta.stream /\ NoAt(meta, b) = BatchMeta.no
  BY DEF StreamAt, NoAt, BatchMeta
<1>4. ASSUME NEW c \in Unpushed' PROVE Before(BufOrder, b, c)
  <2>1. c \in ReadySlots /\ c \in Unpushed /\ c # b /\ c = <<c[1], c[2]>> /\ c[1] \in Bufs /\ c[2] \in Nat
    BY <1>2, BuffersInUse, ReadyPairs
  <2>2. CASE c[1] = taken
    <3>1. c[2] >= gi /\ c[2] # gi /\ gi \in Nat
      BY <1>1, <2>1, <2>2 DEF Unpushed, PushInv
    <3>2. QED BY <2>1, <2>2, <3>1 DEF Before
  <2>3. CASE c[1] # taken
    <3>1. taken \in Bufs
      BY DEF BatchFacts
    <3>2. QED BY <2>1, <2>3, <3>1, BufOrderIs DEF Before
  <2>4. QED BY <2>2, <2>3
<1>5. \A c \in Unpushed' : StreamAt(meta, c) = BatchMeta.stream => BatchMeta.no < NoAt(meta, c)
  BY <1>2, <1>3, <1>4 DEF OrderInv, BatchOrder
<1>6. \A i \in DOMAIN q : q[i].stream = BatchMeta.stream => q[i].no < BatchMeta.no
  BY <1>2, <1>3 DEF OrderInv, QueueOrder
<1>7. \A c \in Unpushed' : c \in Unpushed /\ StreamAt(meta', c) = StreamAt(meta, c) /\ NoAt(meta', c) = NoAt(meta, c)
  BY <1>2
<1>8. BatchOrder(Unpushed', meta', BufOrder') /\ ClaimsLast(Unpushed', meta', BufOrder', held', slot')
  BY <1>2, <1>7, FewerSlotsOrder
<1>. HIDE DEF b
<1>9. \A s \in Streams, n \in FrameNos :
        (\E c \in Unpushed : StreamAt(meta, c) = s /\ NoAt(meta, c) = n) <=>
           \/ \E c \in Unpushed' : StreamAt(meta', c) = s /\ NoAt(meta', c) = n
           \/ s = BatchMeta.stream /\ n = BatchMeta.no
  BY <1>2, <1>3, <1>7
<1>10. QED BY <1>5, <1>6, <1>7, <1>8, <1>9

\* The oldest result leaves the queue: it was the first of its stream's line.
LEMMA HeadLeaves ==
  ASSUME NEW qq \in Seq(Metas), qq # <<>>, NEW us, NEW mt, QueueOrder(qq, us, mt)
  PROVE  /\ QueueOrder(Tail(qq), us, mt)
         /\ \A i \in DOMAIN Tail(qq) : \E j \in DOMAIN qq : Tail(qq)[i] = qq[j]
         /\ \A n : Flying(qq, us, mt, Head(qq).stream, n) => n = Head(qq).no \/ Head(qq).no < n
         /\ \A s, n : Flying(Tail(qq), us, mt, s, n) <=>
                         Flying(qq, us, mt, s, n) /\ ~(s = Head(qq).stream /\ n = Head(qq).no)
<1>1. /\ 1 \in DOMAIN qq /\ Head(qq) = qq[1] /\ Head(qq) \in Metas
      /\ \A i \in DOMAIN Tail(qq) : i + 1 \in DOMAIN qq /\ Tail(qq)[i] = qq[i + 1] /\ i + 1 # 1 /\ i \in Nat
      /\ \A i \in DOMAIN qq : i \in Nat /\ (i # 1 => 1 < i /\ i - 1 \in DOMAIN Tail(qq) /\ Tail(qq)[i - 1] = qq[i])
  <2>1. \A i \in DOMAIN qq : i \in Nat /\ (i # 1 => 1 < i)
    OBVIOUS
  <2>2. QED BY <2>1, TailOf
<1>2. QueueOrder(Tail(qq), us, mt)
  <2>1. ASSUME NEW i \in DOMAIN Tail(qq), NEW j \in DOMAIN Tail(qq), i < j, Tail(qq)[i].stream = Tail(qq)[j].stream
        PROVE  Tail(qq)[i].no < Tail(qq)[j].no
    <3>1. i + 1 < j + 1
      BY <1>1, <2>1
    <3>2. QED BY <1>1, <2>1, <3>1 DEF QueueOrder
  <2>2. QED BY <1>1, <2>1 DEF QueueOrder
<1>3. \A i \in DOMAIN qq : i # 1 /\ qq[i].stream = Head(qq).stream => Head(qq).no < qq[i].no
  BY <1>1 DEF QueueOrder
<1>4. \A c \in us : StreamAt(mt, c) = Head(qq).stream => Head(qq).no < NoAt(mt, c)
  BY <1>1 DEF QueueOrder
<1>5. ASSUME NEW s, NEW n
      PROVE  /\ Flying(Tail(qq), us, mt, s, n) =>
                  Flying(qq, us, mt, s, n) /\ ~(s = Head(qq).stream /\ n = Head(qq).no)
             /\ Flying(qq, us, mt, s, n) /\ ~(s = Head(qq).stream /\ n = Head(qq).no) =>
                  Flying(Tail(qq), us, mt, s, n)
  <2>1. Head(qq).no \in Nat
    BY <1>1 DEF Metas, FrameNos
  <2>2. ~(Head(qq).no < Head(qq).no)
    BY <2>1
  <2>3. Flying(Tail(qq), us, mt, s, n) => Flying(qq, us, mt, s, n)
    BY <1>1 DEF Flying
  <2>4. ~Flying(Tail(qq), us, mt, Head(qq).stream, Head(qq).no)
    BY <1>1, <1>3, <1>4, <2>2 DEF Flying
  <2>5. Flying(qq, us, mt, s, n) /\ ~(s = Head(qq).stream /\ n = Head(qq).no) => Flying(Tail(qq), us, mt, s, n)
    <3>1. ASSUME NEW i \in DOMAIN qq, qq[i].stream = s, qq[i].no = n, ~(s = Head(qq).stream /\ n = Head(qq).no)
          PROVE  Flying(Tail(qq), us, mt, s, n)
      <4>1. i # 1
        BY <1>1, <3>1
      <4>2. i - 1 \in DOMAIN Tail(qq) /\ Tail(qq)[i - 1] = qq[i]
        BY <1>1, <4>1
      <4>3. QED BY <3>1, <4>2, Zenon DEF Flying
    <3>2. QED BY <3>1, Zenon DEF Flying
  <2>6. QED BY <2>3, <2>4, <2>5
<1>6. \A n : Flying(qq, us, mt, Head(qq).stream, n) => n = Head(qq).no \/ Head(qq).no < n
  BY <1>1, <1>3, <1>4 DEF Flying
<1>7. \A i \in DOMAIN Tail(qq) : \E j \in DOMAIN qq : Tail(qq)[i] = qq[j]
  BY <1>1
<1>8. QED BY <1>2, <1>5, <1>6, <1>7

\* One more result is queued, which comes after all its stream has there and before all that
\* is left in the batches.
LEMMA OneQueued ==
  ASSUME NEW qq \in Seq(Metas), NEW r \in Metas, NEW us, NEW mt,
         \A i, j \in DOMAIN qq : i < j /\ qq[i].stream = qq[j].stream => qq[i].no < qq[j].no,
         \A i \in DOMAIN qq, c \in us : qq[i].stream = StreamAt(mt, c) => qq[i].no < NoAt(mt, c),
         \A i \in DOMAIN qq : qq[i].stream = r.stream => qq[i].no < r.no,
         \A c \in us : StreamAt(mt, c) = r.stream => r.no < NoAt(mt, c)
  PROVE  /\ QueueOrder(Append(qq, r), us, mt)
         /\ \A s, n : Flying(Append(qq, r), us, mt, s, n) <=>
                         Flying(qq, us, mt, s, n) \/ (s = r.stream /\ n = r.no)
<1>. DEFINE e == Len(qq) + 1
            q2 == Append(qq, r)
<1>1. /\ DOMAIN q2 = DOMAIN qq \cup {e} /\ q2[e] = r /\ \A i \in DOMAIN qq : q2[i] = qq[i]
      /\ \A i \in DOMAIN qq : i < e /\ ~(e < i)
      /\ ~(e < e)
  <2>1. \A i \in DOMAIN qq : i < e /\ ~(e < i)
    OBVIOUS
  <2>2. ~(e < e)
    OBVIOUS
  <2>3. QED BY <2>1, <2>2, AppendOf
<1>. HIDE DEF e, q2
<1>2. ASSUME NEW i \in DOMAIN q2, NEW j \in DOMAIN q2, i < j, q2[i].stream = q2[j].stream
      PROVE  q2[i].no < q2[j].no
  <2>1. i # e
    BY <1>1, <1>2
  <2>2. QED BY <1>1, <1>2, <2>1
<1>3. ASSUME NEW i \in DOMAIN q2, NEW c \in us, q2[i].stream = StreamAt(mt, c) PROVE q2[i].no < NoAt(mt, c)
  BY <1>1, <1>3
<1>4. \A s, n : Flying(q2, us, mt, s, n) <=> Flying(qq, us, mt, s, n) \/ (s = r.stream /\ n = r.no)
  BY <1>1 DEF Flying
<1>5. QED BY <1>2, <1>3, <1>4 DEF QueueOrder, q2

\* With fewer frames in flight the numbers still fit.
LEMMA FewerFlying ==
  ASSUME NEW qq, NEW qq2, NEW us, NEW us2, NEW mt, NEW mt2, NEW sh, NEW dec, NEW pc,
         FlightNumbers(qq, us, mt, sh, dec, pc),
         \A s \in Streams, n \in FrameNos : Flying(qq2, us2, mt2, s, n) => Flying(qq, us, mt, s, n)
  PROVE  FlightNumbers(qq2, us2, mt2, sh, dec, pc)
<1>1. ASSUME NEW s \in Streams
      PROVE  /\ sh[s] <= dec[s]
             /\ \A n \in FrameNos : Flying(qq2, us2, mt2, s, n) => sh[s] < n /\ n <= dec[s]
             /\ pc[s] \in {"ring", "batch", "preprocess"} =>
                  /\ sh[s] < dec[s]
                  /\ \A n \in FrameNos : Flying(qq2, us2, mt2, s, n) => n < dec[s]
  <2>1. /\ sh[s] <= dec[s]
        /\ \A n \in FrameNos : Flying(qq, us, mt, s, n) => sh[s] < n /\ n <= dec[s]
        /\ pc[s] \in {"ring", "batch", "preprocess"} =>
             sh[s] < dec[s] /\ \A n \in FrameNos : Flying(qq, us, mt, s, n) => n < dec[s]
    BY DEF FlightNumbers
  <2>2. QED BY <2>1, Zenon
<1>2. QED BY <1>1 DEF FlightNumbers

\* A frame leaves its line.
LEMMA LineLoses ==
  ASSUME NEW s \in Streams, NEW k,
         \A t \in Streams, n \in FrameNos :
           Flying(q', Unpushed', meta', t, n) <=> Flying(q, Unpushed, meta, t, n) /\ ~(t = s /\ n = k)
  PROVE  Line' = [Line EXCEPT ![s] = @ \ {k}]
<1>1. \A t \in Streams : Line'[t] = IF t = s THEN Line[t] \ {k} ELSE Line[t]
  BY LineFacts, LineFactsNext
<1>2. Line = [t \in Streams |-> Line[t]] /\ Line' = [t \in Streams |-> Line'[t]]
  BY DEF Line
<1>3. QED BY <1>1, <1>2

\* The result that is pushed is the frame of the next slot.
LEMMA PushedFrame ==
  ASSUME OrderInv, PipeInv, BatchFacts, BufferFacts, PushResult
  PROVE  /\ TheResult \in Metas /\ TheResult.stream = BatchMeta.stream /\ TheResult.no = BatchMeta.no
         /\ gpu = "busy" /\ gi < allocated[taken] /\ BatchMeta.stream # None
         /\ UNCHANGED <<shown, decoded, ppc, filling, pending, allocated, held, slot, taken>>
         /\ \A c \in ReadySlots : StreamAt(meta', c) = StreamAt(meta, c) /\ NoAt(meta', c) = NoAt(meta, c)
         /\ BatchMeta \in Metas
<1>1. /\ Pushing /\ BatchMeta.stream # None /\ HandOver
      /\ UNCHANGED <<shown, decoded, ppc, filling, pending, allocated, held, slot, taken>>
      /\ pusher \in {"out", "woken"}
  BY DEF PushResult, Q!PushRoom, Q!PushWait, Q!PushEvict, Q!PushDiscard, Q!InPush, batcherVars, producerVars,
         consumerVars
<1>2. DataType /\ PushInv
  BY DEF PipeInv
<1>3. TheResult \in Metas
  BY <1>1, ResultFacts
<1>4. taken \in Bufs /\ gi \in 0..(MaxBatch - 1) /\ <<taken, gi>> \in ReadySlots
  BY <1>1, <1>2, BatchSlotReady DEF Pushing, PushInv
<1>5. BatchMeta \in Metas
  <2>1. BatchMeta \in Metas \cup {Abandoned}
    <3>1. meta \in [Bufs -> [0..(MaxBatch - 1) -> Metas \cup {Abandoned}]]
      BY <1>2 DEF DataType
    <3>2. meta[taken] \in [0..(MaxBatch - 1) -> Metas \cup {Abandoned}]
      BY <1>4, <3>1
    <3>3. QED BY <1>4, <3>2 DEF BatchMeta
  <2>2. Abandoned.stream = None
    BY DEF Abandoned
  <2>3. QED BY <1>1, <2>1, <2>2
<1>6. TheResult.stream = BatchMeta.stream /\ TheResult.no = BatchMeta.no
  <2>1. CASE pusher = "out"
    <3>1. \A x : [BatchMeta EXCEPT !.slot = x].stream = BatchMeta.stream /\ [BatchMeta EXCEPT !.slot = x].no = BatchMeta.no
      BY <1>5 DEF Metas
    <3>2. TheResult = ResultOf(BatchMeta)
      BY <2>1 DEF TheResult
    <3>3. QED BY <3>1, <3>2 DEF ResultOf
  <2>2. CASE pusher # "out"
    BY <2>2 DEF TheResult, OrderInv
  <2>3. QED BY <2>1, <2>2
<1>7. \A c \in ReadySlots : StreamAt(meta', c) = StreamAt(meta, c) /\ NoAt(meta', c) = NoAt(meta, c)
  <2>1. CASE meta' = meta
    BY <2>1
  <2>2. CASE meta' = [meta EXCEPT ![taken][gi].slot = NoSlot]
    BY <1>2, <1>4, <2>2, SameFramesInMeta
  <2>3. QED BY <1>1, <2>1, <2>2 DEF HandOver
<1>8. QED BY <1>1, <1>3, <1>5, <1>6, <1>7 DEF Pushing

\* Falling asleep in Push, the result is still the frame of the next slot.
LEMMA PushWaitOrder ==
  ASSUME OrderInv, PipeInv, BatchFacts, BufferFacts, PushResult, Q!PushWait(TheResult), gi' = gi
  PROVE  OrderInv' /\ Line' = Line /\ UNCHANGED <<shown, drop_oldest, q_stopping>>
<1>1. /\ UNCHANGED <<q, drop_oldest, q_stopping>> /\ pushing' = TheResult
  BY DEF Q!PushWait
<1>2. /\ TheResult.stream = BatchMeta.stream /\ TheResult.no = BatchMeta.no
      /\ gpu = "busy" /\ gi < allocated[taken]
      /\ UNCHANGED <<shown, decoded, ppc, filling, pending, allocated, held, slot, taken>>
      /\ \A c \in ReadySlots : StreamAt(meta', c) = StreamAt(meta, c) /\ NoAt(meta', c) = NoAt(meta, c)
  BY PushedFrame
<1>3. DataType /\ PushInv
  BY DEF PipeInv
<1>4. Unpushed' = Unpushed /\ Unpushed \subseteq ReadySlots
  BY <1>2, SamePlaces, SameUnpushed, BuffersInUse
<1>5. BatchMeta'.stream = BatchMeta.stream /\ BatchMeta'.no = BatchMeta.no
  <2>1. <<taken, gi>> \in ReadySlots
    BY <1>2, <1>3, BatchSlotReady DEF PushInv
  <2>2. QED BY <1>2, <2>1 DEF BatchMeta, StreamAt, NoAt
<1>6. BatchOrder(Unpushed', meta', BufOrder') /\ ClaimsLast(Unpushed', meta', BufOrder', held', slot')
  BY <1>2, <1>4, FewerSlotsOrder
<1>7. QED BY <1>1, <1>2, <1>3, <1>4, <1>5, <1>6, OrderStays

\* What holds of the lines and the queue once the next slot is behind the GPU thread.
LEMMA PushedOrder ==
  ASSUME OrderInv, PipeInv, BatchFacts, BufferFacts, PushResult, gi' = gi + 1, pusher' = "out",
         QueueOrder(q', Unpushed', meta'),
         \A s \in Streams, n \in FrameNos : Flying(q', Unpushed', meta', s, n) => Flying(q, Unpushed, meta, s, n)
  PROVE  OrderInv'
<1>1. /\ gpu = "busy" /\ gi < allocated[taken] /\ BatchMeta.stream # None
      /\ UNCHANGED <<shown, decoded, ppc, filling, pending, allocated, held, slot, taken>>
      /\ \A c \in ReadySlots : StreamAt(meta', c) = StreamAt(meta, c) /\ NoAt(meta', c) = NoAt(meta, c)
  BY PushedFrame
<1>2. BatchOrder(Unpushed', meta', BufOrder') /\ ClaimsLast(Unpushed', meta', BufOrder', held', slot')
  BY <1>1, NextFrame
<1>3. FlightNumbers(q', Unpushed', meta', shown', decoded', ppc')
  <2>1. FlightNumbers(q, Unpushed, meta, shown, decoded, ppc)
    BY DEF OrderInv
  <2>2. FlightNumbers(q', Unpushed', meta', shown, decoded, ppc)
    BY <2>1, FewerFlying
  <2>3. QED BY <1>1, <2>2
<1>4. QED BY <1>1, <1>2, <1>3 DEF OrderInv

\* A result of the batch becomes one of the queue: the same frames are in flight.
LEMMA PushRoomOrder ==
  ASSUME OrderInv, PipeInv, BatchFacts, BufferFacts, PushResult, Q!PushRoom(TheResult), gi' = gi + 1
  PROVE  OrderInv' /\ Line' = Line /\ UNCHANGED <<shown, drop_oldest, q_stopping>>
<1>. DEFINE r == TheResult
<1>1. UNCHANGED <<drop_oldest, q_stopping>> /\ q' = Append(q, r) /\ pusher' = "out"
  BY DEF Q!PushRoom, Q!Leave
<1>2. /\ r \in Metas /\ r.stream = BatchMeta.stream /\ r.no = BatchMeta.no
      /\ gpu = "busy" /\ gi < allocated[taken] /\ BatchMeta.stream # None
      /\ UNCHANGED <<shown, decoded, ppc, filling, pending, allocated, held, slot, taken>>
      /\ \A c \in ReadySlots : StreamAt(meta', c) = StreamAt(meta, c) /\ NoAt(meta', c) = NoAt(meta, c)
  BY PushedFrame
<1>3. q \in Seq(Metas)
  BY DEF PipeInv, DataType
<1>. HIDE DEF r
<1>4. /\ \A c \in Unpushed' : c \in Unpushed /\ StreamAt(meta', c) = StreamAt(meta, c) /\ NoAt(meta', c) = NoAt(meta, c)
      /\ \A c \in Unpushed' : StreamAt(meta, c) = r.stream => r.no < NoAt(meta, c)
      /\ \A i \in DOMAIN q : q[i].stream = r.stream => q[i].no < r.no
      /\ \A s \in Streams, n \in FrameNos :
           (\E c \in Unpushed : StreamAt(meta, c) = s /\ NoAt(meta, c) = n) <=>
              \/ \E c \in Unpushed' : StreamAt(meta', c) = s /\ NoAt(meta', c) = n
              \/ s = r.stream /\ n = r.no
  BY <1>2, NextFrame
<1>5. /\ \A i, j \in DOMAIN q : i < j /\ q[i].stream = q[j].stream => q[i].no < q[j].no
      /\ \A i \in DOMAIN q, c \in Unpushed' : q[i].stream = StreamAt(meta', c) => q[i].no < NoAt(meta', c)
      /\ \A c \in Unpushed' : StreamAt(meta', c) = r.stream => r.no < NoAt(meta', c)
  BY <1>4 DEF OrderInv, QueueOrder
<1>6. /\ QueueOrder(Append(q, r), Unpushed', meta')
      /\ \A s, n : Flying(Append(q, r), Unpushed', meta', s, n) <=>
                      Flying(q, Unpushed', meta', s, n) \/ (s = r.stream /\ n = r.no)
  BY <1>2, <1>3, <1>4, <1>5, OneQueued
<1>7. \A s \in Streams, n \in FrameNos : Flying(q', Unpushed', meta', s, n) <=> Flying(q, Unpushed, meta, s, n)
  BY <1>1, <1>4, <1>6 DEF Flying
<1>8. OrderInv'
  BY <1>1, <1>6, <1>7, PushedOrder
<1>9. QED BY <1>1, <1>2, <1>7, <1>8, SameLine

\* The oldest result makes room for a result of the batch: it leaves its line.
LEMMA PushEvictOrder ==
  ASSUME OrderInv, PipeInv, BatchFacts, BufferFacts, PushResult, Q!PushEvict(TheResult), gi' = gi + 1
  PROVE  /\ OrderInv'
         /\ Lossy /\ UNCHANGED <<shown, drop_oldest, q_stopping>>
         /\ Head(q).stream \in Streams /\ Head(q).no \in Line[Head(q).stream]
         /\ Line' = [Line EXCEPT ![Head(q).stream] = @ \ {Head(q).no}]
<1>. DEFINE r == TheResult
<1>1. /\ UNCHANGED <<drop_oldest, q_stopping>> /\ q' = Append(Tail(q), r) /\ pusher' = "out"
      /\ drop_oldest /\ Q!Full
  BY DEF Q!PushEvict, Q!Leave
<1>2. /\ r \in Metas /\ r.stream = BatchMeta.stream /\ r.no = BatchMeta.no
      /\ gpu = "busy" /\ gi < allocated[taken] /\ BatchMeta.stream # None
      /\ UNCHANGED <<shown, decoded, ppc, filling, pending, allocated, held, slot, taken>>
      /\ \A c \in ReadySlots : StreamAt(meta', c) = StreamAt(meta, c) /\ NoAt(meta', c) = NoAt(meta, c)
  BY PushedFrame
<1>3. q \in Seq(Metas)
  BY DEF PipeInv, DataType
<1>4. q # <<>>
  <2>1. Capacity \in Nat \ {0} /\ Len(q) >= Capacity
    BY <1>1, PipelineAssumption DEF Q!Full
  <2>2. QED BY <1>3, <2>1
<1>. HIDE DEF r
<1>5. /\ QueueOrder(Tail(q), Unpushed, meta)
      /\ \A i \in DOMAIN Tail(q) : \E j \in DOMAIN q : Tail(q)[i] = q[j]
      /\ \A s, n : Flying(Tail(q), Unpushed, meta, s, n) <=>
                      Flying(q, Unpushed, meta, s, n) /\ ~(s = Head(q).stream /\ n = Head(q).no)
  <2>1. QueueOrder(q, Unpushed, meta)
    BY DEF OrderInv
  <2>2. QED BY <1>3, <1>4, <2>1, HeadLeaves
<1>6. /\ \A c \in Unpushed' : c \in Unpushed /\ StreamAt(meta', c) = StreamAt(meta, c) /\ NoAt(meta', c) = NoAt(meta, c)
      /\ \A c \in Unpushed' : StreamAt(meta, c) = r.stream => r.no < NoAt(meta, c)
      /\ \A i \in DOMAIN q : q[i].stream = r.stream => q[i].no < r.no
      /\ \A s \in Streams, n \in FrameNos :
           (\E c \in Unpushed : StreamAt(meta, c) = s /\ NoAt(meta, c) = n) <=>
              \/ \E c \in Unpushed' : StreamAt(meta', c) = s /\ NoAt(meta', c) = n
              \/ s = r.stream /\ n = r.no
  BY <1>2, NextFrame
<1>7. /\ \A i, j \in DOMAIN Tail(q) : i < j /\ Tail(q)[i].stream = Tail(q)[j].stream => Tail(q)[i].no < Tail(q)[j].no
      /\ \A i \in DOMAIN Tail(q), c \in Unpushed' :
           Tail(q)[i].stream = StreamAt(meta', c) => Tail(q)[i].no < NoAt(meta', c)
      /\ \A i \in DOMAIN Tail(q) : Tail(q)[i].stream = r.stream => Tail(q)[i].no < r.no
      /\ \A c \in Unpushed' : StreamAt(meta', c) = r.stream => r.no < NoAt(meta', c)
  <2>1. \A i, j \in DOMAIN Tail(q) : i < j /\ Tail(q)[i].stream = Tail(q)[j].stream => Tail(q)[i].no < Tail(q)[j].no
    BY <1>5 DEF QueueOrder
  <2>2. ASSUME NEW i \in DOMAIN Tail(q), NEW c \in Unpushed', Tail(q)[i].stream = StreamAt(meta', c)
        PROVE  Tail(q)[i].no < NoAt(meta', c)
    <3>1. c \in Unpushed /\ StreamAt(meta', c) = StreamAt(meta, c) /\ NoAt(meta', c) = NoAt(meta, c)
      BY <1>6, <2>2
    <3>2. QED BY <1>5, <2>2, <3>1 DEF QueueOrder
  <2>3. \A i \in DOMAIN Tail(q) : Tail(q)[i].stream = r.stream => Tail(q)[i].no < r.no
    BY <1>5, <1>6
  <2>4. \A c \in Unpushed' : StreamAt(meta', c) = r.stream => r.no < NoAt(meta', c)
    BY <1>6
  <2>5. QED BY <2>1, <2>2, <2>3, <2>4
<1>8. /\ QueueOrder(Append(Tail(q), r), Unpushed', meta')
      /\ \A s, n : Flying(Append(Tail(q), r), Unpushed', meta', s, n) <=>
                      Flying(Tail(q), Unpushed', meta', s, n) \/ (s = r.stream /\ n = r.no)
  <2>1. Tail(q) \in Seq(Metas)
    BY <1>3, <1>4
  <2>2. QED BY <1>2, <1>7, <2>1, OneQueued
<1>9. \A s \in Streams, n \in FrameNos :
        Flying(q', Unpushed', meta', s, n) <=> Flying(Tail(q), Unpushed, meta, s, n)
  BY <1>1, <1>6, <1>8 DEF Flying
<1>10. \A s \in Streams, n \in FrameNos :
         Flying(q', Unpushed', meta', s, n) <=>
            Flying(q, Unpushed, meta, s, n) /\ ~(s = Head(q).stream /\ n = Head(q).no)
  BY <1>5, <1>9
<1>11. OrderInv'
  <2>1. QueueOrder(q', Unpushed', meta')
    BY <1>1, <1>8
  <2>2. QED BY <1>1, <1>10, <2>1, PushedOrder
<1>12. Head(q).stream \in Streams /\ Head(q).no \in FrameNos /\ 1 \in DOMAIN q /\ Head(q) = q[1]
  <2>1. 1 \in DOMAIN q /\ Head(q) = q[1] /\ Head(q) \in Metas
    BY <1>3, <1>4
  <2>2. QED BY <2>1 DEF Metas
<1>13. Head(q).no \in Line[Head(q).stream]
  <2>1. Flying(q, Unpushed, meta, Head(q).stream, Head(q).no)
    BY <1>12 DEF Flying
  <2>2. QED BY <1>12, <2>1, LineFacts
<1>14. Line' = [Line EXCEPT ![Head(q).stream] = @ \ {Head(q).no}]
  BY <1>10, <1>12, LineLoses
<1>15. Lossy
  BY <1>1 DEF Lossy
<1>16. QED BY <1>1, <1>2, <1>11, <1>12, <1>13, <1>14, <1>15

\* Stop() throws the result away: it leaves its line.
LEMMA PushDiscardOrder ==
  ASSUME OrderInv, PipeInv, BatchFacts, BufferFacts, PushResult, Q!PushDiscard(TheResult), gi' = gi + 1
  PROVE  /\ OrderInv'
         /\ Lossy /\ UNCHANGED <<shown, drop_oldest, q_stopping>>
         /\ BatchMeta.stream \in Streams /\ BatchMeta.no \in Line[BatchMeta.stream]
         /\ Line' = [Line EXCEPT ![BatchMeta.stream] = @ \ {BatchMeta.no}]
<1>1. UNCHANGED <<q, drop_oldest, q_stopping>> /\ pusher' = "out" /\ q_stopping
  BY DEF Q!PushDiscard, Q!Leave
<1>2. /\ gpu = "busy" /\ gi < allocated[taken] /\ BatchMeta.stream # None /\ BatchMeta \in Metas
      /\ UNCHANGED <<shown, decoded, ppc, filling, pending, allocated, held, slot, taken>>
      /\ \A c \in ReadySlots : StreamAt(meta', c) = StreamAt(meta, c) /\ NoAt(meta', c) = NoAt(meta, c)
  BY PushedFrame
<1>3. /\ \A c \in Unpushed' : c \in Unpushed /\ StreamAt(meta', c) = StreamAt(meta, c) /\ NoAt(meta', c) = NoAt(meta, c)
      /\ \A c \in Unpushed' : StreamAt(meta, c) = BatchMeta.stream => BatchMeta.no < NoAt(meta, c)
      /\ \A i \in DOMAIN q : q[i].stream = BatchMeta.stream => q[i].no < BatchMeta.no
      /\ \A s \in Streams, n \in FrameNos :
           (\E c \in Unpushed : StreamAt(meta, c) = s /\ NoAt(meta, c) = n) <=>
              \/ \E c \in Unpushed' : StreamAt(meta', c) = s /\ NoAt(meta', c) = n
              \/ s = BatchMeta.stream /\ n = BatchMeta.no
  BY <1>2, NextFrame
<1>4. BatchMeta.stream \in Streams /\ BatchMeta.no \in FrameNos /\ BatchMeta.no \in Nat
  BY <1>2 DEF Metas, FrameNos
<1>5. QueueOrder(q', Unpushed', meta')
  <2>1. ASSUME NEW i \in DOMAIN q, NEW c \in Unpushed', q[i].stream = StreamAt(meta', c)
        PROVE  q[i].no < NoAt(meta', c)
    <3>1. c \in Unpushed /\ StreamAt(meta', c) = StreamAt(meta, c) /\ NoAt(meta', c) = NoAt(meta, c)
      BY <1>3, <2>1
    <3>2. QED BY <2>1, <3>1 DEF OrderInv, QueueOrder
  <2>2. QED BY <1>1, <2>1 DEF OrderInv, QueueOrder
<1>6. ~(\E c \in Unpushed' : StreamAt(meta', c) = BatchMeta.stream /\ NoAt(meta', c) = BatchMeta.no)
  <2>1. ~(BatchMeta.no < BatchMeta.no)
    BY <1>4
  <2>2. QED BY <1>3, <2>1
<1>7. ~(\E i \in DOMAIN q : q[i].stream = BatchMeta.stream /\ q[i].no = BatchMeta.no)
  <2>1. ~(BatchMeta.no < BatchMeta.no)
    BY <1>4
  <2>2. QED BY <1>3, <2>1
<1>8. \A s \in Streams, n \in FrameNos :
        Flying(q', Unpushed', meta', s, n) <=>
           Flying(q, Unpushed, meta, s, n) /\ ~(s = BatchMeta.stream /\ n = BatchMeta.no)
  BY <1>1, <1>3, <1>6, <1>7 DEF Flying
<1>9. OrderInv'
  BY <1>1, <1>5, <1>8, PushedOrder
<1>10. BatchMeta.no \in Line[BatchMeta.stream]
  <2>1. Flying(q, Unpushed, meta, BatchMeta.stream, BatchMeta.no)
    BY <1>3, <1>4 DEF Flying
  <2>2. QED BY <1>4, <2>1, LineFacts
<1>11. Line' = [Line EXCEPT ![BatchMeta.stream] = @ \ {BatchMeta.no}]
  BY <1>4, <1>8, LineLoses
<1>12. Lossy
  BY <1>1 DEF Lossy
<1>13. QED BY <1>1, <1>2, <1>4, <1>9, <1>10, <1>11, <1>12

\* Losing a frame of its line, when the pipeline is lossy, is a step of FrameDelivery.
LEMMA LosesFrame ==
  ASSUME Lossy, UNCHANGED <<shown, drop_oldest, q_stopping>>, NEW s \in Streams, NEW n \in Line[s],
         Line' = [Line EXCEPT ![s] = @ \ {n}]
  PROVE  Delivery!Next
<1>1. Delivery!Lose(s, n)
  BY DEF Delivery!Lose, Lossy
<1>2. QED BY <1>1 DEF Delivery!Next

\* Pushing a result keeps the order and is a step of FrameDelivery that loses a frame, or none.
LEMMA PushOrder ==
  ASSUME OrderInv, PipeInv, BatchFacts, BufferFacts, PushResult
  PROVE  OrderInv' /\ [Delivery!Next]_(Delivery!dvars)
<1>1. \/ Q!PushRoom(TheResult) /\ gi' = gi + 1
      \/ Q!PushWait(TheResult) /\ gi' = gi
      \/ Q!PushEvict(TheResult) /\ gi' = gi + 1
      \/ Q!PushDiscard(TheResult) /\ gi' = gi + 1
  BY DEF PushResult, TheResult
<1>2. CASE Q!PushRoom(TheResult) /\ gi' = gi + 1
  BY <1>2, PushRoomOrder DEF Delivery!dvars, Lossy
<1>3. CASE Q!PushWait(TheResult) /\ gi' = gi
  BY <1>3, PushWaitOrder DEF Delivery!dvars, Lossy
<1>4. CASE Q!PushEvict(TheResult) /\ gi' = gi + 1
  BY <1>4, PushEvictOrder, LosesFrame
<1>5. CASE Q!PushDiscard(TheResult) /\ gi' = gi + 1
  BY <1>5, PushDiscardOrder, LosesFrame
<1>6. QED BY <1>1, <1>2, <1>3, <1>4, <1>5

-----------------------------------------------------------------------------
(* Frame order: the consumer, and the theorem *)

\* The consumer is shown the oldest result, the first of its stream's line.
LEMMA ShowOrder ==
  ASSUME OrderInv, PipeInv, BatchFacts, BufferFacts, NEW c \in Pollers, Q!PollOk(c), ConsumerPoll(c),
         shown' = [shown EXCEPT ![Head(q).stream] = Head(q).no]
  PROVE  OrderInv' /\ Delivery!Next
<1>. DEFINE s == Head(q).stream
            n == Head(q).no
<1>1. /\ q # <<>> /\ q' = Tail(q) /\ UNCHANGED <<pushing, drop_oldest, q_stopping>>
      /\ pusher' # "out" => pusher # "out"
      /\ UNCHANGED <<meta, gi, decoded, ppc, filling, pending, allocated, held, slot, taken>>
  BY DEF ConsumerPoll, Q!PollOk, Q!WakePusher, batcherVars, producerVars
<1>2. /\ q \in Seq(Metas) /\ decoded \in [Streams -> Nat]
      /\ shown \in [Streams -> Nat]
      /\ QueueOrder(q, Unpushed, meta) /\ FlightNumbers(q, Unpushed, meta, shown, decoded, ppc)
  BY DEF PipeInv, DataType, OrderInv
<1>3. /\ QueueOrder(Tail(q), Unpushed, meta)
      /\ \A k : Flying(q, Unpushed, meta, s, k) => k = n \/ n < k
      /\ \A t, k : Flying(Tail(q), Unpushed, meta, t, k) <=> Flying(q, Unpushed, meta, t, k) /\ ~(t = s /\ k = n)
  <2>1. q \in Seq(Metas) /\ q # <<>> /\ QueueOrder(q, Unpushed, meta)
    BY <1>1, <1>2
  <2>2. QueueOrder(Tail(q), Unpushed, meta)
    BY <2>1, HeadLeaves
  <2>3. \A k : Flying(q, Unpushed, meta, s, k) => k = n \/ n < k
    BY <2>1, HeadLeaves
  <2>4. \A t, k : Flying(Tail(q), Unpushed, meta, t, k) <=> Flying(q, Unpushed, meta, t, k) /\ ~(t = s /\ k = n)
    BY <2>1, HeadLeaves
  <2>5. QED BY <2>2, <2>3, <2>4
<1>4. s \in Streams /\ n \in FrameNos /\ Flying(q, Unpushed, meta, s, n)
  <2>1. 1 \in DOMAIN q /\ Head(q) = q[1] /\ Head(q) \in Metas
    BY <1>1, <1>2
  <2>2. QED BY <2>1 DEF Metas, Flying
<1>5. n \in Nat /\ Unpushed' = Unpushed /\ BufOrder' = BufOrder
  BY <1>1, <1>4, SamePlaces, SameUnpushed, SameBuffersSameOrder DEF FrameNos
<1>6. /\ shown' \in [Streams -> Nat] /\ shown'[s] = n
      /\ \A t \in Streams : t # s => shown'[t] = shown[t]
  BY <1>2, <1>4, <1>5
<1>. HIDE DEF s, n
<1>7. \A t \in Streams, k \in FrameNos :
        Flying(q', Unpushed', meta', t, k) <=> Flying(q, Unpushed, meta, t, k) /\ ~(t = s /\ k = n)
  BY <1>1, <1>3, <1>5
<1>8. FlightNumbers(q', Unpushed', meta', shown', decoded', ppc')
  <2>1. ASSUME NEW t \in Streams
        PROVE  /\ shown'[t] <= decoded[t]
               /\ \A k \in FrameNos : Flying(q', Unpushed', meta', t, k) => shown'[t] < k /\ k <= decoded[t]
               /\ ppc[t] \in {"ring", "batch", "preprocess"} =>
                    /\ shown'[t] < decoded[t]
                    /\ \A k \in FrameNos : Flying(q', Unpushed', meta', t, k) => k < decoded[t]
    <3>1. /\ shown[t] <= decoded[t]
          /\ \A k \in FrameNos : Flying(q, Unpushed, meta, t, k) => shown[t] < k /\ k <= decoded[t]
          /\ ppc[t] \in {"ring", "batch", "preprocess"} =>
               shown[t] < decoded[t] /\ \A k \in FrameNos : Flying(q, Unpushed, meta, t, k) => k < decoded[t]
      BY <1>2 DEF FlightNumbers
    <3>2. CASE t # s
      BY <1>6, <1>7, <3>1, <3>2, Zenon
    <3>3. CASE t = s
      <4>1. \A k \in FrameNos : Flying(q', Unpushed', meta', t, k) => n < k
        BY <1>3, <1>7, <3>3
      <4>2. n <= decoded[t] /\ (ppc[t] \in {"ring", "batch", "preprocess"} => n < decoded[t])
        BY <1>4, <3>1, <3>3
      <4>3. QED BY <1>6, <1>7, <3>1, <3>3, <4>1, <4>2, Zenon
    <3>4. QED BY <3>2, <3>3
  <2>2. QED BY <1>1, <2>1 DEF FlightNumbers
<1>9. OrderInv'
  <2>1. BatchOrder(Unpushed', meta', BufOrder') /\ ClaimsLast(Unpushed', meta', BufOrder', held', slot')
    BY <1>1, <1>5 DEF OrderInv
  <2>2. QueueOrder(q', Unpushed', meta')
    BY <1>1, <1>3, <1>5
  <2>3. pusher' # "out" => pushing'.stream = BatchMeta'.stream /\ pushing'.no = BatchMeta'.no
    BY <1>1 DEF BatchMeta, OrderInv
  <2>4. QED BY <1>6, <1>8, <2>1, <2>2, <2>3 DEF OrderInv
<1>10. Delivery!Show(s, n) /\ n \in Line[s]
  <2>1. \A m \in Line[s] : n <= m
    <3>1. \A m \in Line[s] : m = n \/ n < m
      BY <1>3, <1>4, LineFacts
    <3>2. \A m \in Line[s] : m \in Nat
      BY <1>4, LineFacts DEF FrameNos
    <3>3. QED BY <1>5, <3>1, <3>2
  <2>2. Line' = [Line EXCEPT ![s] = @ \ {n}]
    BY <1>4, <1>7, LineLoses
  <2>3. n \in Line[s]
    BY <1>4, LineFacts
  <2>4. shown' = [shown EXCEPT ![s] = n]
    BY DEF s, n
  <2>5. QED BY <1>1, <2>1, <2>2, <2>3, <2>4 DEF Delivery!Show, Lossy
<1>11. QED BY <1>4, <1>9, <1>10 DEF Delivery!Next

\* A poll shows the first frame of a line, or none.
LEMMA ConsumerOrder ==
  ASSUME OrderInv, PipeInv, BatchFacts, BufferFacts, NEW c \in Pollers, ConsumerPoll(c)
  PROVE  OrderInv' /\ [Delivery!Next]_(Delivery!dvars)
<1>1. CASE Q!PollOk(c) /\ shown' = [shown EXCEPT ![Head(q).stream] = Head(q).no]
  BY <1>1, ShowOrder
<1>2. CASE (Q!PollFinished(c) \/ Q!PollWait(c)) /\ UNCHANGED consumerVars
  <2>1. /\ UNCHANGED <<meta, q, pushing, gi, shown, decoded, ppc, filling, pending, allocated, held, slot, taken>>
        /\ UNCHANGED <<pusher, drop_oldest, q_stopping>>
    BY <1>2 DEF ConsumerPoll, Q!PollFinished, Q!PollWait, Q!PollMoves, batcherVars, producerVars, consumerVars
  <2>2. OrderInv' /\ Line' = Line
    BY <2>1, QuietOrder
  <2>3. QED BY <2>1, <2>2 DEF Delivery!dvars, Lossy
<1>3. QED BY <1>1, <1>2 DEF ConsumerPoll

\* Nothing is in flight at first.
LEMMA OrderInit == Init => OrderInv /\ Delivery!Init
<1>. SUFFICES ASSUME Init PROVE OrderInv /\ Delivery!Init
  OBVIOUS
<1>1. /\ q = <<>> /\ pusher = "out" /\ drop_oldest \in Modes /\ q_stopping = FALSE
      /\ shown = [s \in Streams |-> 0] /\ decoded = [s \in Streams |-> 0] /\ ppc = [s \in Streams |-> "loop"]
      /\ held = [s \in Streams |-> None] /\ allocated = [b \in Bufs |-> 0]
  BY DEF Init, B!Init, Q!Init
<1>2. Unpushed = {}
  <2>1. \A c \in ReadySlots : FALSE
    <3>1. ASSUME NEW c \in ReadySlots PROVE FALSE
      <4>1. c[2] \in Nat /\ c[1] \in Bufs /\ c[2] < allocated[c[1]]
        BY DEF ReadySlots
      <4>2. QED BY <1>1, <4>1
    <3>2. QED BY <3>1
  <2>2. QED BY <2>1 DEF Unpushed
<1>3. \A s, n : ~Flying(q, Unpushed, meta, s, n)
  BY <1>1, <1>2 DEF Flying
<1>4. OrderInv
  <2>1. QueueOrder(q, Unpushed, meta) /\ BatchOrder(Unpushed, meta, BufOrder)
    BY <1>1, <1>2 DEF QueueOrder, BatchOrder
  <2>2. ClaimsLast(Unpushed, meta, BufOrder, held, slot)
    BY <1>1 DEF ClaimsLast
  <2>3. FlightNumbers(q, Unpushed, meta, shown, decoded, ppc)
    BY <1>1, <1>3 DEF FlightNumbers
  <2>4. shown \in [Streams -> Nat]
    BY <1>1
  <2>5. QED BY <1>1, <2>1, <2>2, <2>3, <2>4 DEF OrderInv
<1>5. Delivery!Init
  <2>1. \A s \in Streams : Line[s] = {}
    BY <1>3, LineFacts
  <2>2. Line = [s \in Streams |-> Line[s]]
    BY DEF Line
  <2>3. Line = [s \in Streams |-> {}]
    BY <2>1, <2>2
  <2>4. Lossy \in BOOLEAN
    BY <1>1, PipelineAssumption DEF Lossy
  <2>5. QED BY <1>1, <2>3, <2>4 DEF Delivery!Init
<1>6. QED BY <1>4, <1>5

\* Every step keeps the order and is a step of FrameDelivery or leaves its state alone.
LEMMA OrderStep ==
  ASSUME OrderInv, PipeInv, BatchFacts, BufferFacts, [Next]_vars
  PROVE  OrderInv' /\ [Delivery!Next]_(Delivery!dvars)
<1>1. ASSUME NEW s \in Streams, ProducerStep(s) PROVE OrderInv' /\ [Delivery!Next]_(Delivery!dvars)
  <2>1. CASE \/ Decode(s) \/ EnsureRing(s) \/ AcquireRing(s) \/ AcquireBatch(s) \/ GiveUpRingSlot(s)
             \/ LeaveLoop(s)
    BY <2>1, ProducerOrder DEF Delivery!dvars, Lossy
  <2>2. CASE Preprocess(s)
    BY <2>2, PreprocessOrder DEF Delivery!Next
  <2>3. CASE PreprocessThrows(s)
    BY <2>3, ThrowsOrder DEF Delivery!dvars, Lossy
  <2>4. QED BY <1>1, <2>1, <2>2, <2>3 DEF ProducerStep
<1>2. CASE Take \/ SkipAbandoned \/ ReleaseRing \/ RecycleBatch
  <2>1. OrderInv' /\ Line' = Line /\ UNCHANGED <<shown, drop_oldest, q_stopping>>
    BY <1>2, TakeOrder, SkipOrder, ReleaseOrder, RecycleOrder
  <2>2. QED BY <2>1 DEF Delivery!dvars, Lossy
<1>3. CASE PushResult
  BY <1>3, PushOrder
<1>4. ASSUME NEW c \in Pollers, ConsumerPoll(c) PROVE OrderInv' /\ [Delivery!Next]_(Delivery!dvars)
  BY <1>4, ConsumerOrder
<1>5. CASE FinishRun \/ StopCalled \/ StopStep \/ (\E r \in kept : ReleaseFrame(r)) \/ UNCHANGED vars
  <2>1. /\ OrderInv' /\ Line' = Line /\ UNCHANGED <<shown, drop_oldest>>
        /\ q_stopping' = q_stopping \/ q_stopping' = TRUE
    BY <1>5, OtherStepsOrder
  <2>2. CASE Lossy' = Lossy
    BY <2>1, <2>2 DEF Delivery!dvars
  <2>3. CASE Lossy' # Lossy
    <3>1. ~Lossy /\ Lossy' = TRUE
      BY <2>1, <2>3 DEF Lossy
    <3>2. Delivery!BecomeLossy
      BY <2>1, <3>1 DEF Delivery!BecomeLossy
    <3>3. QED BY <2>1, <3>2 DEF Delivery!Next
  <2>4. QED BY <2>2, <2>3
<1>6. QED BY <1>1, <1>2, <1>3, <1>4, <1>5 DEF Next, GpuStep, ConsumerStep

\* The order invariant holds.
LEMMA OrderInvariant == Spec => []OrderInv
<1>1. QED BY OrderInit, OrderStep, PipeInvariant, BatchInvariant, BufferInvariant, PTL DEF Spec

\* The data plane implements FrameDelivery: results reach the consumer in frame order, per
\* stream, each at most once; in Block mode and before Stop() none is lost.
THEOREM InOrder == Spec => DeliversInOrder
<1>1. Init => Delivery!Init
  BY OrderInit
<1>2. OrderInv /\ PipeInv /\ BatchFacts /\ BufferFacts /\ [Next]_vars => [Delivery!Next]_(Delivery!dvars)
  BY OrderStep
<1>3. QED BY <1>1, <1>2, OrderInvariant, PipeInvariant, BatchInvariant, BufferInvariant, PTL
          DEF Spec, DeliversInOrder, Delivery!Spec
=============================================================================
