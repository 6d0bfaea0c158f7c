-------------------------- MODULE PyPipelineProofs --------------------------
(***************************************************************************)
(* Proofs about PyPipeline for any number of iterating threads, cameras    *)
(* and frames.  It implements the ResultQueue, which carries the queue's   *)
(* theorems over to Python.  The order of deliveries rests on OrderInv:    *)
(* everything queued is newer than everything shown, and a Push in         *)
(* progress newer than everything queued.  The safety of fetch_frame rests *)
(* on RefInv: who may touch the object holds a reference, and the object   *)
(* is freed without one only.                                              *)
(***************************************************************************)
EXTENDS PyPipeline, ResultQueueProofs

USE ThreadsAssumption, FramesAssumption, MaxLogsAssumption

Frames == [stream : Streams, no : Nat]

\* The places of a thread in which it holds a reference.
Holding == {"armed", "new", "starting", "started", "next", "polling", "ok", "late",
            "over", "body", "left", "fetching", "borrowing", "stopping", "stopped"}

Places == Holding \cup {"kept", "done", "deleting", "destroying"}

RefInv ==
  /\ at \in [Threads -> Places]
  /\ refs \subseteq Threads
  /\ collector \in Threads \cup {Nobody}
  /\ \A t \in Threads : at[t] \in Holding => t \in refs
  /\ \A t \in Threads : at[t] = "deleting" => object = "deleting"
  /\ \A t, u \in Threads : at[t] = "deleting" /\ at[u] = "deleting" => t = u
  /\ \A t \in Threads : at[t] = "destroying" => object = "destroying" /\ collector = t
  /\ object = "destroying" => collector # Nobody
  /\ object \in {"destroying", "gone"} => refs = {}

-----------------------------------------------------------------------------
(* References *)

\* At the start every thread that can hold a reference is counted.
LEMMA RefInit == PyInit => RefInv
  BY DEF PyInit, RefInv, Holding, Places, Threads

\* A step that moves one thread between two places with a reference.
LEMMA MoveKeepsRefs ==
  ASSUME RefInv, NEW t \in Threads, at[t] \in Holding, NEW place \in Holding,
         GoTo(t, place), UNCHANGED <<refs, object, collector>>
  PROVE  RefInv'
  BY DEF RefInv, GoTo, Holding, Places

\* Dropping a reference, by a thread that holds one.
LEMMA DropKeepsRefs ==
  ASSUME RefInv, NEW t \in Threads, at[t] \in Holding, NEW place \in {"kept", "done"},
         Drops(t, place)
  PROVE  RefInv'
<1>1. t \in refs /\ object \notin {"destroying", "gone"}
  BY DEF RefInv
<1>2. CASE refs = {t} /\ object = "finalized"
  <2>1. refs' = {} /\ object' = "destroying" /\ collector' = t /\ GoTo(t, "destroying")
    BY <1>2 DEF Drops, LastRefDeletes, Frees
  <2>2. \A u \in Threads : at[u] \in Holding => u = t
    BY <1>2 DEF RefInv
  <2>. QED BY <1>2, <2>1, <2>2 DEF RefInv, GoTo, Holding, Places, Threads
<1>3. CASE refs = {t} /\ object \notin {"deleting", "finalized"}
  <2>1. refs' = {} /\ object' = "deleting" /\ collector' = collector /\ GoTo(t, "deleting")
    BY <1>3 DEF Drops, LastRefDeletes
  <2>2. \A u \in Threads : at[u] \in Holding => u = t
    BY <1>3 DEF RefInv
  <2>. QED BY <1>1, <1>3, <2>1, <2>2 DEF RefInv, GoTo, Holding, Places
<1>4. CASE refs # {t} \/ object = "deleting"
  <2>1. refs' = refs \ {t} /\ object' = object /\ collector' = collector /\ GoTo(t, place)
    BY <1>4 DEF Drops
  <2>. QED BY <1>1, <2>1 DEF RefInv, GoTo, Holding, Places
<1>. QED BY <1>2, <1>3, <1>4

\* A poller's step, or a fetch of a kept frame, keeps the references counted.
LEMMA PollerKeepsRefs ==
  ASSUME RefInv, NEW t \in Pollers, PollerStep(t) \/ FetchKept(t)
  PROVE  RefInv'
<1>. t \in Threads
  BY DEF Threads
<1>1. CASE Iter(t) \/ ExplicitStart(t) \/ NextCalled(t) \/ Again(t) \/ StopIteration(t)
           \/ LoopsAgain(t) \/ Breaks(t) \/ FetchInLoop(t) \/ FetchInLoopDone(t)
  <2>1. PICK place \in Holding : Moves(t, place)
    BY <1>1 DEF Iter, ExplicitStart, NextCalled, Again, StopIteration, LoopsAgain, Breaks,
                FetchInLoop, FetchInLoopDone, Holding
  <2>2. at[t] \in Holding
    BY <1>1 DEF Iter, ExplicitStart, NextCalled, Again, StopIteration, LoopsAgain, Breaks,
                FetchInLoop, FetchInLoopDone, Runs, Holding
  <2>. QED BY <2>1, <2>2, MoveKeepsRefs DEF Moves
<1>2. CASE StartCpp(t) \/ Started(t) \/ Shown(t)
  <2>1. at[t] \in Holding
    BY <1>2 DEF StartCpp, Started, Shown, Runs, Holding
  <2>2. \E place \in Holding : GoTo(t, place)
    BY <1>2 DEF StartCpp, Started, Shown, Holding
  <2>3. UNCHANGED <<refs, object, collector>>
    BY <1>2 DEF StartCpp, Started, Shown
  <2>. QED BY <2>1, <2>2, <2>3, MoveKeepsRefs
<1>3. CASE PollCalled(t) \/ TimesOut(t)
  <2>1. at[t] \in Holding /\ UNCHANGED <<refs, object, collector>>
    BY <1>3 DEF PollCalled, TimesOut, Holding, clientVars
  <2>2. (\E place \in Holding : GoTo(t, place)) \/ UNCHANGED at
    BY <1>3 DEF PollCalled, TimesOut, Holding, clientVars
  <2>3. CASE UNCHANGED at
    BY <2>1, <2>3 DEF RefInv
  <2>. QED BY <2>1, <2>2, <2>3, MoveKeepsRefs
<1>4. CASE FetchKept(t)
  <2>1. collector = Nobody /\ at[t] = "kept" /\ UNCHANGED <<object, collector>>
    BY <1>4 DEF FetchKept, Runs
  <2>2. CASE object = "gone"
    <3>1. GoTo(t, "done") /\ refs' = refs
      BY <1>4, <2>2 DEF FetchKept
    <3>. QED BY <2>1, <3>1 DEF RefInv, GoTo, Holding, Places
  <2>3. CASE object # "gone"
    <3>1. GoTo(t, "borrowing") /\ refs' = refs \cup {t}
      BY <1>4, <2>3 DEF FetchKept, Borrows
    <3>2. object \notin {"destroying", "gone"}
      BY <2>1, <2>3 DEF RefInv
    <3>. QED BY <2>1, <3>1, <3>2 DEF RefInv, GoTo, Holding, Places
  <2>. QED BY <2>2, <2>3
<1>5. CASE FetchKeptDone(t)
  BY <1>5, DropKeepsRefs DEF FetchKeptDone, Runs, Holding
<1>. QED BY <1>1, <1>2, <1>3, <1>4, <1>5 DEF PollerStep

\* So does a step that the pollers and the timer share.
LEMMA EitherKeepsRefs ==
  ASSUME RefInv, NEW t \in Threads, EitherStep(t)
  PROVE  RefInv'
<1>1. Rest(t) \in {"kept", "done"}
  BY DEF Rest
<1>2. CASE DropPipe(t)
  BY <1>1, <1>2, DropKeepsRefs DEF DropPipe, Holding
<1>3. CASE ExitStops(t)
  BY <1>3, MoveKeepsRefs DEF ExitStops, Runs, Moves, Holding
<1>4. CASE StopReturns(t)
  BY <1>4, MoveKeepsRefs DEF StopReturns, Runs, Moves, Holding
<1>5. CASE StopCalled(t)
  BY <1>5 DEF StopCalled, clientVars, RefInv
<1>6. CASE DelReturns(t)
  <2>1. at[t] = "deleting" /\ object = "deleting" /\ refs' = refs
    BY <1>6 DEF DelReturns, Runs, RefInv
  <2>2. CASE refs = {}
    <3>1. object' = "destroying" /\ collector' = t /\ GoTo(t, "destroying")
      BY <1>6, <2>2 DEF DelReturns, Frees
    <3>. QED BY <2>1, <2>2, <3>1 DEF RefInv, GoTo, Holding, Places, Threads
  <2>3. CASE refs # {}
    <3>1. object' = "finalized" /\ collector' = collector /\ GoTo(t, Rest(t))
      BY <1>6, <2>3 DEF DelReturns
    <3>. QED BY <1>1, <2>1, <3>1 DEF RefInv, GoTo, Holding, Places
  <2>. QED BY <2>2, <2>3
<1>7. CASE Destroyed(t)
  <2>1. /\ at[t] = "destroying" /\ object = "destroying" /\ refs = {} /\ refs' = refs
        /\ object' = "gone" /\ collector' = Nobody /\ GoTo(t, Rest(t))
    BY <1>7 DEF Destroyed, RefInv
  <2>. QED BY <1>1, <2>1 DEF RefInv, GoTo, Holding, Places
<1>. QED BY <1>2, <1>3, <1>4, <1>5, <1>6, <1>7 DEF EitherStep

\* So does every step.
LEMMA RefStep == RefInv /\ [PyNext]_pyVars => RefInv'
<1>. SUFFICES ASSUME RefInv, [PyNext]_pyVars PROVE RefInv'
  OBVIOUS
<1>1. CASE UNCHANGED pyVars \/ GpuStep \/ GpuWokenSpuriously \/ RingStep
  <2>1. UNCHANGED <<at, refs, object, collector>>
    BY <1>1 DEF pyVars, clientVars, GpuStep, GpuPushes, GpuEnds, GpuLogs, LogCallback,
                GpuWokenSpuriously, RingStep, ProducerSleeps, ProducerWakes
  <2>. QED BY <2>1 DEF RefInv
<1>2. CASE TimerFires \/ TimerCancelled
  BY <1>2, MoveKeepsRefs DEF TimerFires, TimerCancelled, Runs, Moves, Holding, Threads
<1>. QED BY <1>1, <1>2, PollerKeepsRefs, EitherKeepsRefs DEF PyNext

\* However many threads iterate, fetch and drop the pipeline: no copy of a frame is
\* made from a pipeline that is being destroyed.
THEOREM FetchIsSafe == PySpec => []FetchReadsLiveRing
<1>1. RefInv => FetchReadsLiveRing
  BY DEF RefInv, FetchReadsLiveRing, Holding, Threads
<1>. QED BY RefInit, RefStep, <1>1, PTL DEF PySpec

-----------------------------------------------------------------------------
(* The queue below *)

\* What makes every result the GPU thread pushes one of Results.
SentInv ==
  /\ pushes \in Nat
  /\ sent \in [Streams -> Nat]
  /\ \A s \in Streams : sent[s] <= pushes
  /\ pusher # "out" => pushing \in Results

\* A Push counts itself once and leaves either nothing or its result behind.
LEMMA PushCounts ==
  ASSUME NEW x \in Results, Push(x)
  PROVE  /\ pushes' = IF pusher = "out" THEN pushes + 1 ELSE pushes
         /\ pusher' # "out" => pushing' \in Results
         /\ pusher = "out" => pushes < MaxPushes
  BY DEF Push, PushDiscard, PushRoom, PushEvict, PushWait, CountPush, Leave, InPush

\* The GPU thread's push is the queue's Push.
LEMMA GpuPushesQueue ==
  ASSUME SentInv, GpuPushes
  PROVE  (\E x \in Results : Push(x)) /\ SentInv'
<1>1. CASE pusher = "woken"
  <2>1. pushing \in Results /\ Push(pushing) /\ sent' = sent
    BY <1>1 DEF GpuPushes, SentInv
  <2>. QED BY <1>1, <2>1, PushCounts DEF SentInv
<1>2. CASE pusher # "woken"
  <2>1. pusher = "out"
    BY <1>2 DEF GpuPushes
  <2>2. PICK s \in Streams : /\ sent' = [sent EXCEPT ![s] = @ + 1]
                             /\ Push([stream |-> s, no |-> sent[s] + 1])
    BY <1>2 DEF GpuPushes
  <2>3. pushes < MaxPushes
    BY <2>1, <2>2 DEF Push, PushDiscard, PushRoom, PushEvict, PushWait, InPush
  <2>4. sent[s] + 1 \in 1..MaxPushes
    BY <2>3, MaxPushesAssumption DEF SentInv
  <2>5. [stream |-> s, no |-> sent[s] + 1] \in Results
    BY <2>4
  <2>6. pushes' = pushes + 1 /\ (pusher' # "out" => pushing' \in Results)
    BY <2>1, <2>2, <2>5, PushCounts
  <2>. QED BY <2>2, <2>5, <2>6 DEF SentInv
<1>. QED BY <1>1, <1>2

\* A step of the client is a step of the queue or leaves it alone.
LEMMA QueueStep ==
  ASSUME SentInv, [PyNext]_pyVars
  PROVE  [Next]_qvars /\ SentInv'
<1>1. CASE GpuPushes
  BY <1>1, GpuPushesQueue DEF Next, PusherStep
<1>2. CASE GpuEnds
  BY <1>2 DEF GpuEnds, MarkFinished, Next, PusherStep, SentInv
<1>3. CASE GpuWokenSpuriously
  BY <1>3 DEF GpuWokenSpuriously, SpuriousPusher, WakePusher, Next, SentInv, coreVars
<1>4. ASSUME NEW t \in Threads, StopCalled(t)
      PROVE  [Next]_qvars /\ SentInv'
  BY <1>4 DEF StopCalled, QueueStop, WakePusher, Next, SentInv, coreVars
<1>5. ASSUME NEW t \in Pollers, PollCalled(t) \/ TimesOut(t)
      PROVE  [Next]_qvars /\ SentInv'
  <2>1. (PollStep(t) \/ Expire(t)) /\ UNCHANGED <<sent, pushes, pushing>>
          /\ (pusher = "out" => pusher' = "out")
    BY <1>5 DEF PollCalled, TimesOut, PollStep, PollOk, PollFinished, PollTimeout, PollWait,
                PollMoves, Expire, WakePusher, coreVars
  <2>. QED BY <2>1 DEF Next, SentInv
<1>6. ASSUME UNCHANGED <<qvars, sent>> PROVE [Next]_qvars /\ SentInv'
  BY <1>6 DEF SentInv, qvars
<1>7. ASSUME NEW t \in Pollers, PollerStep(t) \/ FetchKept(t), ~PollCalled(t), ~TimesOut(t)
      PROVE  UNCHANGED <<qvars, sent>>
  BY <1>7 DEF PollerStep, Iter, ExplicitStart, StartCpp, Started, NextCalled, Again,
              StopIteration, Shown, LoopsAgain, Breaks, FetchInLoop, FetchInLoopDone,
              FetchKept, FetchKeptDone, Moves, coreVars
<1>8. ASSUME NEW t \in Threads, EitherStep(t), ~StopCalled(t)
      PROVE  UNCHANGED <<qvars, sent>>
  BY <1>8 DEF EitherStep, DropPipe, ExitStops, StopReturns, DelReturns, Destroyed, Moves,
              coreVars
<1>9. CASE TimerFires \/ TimerCancelled \/ GpuLogs \/ LogCallback \/ RingStep
           \/ UNCHANGED pyVars
  <2>1. UNCHANGED <<qvars, sent>>
    BY <1>9 DEF TimerFires, TimerCancelled, GpuLogs, LogCallback, RingStep, ProducerSleeps,
                ProducerWakes, Moves, coreVars, pyVars
  <2>. QED BY <2>1, <1>6
<1>. QED BY <1>1, <1>2, <1>3, <1>4, <1>5, <1>6, <1>7, <1>8, <1>9 DEF PyNext, GpuStep

\* The queue starts empty, with nothing being pushed.
LEMMA QueueStart == PyInit => Init /\ SentInv
  BY DEF PyInit, Init, SentInv

\* The Python object with all its threads implements the ResultQueue: every history
\* of PyPipeline, seen on the queue's variables, is one of ResultQueue.
THEOREM PyImplementsQueue == PySpec => Spec
<1>1. SentInv /\ [PyNext]_pyVars => [Next]_qvars /\ SentInv'
  BY QueueStep
<1>. QED BY QueueStart, <1>1, PTL DEF PySpec, Spec

\* So nothing vanishes between the GPU thread and the loops in Python,
THEOREM PyLosesNothing == PySpec => []NothingVanishes
  BY PyImplementsQueue, QueueLosesNothing, PTL

\* and a StopIteration in one thread is final for all.
THEOREM PyFinishedStaysFinal == PySpec => FinishedIsFinal
  BY PyImplementsQueue, FinishedStaysFinal, PTL

-----------------------------------------------------------------------------
(* The order of deliveries *)

\* Nothing of stream s that is still to come is as old as n.
Newer(s, n) ==
  /\ \A i \in 1..Len(q) : q[i].stream = s => q[i].no > n
  /\ pusher # "out" /\ pushing.stream = s => pushing.no > n
  /\ n <= sent[s]

OrderInv ==
  /\ q \in Seq(Frames)
  /\ sent \in [Streams -> Nat]
  /\ newest \in [Pollers -> [Streams -> Nat]]
  /\ DOMAIN r = Threads /\ DOMAIN at = Threads
  /\ \A i, j \in 1..Len(q) : i < j /\ q[i].stream = q[j].stream => q[i].no < q[j].no
  /\ \A i \in 1..Len(q) : q[i].no <= sent[q[i].stream]
  /\ pusher # "out" =>
       /\ pushing \in Frames /\ pushing.no <= sent[pushing.stream]
       /\ \A i \in 1..Len(q) : q[i].stream = pushing.stream => q[i].no < pushing.no
  /\ \A t \in Pollers, s \in Streams : Newer(s, newest[t][s])
  /\ \A t \in Pollers : at[t] = "ok" =>
       r[t] \in Frames /\ r[t].no > newest[t][r[t].stream] /\ Newer(r[t].stream, r[t].no)

\* At the start nothing has been numbered.
LEMMA OrderInit == PyInit => OrderInv
<1>. SUFFICES ASSUME PyInit PROVE OrderInv
  OBVIOUS
<1>1. q = <<>> /\ q \in Seq(Frames) /\ Len(q) = 0 /\ pusher = "out"
  BY DEF PyInit, Init
<1>2. sent = [s \in Streams |-> 0] /\ newest = [t \in Pollers |-> [s \in Streams |-> 0]]
  BY DEF PyInit
<1>3. DOMAIN r = Threads /\ DOMAIN at = Threads /\ \A t \in Pollers : at[t] # "ok"
  BY DEF PyInit, Threads
<1>4. \A t \in Pollers, s \in Streams : Newer(s, newest[t][s])
  BY <1>1, <1>2 DEF Newer
<1>. QED BY <1>1, <1>2, <1>3, <1>4 DEF OrderInv

\* The queue after a Push of x: its entries are x or were there, in the same order,
\* x last.
LEMMA PushShape ==
  ASSUME NEW x \in Frames, q \in Seq(Frames), Push(x)
  PROVE  /\ q' \in Seq(Frames)
         /\ \A i \in 1..Len(q') : q'[i] = x \/ \E k \in 1..Len(q) : q'[i] = q[k]
         /\ \A i, j \in 1..Len(q') : i < j =>
              \E k \in 1..Len(q) :
                /\ q'[i] = q[k]
                /\ q'[j] = x \/ \E l \in 1..Len(q) : k < l /\ q'[j] = q[l]
         /\ pusher \in {"out", "woken"}
         /\ \/ pusher' = "out"
            \/ pusher' = "asleep" /\ pushing' = x /\ q' = q
<1>1. CASE PushDiscard(x) \/ PushWait(x)
  BY <1>1 DEF PushDiscard, PushWait, Leave, InPush
<1>2. CASE PushRoom(x)
  <2>1. q' = Append(q, x)
    BY <1>2 DEF PushRoom
  <2>2. /\ q' \in Seq(Frames) /\ Len(q') = Len(q) + 1 /\ q'[Len(q) + 1] = x
        /\ \A i \in 1..Len(q) : q'[i] = q[i]
    BY <2>1
  <2>3. \A i \in 1..Len(q') : i \in 1..Len(q) \/ i = Len(q) + 1
    BY <2>2
  <2>4. pusher \in {"out", "woken"} /\ pusher' = "out"
    BY <1>2 DEF PushRoom, Leave, InPush
  <2>5. \A i \in 1..Len(q') : q'[i] = x \/ \E k \in 1..Len(q) : q'[i] = q[k]
    BY <2>2, <2>3
  <2>6. ASSUME NEW i \in 1..Len(q'), NEW j \in 1..Len(q'), i < j
        PROVE  \E k \in 1..Len(q) :
                 /\ q'[i] = q[k]
                 /\ q'[j] = x \/ \E l \in 1..Len(q) : k < l /\ q'[j] = q[l]
    <3>1. i \in 1..Len(q) /\ q'[i] = q[i]
      BY <2>2, <2>6
    <3>2. CASE j = Len(q) + 1
      BY <2>2, <3>1, <3>2
    <3>3. CASE j \in 1..Len(q)
      BY <2>2, <2>6, <3>1, <3>3
    <3>. QED BY <2>3, <3>2, <3>3
  <2>. QED BY <2>2, <2>4, <2>5, <2>6
<1>3. CASE PushEvict(x)
  <2>1. q' = Append(Tail(q), x) /\ q # <<>>
    BY <1>3, CapacityAssumption DEF PushEvict, Full
  <2>2. /\ Tail(q) \in Seq(Frames) /\ Len(Tail(q)) = Len(q) - 1 /\ Len(q) \in Nat \ {0}
        /\ \A i \in 1..(Len(q) - 1) : Tail(q)[i] = q[i + 1]
    BY <2>1
  <2>3. /\ q' \in Seq(Frames) /\ Len(q') = Len(q) /\ q'[Len(q)] = x
        /\ \A i \in 1..(Len(q) - 1) : q'[i] = q[i + 1] /\ i + 1 \in 1..Len(q)
    BY <2>1, <2>2
  <2>4. \A i \in 1..Len(q') : i \in 1..(Len(q) - 1) \/ i = Len(q)
    <3>1. \A n \in Nat \ {0} : \A i \in 1..n : i \in 1..(n - 1) \/ i = n
      OBVIOUS
    <3>2. Len(q') = Len(q) /\ Len(q) \in Nat \ {0}
      BY <2>2, <2>3
    <3>. QED BY <3>1, <3>2
  <2>5. \A i, j \in 1..Len(q') : i < j =>
          \E k \in 1..Len(q) :
            /\ q'[i] = q[k]
            /\ q'[j] = x \/ \E l \in 1..Len(q) : k < l /\ q'[j] = q[l]
    <3>1. SUFFICES ASSUME NEW i \in 1..Len(q'), NEW j \in 1..Len(q'), i < j
                   PROVE  \E k \in 1..Len(q) :
                            /\ q'[i] = q[k]
                            /\ q'[j] = x \/ \E l \in 1..Len(q) : k < l /\ q'[j] = q[l]
      OBVIOUS
    <3>2. i \in 1..(Len(q) - 1) /\ q'[i] = q[i + 1] /\ i + 1 \in 1..Len(q)
      <4>1. i # Len(q)
        <5>1. Len(q') = Len(q) /\ Len(q) \in Nat
          BY <2>2, <2>3
        <5>. QED BY <3>1, <5>1
      <4>2. i \in 1..(Len(q) - 1)
        BY <2>4, <4>1
      <4>. QED BY <2>3, <4>2
    <3>3. CASE j = Len(q)
      BY <2>3, <3>2, <3>3
    <3>4. CASE j \in 1..(Len(q) - 1)
      <4>1. q'[j] = q[j + 1] /\ j + 1 \in 1..Len(q) /\ i + 1 < j + 1
        BY <2>3, <3>1, <3>4
      <4>. QED BY <3>2, <4>1
    <3>. QED BY <2>3, <2>4, <3>3, <3>4
  <2>. QED BY <1>3, <2>3, <2>4, <2>5, ZenonT(60) DEF PushEvict, Leave, InPush
<1>. QED BY <1>1, <1>2, <1>3 DEF Push

\* What GpuPushes pushes: the newest frame of its stream.
LEMMA PushesNewest ==
  ASSUME OrderInv, GpuPushes
  PROVE  \E x \in Frames :
           /\ Push(x)
           /\ sent' \in [Streams -> Nat]
           /\ \A s \in Streams : sent[s] <= sent'[s]
           /\ x.no <= sent'[x.stream]
           /\ \A i \in 1..Len(q) : q[i].stream = x.stream => q[i].no < x.no
           /\ \A n \in Nat : Newer(x.stream, n) => n < x.no
<1>1. CASE pusher = "woken"
  <2>1. Push(pushing) /\ sent' = sent /\ pushing \in Frames
    BY <1>1 DEF GpuPushes, OrderInv
  <2>2. \A n \in Nat : Newer(pushing.stream, n) => n < pushing.no
    BY <1>1, <2>1 DEF Newer, Frames
  <2>3. \A s \in Streams : sent[s] <= sent'[s]
    BY <2>1 DEF OrderInv
  <2>. QED BY <1>1, <2>1, <2>2, <2>3 DEF OrderInv
<1>2. CASE pusher # "woken"
  <2>1. PICK s \in Streams : /\ sent' = [sent EXCEPT ![s] = @ + 1]
                             /\ Push([stream |-> s, no |-> sent[s] + 1])
    BY <1>2 DEF GpuPushes
  <2>2. sent[s] \in Nat
    BY DEF OrderInv
  <2> DEFINE x == [stream |-> s, no |-> sent[s] + 1]
  <2>3. x \in Frames /\ x.stream = s /\ x.no = sent[s] + 1
    BY <2>2 DEF Frames
  <2>4. /\ sent' \in [Streams -> Nat] /\ sent'[s] = sent[s] + 1
        /\ \A u \in Streams : sent[u] <= sent'[u]
    BY <2>1 DEF OrderInv
  <2>5. \A i \in 1..Len(q) : q[i].stream = s => q[i].no < sent[s] + 1
    <3>1. SUFFICES ASSUME NEW i \in 1..Len(q), q[i].stream = s PROVE q[i].no < sent[s] + 1
      OBVIOUS
    <3>2. q[i] \in Frames
      BY DEF OrderInv
    <3>. QED BY <2>2, <3>1, <3>2 DEF OrderInv, Frames
  <2>6. \A n \in Nat : Newer(s, n) => n < sent[s] + 1
    BY <2>2 DEF Newer
  <2>. QED BY <2>1, <2>3, <2>4, <2>5, <2>6
<1>. QED BY <1>1, <1>2

\* A Push keeps what is to come newer than what was seen.
LEMMA GpuKeepsOrder ==
  ASSUME OrderInv, GpuPushes
  PROVE  OrderInv'
<1>1. PICK x \in Frames :
        /\ Push(x)
        /\ sent' \in [Streams -> Nat]
        /\ \A s \in Streams : sent[s] <= sent'[s]
        /\ x.no <= sent'[x.stream]
        /\ \A i \in 1..Len(q) : q[i].stream = x.stream => q[i].no < x.no
        /\ \A n \in Nat : Newer(x.stream, n) => n < x.no
  BY PushesNewest
<1>2. /\ q' \in Seq(Frames)
      /\ \A i \in 1..Len(q') : q'[i] = x \/ \E k \in 1..Len(q) : q'[i] = q[k]
      /\ \A i, j \in 1..Len(q') : i < j =>
           \E k \in 1..Len(q) :
             /\ q'[i] = q[k]
             /\ q'[j] = x \/ \E l \in 1..Len(q) : k < l /\ q'[j] = q[l]
      /\ \/ pusher' = "out"
         \/ pusher' = "asleep" /\ pushing' = x /\ q' = q
  BY <1>1, PushShape DEF OrderInv
<1>3. /\ newest' = newest /\ r' = r /\ at' = at
      /\ \A i \in 1..Len(q) : q[i] \in Frames
      /\ \A i \in 1..Len(q') : q'[i] \in Frames
      /\ x.stream \in Streams /\ x.no \in Nat
  <2>1. newest' = newest /\ r' = r /\ at' = at
    BY DEF GpuPushes, clientVars
  <2>2. \A s \in Seq(Frames) : \A i \in 1..Len(s) : s[i] \in Frames
    OBVIOUS
  <2>3. q \in Seq(Frames)
    BY DEF OrderInv
  <2>4. x.stream \in Streams /\ x.no \in Nat
    BY DEF Frames
  <2>. QED BY <1>2, <2>1, <2>2, <2>3, <2>4
<1>4. ASSUME NEW s \in Streams, NEW n \in Nat, Newer(s, n)
      PROVE  Newer(s, n)'
  <2>1. \A i \in 1..Len(q') : q'[i].stream = s => q'[i].no > n
    <3>1. SUFFICES ASSUME NEW i \in 1..Len(q'), q'[i].stream = s PROVE q'[i].no > n
      OBVIOUS
    <3>2. CASE q'[i] = x
      <4>1. n < x.no
        BY <1>1, <1>4, <3>1, <3>2
      <4>. QED BY <1>3, <3>2, <4>1
    <3>3. ASSUME NEW k \in 1..Len(q), q'[i] = q[k] PROVE q'[i].no > n
      BY <1>4, <3>1, <3>3 DEF Newer
    <3>. QED BY <1>2, <3>2, <3>3
  <2>2. pusher' # "out" /\ pushing'.stream = s => pushing'.no > n
    BY <1>1, <1>2, <1>3, <1>4
  <2>3. n <= sent'[s]
    BY <1>1, <1>4 DEF Newer, OrderInv
  <2>. QED BY <2>1, <2>2, <2>3 DEF Newer
<1>5. \A i, j \in 1..Len(q') : i < j /\ q'[i].stream = q'[j].stream => q'[i].no < q'[j].no
  <2>1. SUFFICES ASSUME NEW i \in 1..Len(q'), NEW j \in 1..Len(q'), i < j,
                        q'[i].stream = q'[j].stream
                 PROVE  q'[i].no < q'[j].no
    OBVIOUS
  <2>2. PICK k \in 1..Len(q) : /\ q'[i] = q[k]
                               /\ q'[j] = x \/ \E l \in 1..Len(q) : k < l /\ q'[j] = q[l]
    BY <1>2, <2>1
  <2>. QED BY <1>1, <2>1, <2>2 DEF OrderInv
<1>6. \A i \in 1..Len(q') : q'[i].no <= sent'[q'[i].stream]
  <2>1. SUFFICES ASSUME NEW i \in 1..Len(q') PROVE q'[i].no <= sent'[q'[i].stream]
    OBVIOUS
  <2>2. CASE q'[i] = x
    BY <1>1, <2>2
  <2>3. ASSUME NEW k \in 1..Len(q), q'[i] = q[k] PROVE q'[i].no <= sent'[q'[i].stream]
    <3>1. /\ q[k].stream \in Streams /\ q[k].no \in Nat /\ q[k].no <= sent[q[k].stream]
      BY <1>3 DEF OrderInv, Frames
    <3>2. sent[q[k].stream] <= sent'[q[k].stream] /\ sent[q[k].stream] \in Nat
            /\ sent'[q[k].stream] \in Nat
      BY <1>1, <3>1 DEF OrderInv
    <3>. QED BY <2>3, <3>1, <3>2
  <2>. QED BY <1>2, <2>2, <2>3
<1>7. pusher' # "out" =>
        /\ pushing' \in Frames /\ pushing'.no <= sent'[pushing'.stream]
        /\ \A i \in 1..Len(q') : q'[i].stream = pushing'.stream => q'[i].no < pushing'.no
  BY <1>1, <1>2
<1>8. \A t \in Pollers, s \in Streams : Newer(s, newest[t][s])'
  <2>1. SUFFICES ASSUME NEW t \in Pollers, NEW s \in Streams PROVE Newer(s, newest[t][s])'
    OBVIOUS
  <2>2. newest[t][s] \in Nat /\ Newer(s, newest[t][s])
    BY DEF OrderInv
  <2>. QED BY <1>3, <1>4, <2>2 DEF Newer
<1>9. \A t \in Pollers : at'[t] = "ok" =>
        r'[t] \in Frames /\ r'[t].no > newest'[t][r'[t].stream] /\ Newer(r[t].stream, r[t].no)'
  <2>1. SUFFICES ASSUME NEW t \in Pollers, at[t] = "ok"
                 PROVE  /\ r[t] \in Frames /\ r[t].no > newest[t][r[t].stream]
                        /\ Newer(r[t].stream, r[t].no)'
    BY <1>3
  <2>2. r[t] \in Frames /\ r[t].no > newest[t][r[t].stream] /\ Newer(r[t].stream, r[t].no)
    BY <2>1 DEF OrderInv
  <2>3. r[t].stream \in Streams /\ r[t].no \in Nat
    BY <2>2 DEF Frames
  <2>. QED BY <1>3, <1>4, <2>2, <2>3 DEF Newer
<1>. QED BY <1>1, <1>2, <1>3, <1>5, <1>6, <1>7, <1>8, <1>9 DEF OrderInv

\* A step that touches neither the frames nor what was shown of them.
LEMMA QuietKeepsOrder ==
  ASSUME OrderInv, UNCHANGED <<q, sent, newest, pushing>>,
         pusher' # "out" => pusher # "out",
         DOMAIN r' = Threads, DOMAIN at' = Threads,
         \A t \in Pollers : at'[t] = "ok" => at[t] = "ok" /\ r'[t] = r[t]
  PROVE  OrderInv'
<1>1. ASSUME NEW s, NEW n, Newer(s, n) PROVE Newer(s, n)'
  BY <1>1 DEF Newer
<1>2. \A t \in Pollers, s \in Streams : Newer(s, newest[t][s])'
  BY <1>1 DEF OrderInv, Newer
<1>3. \A t \in Pollers : at'[t] = "ok" =>
        r'[t] \in Frames /\ r'[t].no > newest'[t][r'[t].stream] /\ Newer(r[t].stream, r[t].no)'
  <2>1. SUFFICES ASSUME NEW t \in Pollers, at'[t] = "ok"
                 PROVE  /\ r'[t] \in Frames /\ r'[t].no > newest'[t][r'[t].stream]
                        /\ Newer(r[t].stream, r[t].no)'
    OBVIOUS
  <2>2. /\ r'[t] = r[t] /\ r[t] \in Frames /\ r[t].no > newest[t][r[t].stream]
        /\ Newer(r[t].stream, r[t].no)
    BY <2>1 DEF OrderInv
  <2>. QED BY <2>2 DEF Newer
<1>. QED BY <1>2, <1>3 DEF OrderInv

\* A move of one thread to any place but "ok" is one.
LEMMA MoveKeepsOrder ==
  ASSUME OrderInv, NEW t \in Threads, NEW place, place # "ok", GoTo(t, place),
         UNCHANGED <<q, sent, newest, pushing, r>>, pusher' # "out" => pusher # "out"
  PROVE  OrderInv'
<1>1. DOMAIN at' = Threads /\ \A u \in Threads : at'[u] = "ok" => at[u] = "ok"
  BY DEF GoTo, OrderInv
<1>2. DOMAIN r' = Threads
  BY DEF OrderInv
<1>. QED BY <1>1, <1>2, QuietKeepsOrder DEF Threads

\* Poll hands out the oldest result: newer than all that was shown, older than the rest.
LEMMA PollKeepsOrder ==
  ASSUME OrderInv, NEW t \in Pollers, PollCalled(t)
  PROVE  OrderInv'
<1>. t \in Threads
  BY DEF Threads
<1>1. CASE ~PollOk(t)
  <2>1. /\ UNCHANGED <<q, sent, newest, pushing, pusher, r>>
        /\ UNCHANGED at \/ \E place \in {"over", "late"} : GoTo(t, place)
    BY <1>1 DEF PollCalled, PollFinished, PollTimeout, PollWait, PollMoves, coreVars
  <2>2. CASE UNCHANGED at
    BY <2>1, <2>2, QuietKeepsOrder DEF OrderInv
  <2>. QED BY <2>1, <2>2, MoveKeepsOrder
<1>2. CASE PollOk(t)
  <2>0. PICK h : h = Head(q)
    OBVIOUS
  <2>1. /\ q # <<>> /\ q' = Tail(q) /\ pushing' = pushing
        /\ pusher' # "out" => pusher # "out"
        /\ sent' = sent /\ newest' = newest
    BY <1>2 DEF PollCalled, PollOk, PollFinished, PollTimeout, PollWait, PollMoves, WakePusher,
                coreVars
  <2>2. r' = [r EXCEPT ![t] = h] /\ GoTo(t, "ok")
    <3>1. ~PollFinished(t) /\ ~PollTimeout(t) /\ ~PollWait(t)
      BY <2>1 DEF PollFinished, PollTimeout, PollWait, PollReady
    <3>. QED BY <2>0, <3>1 DEF PollCalled
  <2>3. /\ h \in Frames /\ h = q[1] /\ 1 \in 1..Len(q) /\ Len(q) \in Nat
        /\ q' \in Seq(Frames) /\ Len(q') = Len(q) - 1
        /\ \A i \in 1..Len(q') : q'[i] = q[i + 1] /\ i + 1 \in 1..Len(q) /\ 1 < i + 1
    <3>1. /\ q \in Seq(Frames) /\ Len(q) \in Nat \ {0}
          /\ Head(q) \in Frames /\ Head(q) = q[1]
          /\ Tail(q) \in Seq(Frames) /\ Len(Tail(q)) = Len(q) - 1
          /\ \A i \in 1..(Len(q) - 1) : Tail(q)[i] = q[i + 1]
      BY <2>1 DEF OrderInv
    <3>. QED BY <2>0, <2>1, <3>1
  <2>4. ASSUME NEW s, NEW n, Newer(s, n) PROVE Newer(s, n)'
    BY <2>1, <2>3, <2>4 DEF Newer
  <2>5. Newer(h.stream, h.no)'
    <3>1. \A i \in 1..Len(q') : q'[i].stream = h.stream => q'[i].no > h.no
      <4>1. SUFFICES ASSUME NEW i \in 1..Len(q'), q'[i].stream = h.stream PROVE q'[i].no > h.no
        OBVIOUS
      <4>2. /\ q'[i] = q[i + 1] /\ i + 1 \in 1..Len(q) /\ 1 < i + 1
            /\ q[1].stream = q[i + 1].stream
        BY <2>3, <4>1
      <4>3. q[1].no < q[i + 1].no
        BY <2>3, <4>2 DEF OrderInv
      <4>4. q'[i] \in Frames
        BY <2>3
      <4>. QED BY <2>3, <4>2, <4>3, <4>4 DEF Frames
    <3>2. pusher' # "out" /\ pushing'.stream = h.stream => pushing'.no > h.no
      <4>1. SUFFICES ASSUME pusher # "out", pushing.stream = h.stream PROVE pushing.no > h.no
        BY <2>1
      <4>2. pushing \in Frames /\ q[1].no < pushing.no
        BY <2>3, <4>1 DEF OrderInv
      <4>. QED BY <2>3, <4>2 DEF Frames
    <3>3. h.no <= sent'[h.stream]
      BY <2>1, <2>3 DEF OrderInv
    <3>. QED BY <3>1, <3>2, <3>3 DEF Newer
  <2>6. h.no > newest[t][h.stream]
    <3>1. h.stream \in Streams
      BY <2>3 DEF Frames
    <3>2. Newer(h.stream, newest[t][h.stream])
      BY <3>1 DEF OrderInv
    <3>. QED BY <2>3, <3>2 DEF Newer
  <2>7. /\ DOMAIN r' = Threads /\ DOMAIN at' = Threads /\ r'[t] = h
        /\ \A u \in Threads : u # t => r'[u] = r[u] /\ at'[u] = at[u]
    BY <2>2 DEF GoTo, OrderInv
  <2>8. \A i, j \in 1..Len(q') : i < j /\ q'[i].stream = q'[j].stream => q'[i].no < q'[j].no
    <3>1. SUFFICES ASSUME NEW i \in 1..Len(q'), NEW j \in 1..Len(q'), i < j,
                          q'[i].stream = q'[j].stream
                   PROVE  q'[i].no < q'[j].no
      OBVIOUS
    <3>2. /\ q'[i] = q[i + 1] /\ q'[j] = q[j + 1] /\ i + 1 < j + 1
          /\ i + 1 \in 1..Len(q) /\ j + 1 \in 1..Len(q)
      BY <2>3, <3>1
    <3>. QED BY <3>1, <3>2 DEF OrderInv
  <2>9. \A i \in 1..Len(q') : q'[i].no <= sent'[q'[i].stream]
    BY <2>1, <2>3 DEF OrderInv
  <2>10. pusher' # "out" =>
           /\ pushing' \in Frames /\ pushing'.no <= sent'[pushing'.stream]
           /\ \A i \in 1..Len(q') : q'[i].stream = pushing'.stream => q'[i].no < pushing'.no
    BY <2>1, <2>3 DEF OrderInv
  <2>11. \A u \in Pollers, s \in Streams : Newer(s, newest[u][s])'
    <3>1. \A u \in Pollers, s \in Streams : Newer(s, newest[u][s])
      BY DEF OrderInv
    <3>. QED BY <2>1, <2>4, <3>1 DEF Newer
  <2>12. \A u \in Pollers : at'[u] = "ok" =>
           r'[u] \in Frames /\ r'[u].no > newest'[u][r'[u].stream] /\ Newer(r[u].stream, r[u].no)'
    <3>1. SUFFICES ASSUME NEW u \in Pollers, at'[u] = "ok"
                   PROVE  /\ r'[u] \in Frames /\ r'[u].no > newest'[u][r'[u].stream]
                          /\ Newer(r[u].stream, r[u].no)'
      OBVIOUS
    <3>2. CASE u = t
      BY <2>1, <2>3, <2>5, <2>6, <2>7, <3>2 DEF Newer
    <3>3. CASE u # t
      <4>1. r'[u] = r[u] /\ at[u] = "ok"
        BY <2>7, <3>1, <3>3 DEF Threads
      <4>2. r[u] \in Frames /\ r[u].no > newest[u][r[u].stream] /\ Newer(r[u].stream, r[u].no)
        BY <4>1 DEF OrderInv
      <4>. QED BY <2>1, <2>4, <4>1, <4>2 DEF Newer
    <3>. QED BY <3>2, <3>3
  <2>. QED BY <2>1, <2>3, <2>7, <2>8, <2>9, <2>10, <2>11, <2>12 DEF OrderInv
<1>. QED BY <1>1, <1>2

\* Showing a Result makes it the newest of its stream.
LEMMA ShownKeepsOrder ==
  ASSUME OrderInv, NEW t \in Pollers, Shown(t)
  PROVE  OrderInv'
<1>1. /\ UNCHANGED <<q, sent, pushing, pusher, r>> /\ GoTo(t, "body") /\ at[t] = "ok"
      /\ newest' = [newest EXCEPT ![t][r[t].stream] = IF r[t].no > @ THEN r[t].no ELSE @]
  BY DEF Shown, Runs, coreVars, qvars
<1>2. r[t] \in Frames /\ r[t].no > newest[t][r[t].stream] /\ Newer(r[t].stream, r[t].no)
  BY <1>1 DEF OrderInv
<1>3. r[t].stream \in Streams /\ r[t].no \in Nat
  BY <1>2 DEF Frames
<1>4. /\ newest' \in [Pollers -> [Streams -> Nat]]
      /\ newest'[t][r[t].stream] = r[t].no
      /\ \A u \in Pollers, s \in Streams : u # t \/ s # r[t].stream => newest'[u][s] = newest[u][s]
  BY <1>1, <1>2, <1>3 DEF OrderInv
<1>5. ASSUME NEW s, NEW n, Newer(s, n) PROVE Newer(s, n)'
  BY <1>1, <1>5 DEF Newer
<1>6. ASSUME NEW u \in Pollers, NEW s \in Streams PROVE Newer(s, newest[u][s])'
  <2>1. CASE u = t /\ s = r[t].stream
    BY <1>1, <1>2, <1>4, <2>1 DEF Newer
  <2>2. CASE u # t \/ s # r[t].stream
    <3>1. newest'[u][s] = newest[u][s] /\ Newer(s, newest[u][s])
      BY <1>4, <2>2 DEF OrderInv
    <3>. QED BY <1>1, <3>1 DEF Newer
  <2>. QED BY <2>1, <2>2
<1>7. /\ DOMAIN r' = Threads /\ DOMAIN at' = Threads /\ at'[t] # "ok"
      /\ \A u \in Threads : u # t => at'[u] = at[u]
  <2>1. t \in Threads
    BY DEF Threads
  <2>. QED BY <1>1, <2>1 DEF GoTo, OrderInv
<1>8. \A u \in Pollers : at'[u] = "ok" =>
        r'[u] \in Frames /\ r'[u].no > newest'[u][r'[u].stream] /\ Newer(r[u].stream, r[u].no)'
  <2>1. SUFFICES ASSUME NEW u \in Pollers, at'[u] = "ok"
                 PROVE  /\ r'[u] \in Frames /\ r'[u].no > newest'[u][r'[u].stream]
                        /\ Newer(r[u].stream, r[u].no)'
    OBVIOUS
  <2>2. u # t /\ at[u] = "ok"
    BY <1>7, <2>1 DEF Threads
  <2>3. r[u] \in Frames /\ r[u].no > newest[u][r[u].stream] /\ Newer(r[u].stream, r[u].no)
    BY <2>2 DEF OrderInv
  <2>4. newest'[u][r[u].stream] = newest[u][r[u].stream]
    BY <1>4, <2>2, <2>3 DEF Frames
  <2>. QED BY <1>1, <2>3, <2>4 DEF Newer
<1>. QED BY <1>1, <1>4, <1>6, <1>7, <1>8 DEF OrderInv

\* Every step keeps the frames of a stream in order.
LEMMA OrderStep == OrderInv /\ [PyNext]_pyVars => OrderInv'
<1>. SUFFICES ASSUME OrderInv, [PyNext]_pyVars PROVE OrderInv'
  OBVIOUS
<1>1. ASSUME UNCHANGED <<q, sent, newest, pushing, r, at>>, pusher' # "out" => pusher # "out"
      PROVE  OrderInv'
  BY <1>1, QuietKeepsOrder DEF OrderInv
<1>2. CASE UNCHANGED pyVars
  BY <1>1, <1>2 DEF pyVars, qvars, clientVars, coreVars
<1>3. CASE GpuStep \/ GpuWokenSpuriously \/ RingStep
  <2>1. CASE GpuEnds \/ GpuLogs \/ LogCallback \/ GpuWokenSpuriously
    BY <1>1, <2>1 DEF GpuEnds, MarkFinished, GpuLogs, LogCallback, GpuWokenSpuriously,
                      SpuriousPusher, WakePusher, qvars, clientVars, coreVars
  <2>2. CASE RingStep
    BY <1>1, <2>2 DEF RingStep, ProducerSleeps, ProducerWakes, qvars, clientVars
  <2>. QED BY <1>3, <2>1, <2>2, GpuKeepsOrder DEF GpuStep
<1>4. ASSUME NEW t \in Threads, NEW place, place # "ok", Moves(t, place) PROVE OrderInv'
  BY <1>4, MoveKeepsOrder DEF Moves, qvars, coreVars
<1>5. CASE TimerFires \/ TimerCancelled
  BY <1>4, <1>5 DEF TimerFires, TimerCancelled, Threads
<1>6. ASSUME NEW t \in Pollers, PollerStep(t) \/ FetchKept(t) PROVE OrderInv'
  <2>. t \in Threads
    BY DEF Threads
  <2>1. CASE Iter(t) \/ ExplicitStart(t) \/ NextCalled(t) \/ Again(t) \/ StopIteration(t)
             \/ LoopsAgain(t) \/ Breaks(t) \/ FetchInLoop(t) \/ FetchInLoopDone(t)
    BY <1>4, <2>1 DEF Iter, ExplicitStart, NextCalled, Again, StopIteration, LoopsAgain, Breaks,
                      FetchInLoop, FetchInLoopDone
  <2>2. CASE StartCpp(t) \/ Started(t) \/ FetchKept(t)
    <3>1. \E place \in {"left", "started", "next", "done", "borrowing"} : GoTo(t, place)
      BY <2>2 DEF StartCpp, Started, FetchKept
    <3>2. UNCHANGED <<q, sent, newest, pushing, pusher, r>>
      BY <2>2 DEF StartCpp, Started, FetchKept, qvars, coreVars
    <3>. QED BY <3>1, <3>2, MoveKeepsOrder
  <2>3. CASE TimesOut(t)
    BY <1>1, <2>3 DEF TimesOut, Expire, PollMoves, clientVars, coreVars
  <2>4. CASE FetchKeptDone(t)
    <3>1. /\ UNCHANGED <<q, sent, newest, pushing, pusher>>
          /\ r' = [r EXCEPT ![t] = NoResult]
          /\ \E place \in {"destroying", "deleting", "done"} : GoTo(t, place)
      BY <2>4 DEF FetchKeptDone, Drops, LastRefDeletes, Frees, qvars, coreVars
    <3>2. /\ DOMAIN r' = Threads /\ DOMAIN at' = Threads
          /\ \A u \in Threads : at'[u] = "ok" => at[u] = "ok" /\ r'[u] = r[u]
      BY <3>1 DEF GoTo, OrderInv
    <3>. QED BY <3>1, <3>2, QuietKeepsOrder DEF Threads
  <2>. QED BY <1>6, <2>1, <2>2, <2>3, <2>4, PollKeepsOrder, ShownKeepsOrder DEF PollerStep
<1>7. ASSUME NEW t \in Threads, EitherStep(t) PROVE OrderInv'
  <2>1. CASE ExitStops(t) \/ StopReturns(t)
    BY <1>4, <2>1 DEF ExitStops, StopReturns
  <2>2. CASE StopCalled(t)
    BY <1>1, <2>2 DEF StopCalled, QueueStop, WakePusher, clientVars, coreVars
  <2>3. CASE DropPipe(t) \/ DelReturns(t) \/ Destroyed(t)
    <3>1. \E place \in {"destroying", "deleting", "kept", "done"} : GoTo(t, place)
      BY <2>3 DEF DropPipe, DelReturns, Destroyed, Drops, LastRefDeletes, Frees, Rest
    <3>2. UNCHANGED <<q, sent, newest, pushing, pusher, r>>
      BY <2>3 DEF DropPipe, DelReturns, Destroyed, qvars, coreVars
    <3>. QED BY <3>1, <3>2, MoveKeepsOrder
  <2>. QED BY <1>7, <2>1, <2>2, <2>3 DEF EitherStep
<1>. QED BY <1>2, <1>3, <1>5, <1>6, <1>7 DEF PyNext

\* However many threads iterate and whatever the queue evicts: each thread sees the
\* frames of each camera climb.
THEOREM DeliveryIsFresh == PySpec => []NoStaleDelivery
<1>1. OrderInv => NoStaleDelivery
  BY DEF OrderInv, NoStaleDelivery
<1>. QED BY OrderInit, OrderStep, <1>1, PTL DEF PySpec
=============================================================================
