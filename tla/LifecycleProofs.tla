--------------------------- MODULE LifecycleProofs ---------------------------
(***************************************************************************)
(* Theorems about Lifecycle and its Events sink, for any number of threads *)
(* that call Stop(), and any number of lines and capacity of the queue.    *)
(*                                                                         *)
(* What makes Stop() return into a quiet program is that one caller runs   *)
(* the sequence, the others return after it has completed, and nobody      *)
(* starts a thread once a Stop() was called.                               *)
(***************************************************************************)
EXTENDS Lifecycle, TLAPS

\* The numbers that are counted.
NumbersTyped ==
  /\ pushed \in Nat /\ ignored \in Nat /\ written \in Nat /\ failed \in Nat /\ line_dropped \in Nat
  /\ line \in Nat /\ Len(lines) \in Nat

\* The sink holds a line exactly while it writes.
Holding == spc = "write" <=> line # 0

\* LinesCounted, wherever the thread stands.
AllCounted ==
  pushed = written + failed + line_dropped + ignored + Len(lines) + (IF line # 0 THEN 1 ELSE 0)

\* The lines of qq are consecutive and end with line last.
Newest(qq, last) == \A i \in DOMAIN qq : qq[i] = last - Len(qq) + i

\* Lines are refused only once the queue is stopped, so those accepted are the first.
LineInv ==
  /\ NumbersTyped /\ Holding /\ AllCounted /\ lines \in Seq(Nat \ {0})
  /\ LinesInOrder /\ (~lines_stopping => ignored = 0)

\* What the caller that runs the sequence goes through.
SequencePcs == {"queue", "sinkFlag", "sinkQueue", "flag", "joinGpu", "joinSink", "complete"}

LifeType ==
  /\ stop_pc \in [Stoppers -> StopPcs]
  /\ start_pc \in StartPcs
  /\ gpu \in {"unborn", "running", "ended"}
  /\ spc \in SinkPcs

\* One caller runs the sequence; who has returned did so after its end.
ElectionInv ==
  /\ \A c, d \in Stoppers : stop_pc[c] \in SequencePcs /\ stop_pc[d] \in SequencePcs => c = d
  /\ \A c \in Stoppers :
       /\ stop_pc[c] # "out" => stop_requested
       /\ stop_pc[c] \in SequencePcs \cup {"waiting"} => stop_seq_started /\ ~stop_seq_complete
       /\ stop_pc[c] \in {"returned", "freed"} => stop_seq_complete
  /\ stop_seq_complete => stop_seq_started /\ stop_requested

\* Threads are spawned once, and what was joined has ended.
SpawnInv ==
  /\ start_pc \in {"started", "gpuSpawned"} => started
  /\ ~started \/ start_pc = "started" => gpu = "unborn"
  /\ ~started \/ start_pc \in {"started", "gpuSpawned"} => spc = "unborn"
  /\ "gpu" \in joined => gpu = "ended"
  /\ "sink" \in joined => spc = "done"

GpuGone == gpu = "unborn" \/ "gpu" \in joined

SinkGone == spc = "unborn" \/ "sink" \in joined

\* Unless the calls overlap, Start() spawns nothing once Stop() was called, and what
\* the sequence has passed is gone.
QuietInv ==
  ~raced =>
    /\ start_pc # "out" => ~stop_requested
    /\ stop_seq_complete => GpuGone /\ SinkGone
    /\ \A c \in Stoppers :
         /\ stop_pc[c] \in {"joinSink", "complete"} => GpuGone
         /\ stop_pc[c] = "complete" => SinkGone

StopInv == LifeType /\ ElectionInv /\ SpawnInv /\ QuietInv

-----------------------------------------------------------------------------
(* The Events sink *)

\* Appending the next line, and removing the oldest, keep them consecutive.
LEMMA NewestOf ==
  ASSUME NEW qq \in Seq(Nat \ {0}), NEW last \in Int, Newest(qq, last)
  PROVE  /\ last + 1 \in Nat \ {0} => Newest(Append(qq, last + 1), last + 1)
         /\ qq # <<>> => Newest(Tail(qq), last) /\ Head(qq) = last - Len(qq) + 1
<1>1. ASSUME last + 1 \in Nat \ {0} PROVE Newest(Append(qq, last + 1), last + 1)
  <2>. DEFINE q2 == Append(qq, last + 1)
  <2>1. Len(q2) = Len(qq) + 1 /\ DOMAIN q2 = 1..(Len(qq) + 1) /\ DOMAIN qq = 1..Len(qq)
        /\ q2[Len(qq) + 1] = last + 1 /\ \A i \in 1..Len(qq) : q2[i] = qq[i]
    BY <1>1
  <2>. HIDE DEF q2
  <2>2. ASSUME NEW i \in DOMAIN q2 PROVE q2[i] = (last + 1) - Len(q2) + i
    <3>1. Len(qq) \in Nat /\ i \in 1..(Len(qq) + 1)
      BY <2>1
    <3>2. CASE i = Len(qq) + 1
      BY <2>1, <3>1, <3>2
    <3>3. CASE i # Len(qq) + 1
      <4>1. i \in DOMAIN qq /\ q2[i] = qq[i]
        BY <2>1, <3>1, <3>3
      <4>2. qq[i] = last - Len(qq) + i
        BY <4>1 DEF Newest
      <4>3. QED BY <2>1, <3>1, <4>1, <4>2
    <3>4. QED BY <3>2, <3>3
  <2>3. QED BY <2>2 DEF Newest, q2
<1>2. ASSUME qq # <<>> PROVE Newest(Tail(qq), last) /\ Head(qq) = last - Len(qq) + 1
  <2>1. Len(qq) \in Nat \ {0} /\ DOMAIN qq = 1..Len(qq) /\ Head(qq) = qq[1]
    BY <1>2
  <2>2. /\ Len(Tail(qq)) = Len(qq) - 1 /\ DOMAIN Tail(qq) = 1..(Len(qq) - 1)
        /\ \A i \in DOMAIN Tail(qq) : Tail(qq)[i] = qq[i + 1]
    BY <1>2
  <2>3. \A i \in DOMAIN Tail(qq) : i + 1 \in DOMAIN qq
    BY <2>1, <2>2
  <2>4. QED BY <2>1, <2>2, <2>3 DEF Newest
<1>3. QED BY <1>1, <1>2

\* A line more, the oldest one evicted if there is no room.
LEMMA FormatKeepsCount == LineInv /\ FormatLine => LineInv'
<1>1. SUFFICES ASSUME LineInv, FormatLine PROVE LineInv'
  OBVIOUS
<1>2. spc' = spc /\ line' = line /\ written' = written /\ failed' = failed /\ pushed' = pushed + 1
  BY <1>1 DEF FormatLine, sinkState
<1>3. /\ NumbersTyped /\ Holding /\ AllCounted /\ lines \in Seq(Nat \ {0})
      /\ Newest(lines, pushed - ignored) /\ (line # 0 => line + Len(lines) <= pushed - ignored)
      /\ lines_stopping' = lines_stopping /\ (~lines_stopping => ignored = 0)
  BY <1>1 DEF LineInv, LinesInOrder, Newest, FormatLine
<1>4. CASE lines_stopping
  <2>1. ignored' = ignored + 1 /\ lines' = lines /\ line_dropped' = line_dropped
    BY <1>1, <1>4 DEF FormatLine
  <2>2. NumbersTyped' /\ AllCounted'
    BY <1>2, <1>3, <2>1 DEF NumbersTyped, AllCounted
  <2>3. pushed' - ignored' = pushed - ignored
    BY <1>2, <1>3, <2>1 DEF NumbersTyped
  <2>4. LinesInOrder'
    BY <1>2, <1>3, <2>1, <2>3 DEF LinesInOrder, Newest
  <2>5. QED BY <1>2, <1>3, <1>4, <2>1, <2>2, <2>4 DEF LineInv, Holding
<1>5. CASE ~lines_stopping /\ LinesFull
  <2>1. lines # <<>>
    BY <1>3, <1>5, EventsSinkAssumption DEF LinesFull
  <2>2. Tail(lines) \in Seq(Nat \ {0}) /\ Len(Tail(lines)) = Len(lines) - 1
    BY <1>3, <2>1
  <2>3. pushed + 1 \in Nat \ {0}
    BY <1>3 DEF NumbersTyped
  <2>4. lines' = Append(Tail(lines), pushed + 1) /\ line_dropped' = line_dropped + 1 /\ ignored' = ignored
    BY <1>1, <1>5 DEF FormatLine, PushLine
  <2>5. Append(Tail(lines), pushed + 1) \in Seq(Nat \ {0})
        /\ Len(Append(Tail(lines), pushed + 1)) = Len(Tail(lines)) + 1
    BY <2>2, <2>3
  <2>6. lines' \in Seq(Nat \ {0}) /\ Len(lines') = Len(lines)
    BY <1>3, <2>2, <2>4, <2>5 DEF NumbersTyped
  <2>7. NumbersTyped' /\ AllCounted'
    BY <1>2, <1>3, <2>4, <2>6 DEF NumbersTyped, AllCounted
  <2>8. LinesInOrder'
    <3>1. ignored = 0 /\ pushed \in Nat /\ Newest(Tail(lines), pushed)
      BY <1>3, <1>5, <2>1, NewestOf DEF NumbersTyped
    <3>2. Newest(lines', pushed + 1)
      <4>. DEFINE rest == Tail(lines)
      <4>1. rest \in Seq(Nat \ {0}) /\ pushed \in Int /\ Newest(rest, pushed)
        BY <2>2, <3>1
      <4>. HIDE DEF rest
      <4>2. Newest(Append(rest, pushed + 1), pushed + 1)
        BY <2>3, <4>1, NewestOf
      <4>3. QED BY <2>4, <4>2 DEF rest
    <3>3. line # 0 => line + Len(lines') <= pushed + 1
      BY <1>3, <2>6, <3>1 DEF NumbersTyped
    <3>4. pushed' - ignored' = pushed + 1
      BY <1>2, <2>4, <3>1
    <3>5. QED BY <1>2, <3>2, <3>3, <3>4 DEF LinesInOrder, Newest
  <2>9. QED BY <1>2, <1>3, <1>5, <2>4, <2>6, <2>7, <2>8 DEF LineInv, Holding
<1>6. CASE ~lines_stopping /\ ~LinesFull
  <2>1. lines' = Append(lines, pushed + 1) /\ line_dropped' = line_dropped /\ ignored' = ignored
    BY <1>1, <1>6 DEF FormatLine, PushLine
  <2>2. pushed + 1 \in Nat \ {0}
    BY <1>3 DEF NumbersTyped
  <2>3. lines' \in Seq(Nat \ {0}) /\ Len(lines') = Len(lines) + 1
    BY <1>3, <2>1, <2>2
  <2>4. NumbersTyped' /\ AllCounted'
    BY <1>2, <1>3, <2>1, <2>3 DEF NumbersTyped, AllCounted
  <2>5. LinesInOrder'
    <3>1. ignored = 0 /\ pushed \in Nat /\ Newest(lines, pushed)
      BY <1>3, <1>6 DEF NumbersTyped
    <3>2. Newest(lines', pushed + 1)
      BY <1>3, <2>1, <2>2, <3>1, NewestOf
    <3>3. line # 0 => line + Len(lines') <= pushed + 1
      BY <1>3, <2>3, <3>1 DEF NumbersTyped
    <3>4. pushed' - ignored' = pushed + 1
      BY <1>2, <2>1, <3>1
    <3>5. QED BY <1>2, <3>2, <3>3, <3>4 DEF LinesInOrder, Newest
  <2>6. QED BY <1>2, <1>3, <1>6, <2>1, <2>3, <2>4, <2>5 DEF LineInv, Holding
<1>7. QED BY <1>4, <1>5, <1>6

\* The sink moves a line from the queue to its hand, and from there to one of the counts.
LEMMA SinkKeepsCount == LineInv /\ SinkStep => LineInv'
<1>1. SUFFICES ASSUME LineInv, SinkStep PROVE LineInv'
  OBVIOUS
<1>2. UNCHANGED <<pushed, ignored, lines_stopping>> /\ (~lines_stopping => ignored = 0)
  BY <1>1 DEF LineInv, SinkStep, SinkLoop, SinkConnect, SinkBackoff, SinkPop, SinkWriteOk, SinkWriteFails, SinkUnchanged
<1>3. NumbersTyped
  BY <1>1 DEF LineInv
<1>4. Holding /\ AllCounted /\ LinesInOrder
  BY <1>1 DEF LineInv
<1>5. lines \in Seq(Nat \ {0})
  BY <1>1 DEF LineInv
<1>6. CASE SinkLoop \/ SinkConnect \/ SinkBackoff \/ (SinkPop /\ lines = <<>>)
  <2>1. /\ line' = line /\ lines' = lines /\ line_dropped' = line_dropped
        /\ written' = written /\ failed' = failed
    BY <1>6 DEF SinkLoop, SinkConnect, SinkBackoff, SinkPop
  <2>2. spc' # "write" /\ spc # "write"
    BY <1>6 DEF SinkLoop, SinkConnect, SinkBackoff, AfterBackoff, SinkPop
  <2>3. NumbersTyped' /\ AllCounted'
    BY <1>2, <1>3, <1>4, <2>1 DEF NumbersTyped, AllCounted
  <2>4. Holding'
    BY <1>4, <2>1, <2>2 DEF Holding
  <2>5. LinesInOrder'
    BY <1>2, <1>4, <2>1 DEF LinesInOrder
  <2>6. QED BY <1>2, <1>5, <2>1, <2>3, <2>4, <2>5 DEF LineInv
<1>7. CASE SinkPop /\ lines # <<>>
  <2>1. line' = Head(lines) /\ lines' = Tail(lines) /\ spc' = "write" /\ spc # "write"
        /\ line_dropped' = line_dropped /\ written' = written /\ failed' = failed
    BY <1>1, <1>7 DEF SinkPop
  <2>2. /\ Head(lines) \in Nat \ {0} /\ Tail(lines) \in Seq(Nat \ {0})
        /\ Len(Tail(lines)) = Len(lines) - 1 /\ Len(lines) # 0
    BY <1>5, <1>7
  <2>3. Len(lines') = Len(lines) - 1 /\ Len(lines') \in Nat
    BY <1>3, <2>1, <2>2 DEF NumbersTyped
  <2>4. NumbersTyped'
    BY <1>2, <1>3, <2>1, <2>2, <2>3 DEF NumbersTyped
  <2>5. line = 0 /\ line' # 0
    BY <1>4, <2>1, <2>2 DEF Holding
  <2>6. pushed = written + failed + line_dropped + ignored + Len(lines) + 0
    BY <1>4, <2>5 DEF AllCounted
  <2>7. pushed = written + failed + line_dropped + ignored + Len(lines') + 1
    BY <1>3, <2>3, <2>6 DEF NumbersTyped
  <2>8. AllCounted'
    BY <1>2, <2>1, <2>5, <2>7 DEF AllCounted
  <2>9. Holding'
    BY <2>1, <2>5 DEF Holding
  <2>10. LinesInOrder'
    <3>1. pushed - ignored \in Int /\ Newest(lines, pushed - ignored)
      BY <1>3, <1>4 DEF NumbersTyped, LinesInOrder, Newest
    <3>2. Newest(lines', pushed - ignored) /\ line' = (pushed - ignored) - Len(lines) + 1
      BY <1>5, <1>7, <2>1, <3>1, NewestOf
    <3>3. line' + Len(lines') <= pushed - ignored
      BY <1>3, <2>3, <3>1, <3>2 DEF NumbersTyped
    <3>4. QED BY <1>2, <3>2, <3>3 DEF LinesInOrder, Newest
  <2>11. QED BY <1>2, <2>1, <2>2, <2>4, <2>8, <2>9, <2>10 DEF LineInv
<1>8. CASE SinkWriteOk \/ SinkWriteFails
  <2>1. /\ spc = "write" /\ spc' = "loop" /\ line' = 0
        /\ lines' = lines /\ line_dropped' = line_dropped
    BY <1>8 DEF SinkWriteOk, SinkWriteFails, FailedLineLost
  <2>2. \/ written' = written + 1 /\ failed' = failed
        \/ written' = written /\ failed' = failed + 1
    BY <1>8 DEF SinkWriteOk, SinkWriteFails, FailedLineLost
  <2>3. NumbersTyped'
    BY <1>2, <1>3, <2>1, <2>2 DEF NumbersTyped
  <2>4. line # 0
    BY <1>4, <2>1 DEF Holding
  <2>5. pushed = written + failed + line_dropped + ignored + Len(lines) + 1
    BY <1>4, <2>4 DEF AllCounted
  <2>6. pushed = written' + failed' + line_dropped + ignored + Len(lines) + 0
    <3>1. pushed = (written + 1) + failed + line_dropped + ignored + Len(lines) + 0
      BY <1>3, <2>5 DEF NumbersTyped
    <3>2. pushed = written + (failed + 1) + line_dropped + ignored + Len(lines) + 0
      BY <1>3, <2>5 DEF NumbersTyped
    <3>3. QED BY <2>2, <3>1, <3>2, Zenon
  <2>7. AllCounted'
    BY <1>2, <2>1, <2>6 DEF AllCounted
  <2>8. Holding'
    BY <2>1 DEF Holding
  <2>9. LinesInOrder'
    BY <1>2, <1>4, <2>1 DEF LinesInOrder
  <2>10. QED BY <1>2, <1>5, <2>1, <2>3, <2>7, <2>8, <2>9 DEF LineInv
<1>9. QED BY <1>1, <1>6, <1>7, <1>8 DEF SinkStep

\* Neither does any other step of the program lose count.
LEMMA LineNext == LineInv /\ SpawnInv /\ [Next]_allVars => LineInv'
<1>1. SUFFICES ASSUME LineInv, SpawnInv, [Next]_allVars PROVE LineInv'
  OBVIOUS
<1>2. CASE GpuFormats
  BY <1>1, <1>2, FormatKeepsCount DEF GpuFormats
<1>3. CASE SinkRuns
  BY <1>1, <1>3, SinkKeepsCount DEF SinkRuns
<1>4. CASE SpawnSink
  BY <1>1, <1>4 DEF LineInv, NumbersTyped, Holding, SpawnInv, SpawnSink, queueLines, AllCounted,
                    LinesInOrder
<1>5. CASE UNCHANGED <<lines, line_dropped, pushed, ignored, sinkState>> /\ (lines_stopping => lines_stopping')
  BY <1>1, <1>5 DEF LineInv, NumbersTyped, Holding, sinkState, AllCounted, LinesInOrder
<1>6. ASSUME NEW c \in Stoppers, StopCalled(c) \/ StopStep(c)
      PROVE  UNCHANGED <<lines, line_dropped, pushed, ignored, sinkState>> /\ (lines_stopping => lines_stopping')
  BY <1>6 DEF StopCalled, StopStep, StopElect, StopQueue, StopSinkFlag, StopSinkQueue, StopFlag,
              StopJoinGpu, StopJoinSink, StopComplete, sinkVars, queueLines
<1>7. QED BY <1>1, <1>2, <1>3, <1>4, <1>5, <1>6
          DEF Next, StartStep, StartCalled, StartOnce, SpawnGpu, GpuEnds, Destroy,
              allVars, sinkVars, queueLines

-----------------------------------------------------------------------------
(* Stop *)

\* Nothing runs before Start().
LEMMA InitInv == Init => StopInv /\ LineInv
<1>1. SUFFICES ASSUME Init PROVE StopInv /\ LineInv
  OBVIOUS
<1>2. LifeType
  BY <1>1 DEF Init, SinkInit, LifeType, StopPcs, StartPcs, SinkPcs
<1>3. ElectionInv /\ SpawnInv /\ QuietInv
  BY <1>1 DEF Init, SinkInit, ElectionInv, SpawnInv, QuietInv, SequencePcs
<1>4. LineInv
  BY <1>1 DEF Init, SinkInit, LineInv, NumbersTyped, Holding, AllCounted,
                    LinesInOrder
<1>5. QED BY <1>2, <1>3, <1>4 DEF StopInv

\* Start() spawns its threads unless a Stop() came first.
LEMMA StartKeepsQuiet == StopInv /\ (StartCalled \/ StartStep) => StopInv'
<1>1. SUFFICES ASSUME StopInv, StartCalled \/ StartStep PROVE StopInv'
  OBVIOUS
<1>2. UNCHANGED <<stop_pc, stop_requested, stop_seq_started, stop_seq_complete, joined>>
  BY <1>1 DEF StartCalled, StartStep, StartOnce, SpawnGpu, SpawnSink
<1>3. LifeType'
  BY <1>1 DEF StopInv, LifeType, StartPcs, SinkPcs, StartCalled, StartStep, StartOnce, SpawnGpu,
              SpawnSink, sinkVars, sinkState
<1>4. ElectionInv'
  BY <1>1, <1>2 DEF StopInv, ElectionInv
<1>5. SpawnInv'
  BY <1>1 DEF StopInv, SpawnInv, LifeType, StartPcs, StartCalled, StartStep, StartOnce, SpawnGpu,
              SpawnSink, sinkVars, sinkState
<1>6. QuietInv'
  <2>1. CASE StartCalled \/ StartOnce
    BY <1>1, <2>1 DEF StopInv, QuietInv, GpuGone, SinkGone, StartCalled, StartOnce, sinkVars, sinkState
  <2>2. ASSUME SpawnGpu \/ SpawnSink, ~raced' PROVE QuietInv'
    <3>1. ~stop_requested /\ start_pc # "out"
      BY <1>1, <2>2 DEF StopInv, QuietInv, SpawnGpu, SpawnSink
    <3>2. (\A c \in Stoppers : stop_pc[c] = "out") /\ stop_requested' = FALSE
      BY <1>1, <2>2, <3>1 DEF StopInv, ElectionInv, SpawnGpu, SpawnSink
    <3>3. ~stop_seq_complete /\ \A c \in Stoppers : stop_pc'[c] = "out"
      BY <1>1, <1>2, <3>1, <3>2 DEF StopInv, ElectionInv
    <3>4. QED BY <1>2, <3>2, <3>3 DEF QuietInv
  <2>3. QED BY <1>1, <2>1, <2>2 DEF StartStep, QuietInv
<1>7. QED BY <1>3, <1>4, <1>5, <1>6 DEF StopInv

\* The threads come to their ends.
LEMMA ThreadsKeepQuiet == StopInv /\ (GpuFormats \/ GpuEnds \/ SinkRuns) => StopInv'
<1>1. SUFFICES ASSUME StopInv, GpuFormats \/ GpuEnds \/ SinkRuns PROVE StopInv'
  OBVIOUS
<1>2. UNCHANGED <<stop_pc, stop_requested, stop_seq_started, stop_seq_complete, joined, raced,
                  started, start_pc>>
  BY <1>1 DEF GpuFormats, GpuEnds, SinkRuns, lifeVars
<1>3. spc' \in SinkPcs /\ (spc \in {"unborn", "done"} => spc' = spc) /\ (spc # "unborn" => spc' # "unborn")
  BY <1>1 DEF StopInv, LifeType, SinkPcs, GpuFormats, FormatLine, GpuEnds, SinkRuns, SinkStep, SinkLoop,
              SinkConnect, SinkBackoff, AfterBackoff, SinkPop, SinkWriteOk, SinkWriteFails,
              sinkVars, sinkState
<1>4. gpu' = gpu \/ (gpu = "running" /\ gpu' = "ended")
  <2>1. CASE GpuFormats \/ SinkRuns
    BY <2>1 DEF GpuFormats, SinkRuns, lifeVars
  <2>2. CASE GpuEnds
    BY <2>2 DEF GpuEnds
  <2>3. QED BY <1>1, <2>1, <2>2
<1>5. LifeType'
  BY <1>1, <1>2, <1>3, <1>4 DEF StopInv, LifeType
<1>6. ElectionInv'
  BY <1>1, <1>2 DEF StopInv, ElectionInv
<1>7. SpawnInv' /\ QuietInv'
  BY <1>1, <1>2, <1>3, <1>4 DEF StopInv, SpawnInv, QuietInv, GpuGone, SinkGone
<1>8. QED BY <1>5, <1>6, <1>7 DEF StopInv

\* A call of Stop() requests it, and overlaps Start() or finds it out.
LEMMA CallKeepsQuiet == ASSUME NEW e \in Stoppers PROVE StopInv /\ StopCalled(e) => StopInv'
<1>1. SUFFICES ASSUME StopInv, StopCalled(e) PROVE StopInv'
  OBVIOUS
<1>2. /\ stop_pc' = [stop_pc EXCEPT ![e] = "called"] /\ stop_requested'
      /\ raced' = (raced \/ start_pc # "out")
      /\ UNCHANGED <<spc, stop_seq_started, stop_seq_complete, started, start_pc, gpu, joined>>
  BY <1>1 DEF StopCalled, StopGoTo, sinkVars, sinkState
<1>3. \A c \in Stoppers : stop_pc'[c] = IF c = e THEN "called" ELSE stop_pc[c]
  BY <1>1, <1>2 DEF StopInv, LifeType
<1>4. LifeType'
  BY <1>1, <1>2 DEF StopInv, LifeType, StopPcs
<1>5. ElectionInv'
  BY <1>1, <1>2, <1>3 DEF StopInv, ElectionInv, SequencePcs
<1>6. SpawnInv'
  BY <1>1, <1>2 DEF StopInv, SpawnInv
<1>7. ASSUME ~raced' PROVE QuietInv'
  <2>1. ~raced /\ start_pc' = "out"
    BY <1>2, <1>7
  <2>2. QED BY <1>1, <1>2, <1>3, <2>1 DEF StopInv, QuietInv, GpuGone, SinkGone
<1>8. QED BY <1>4, <1>5, <1>6, <1>7 DEF QuietInv, StopInv

\* The first runs the sequence; another returns only if it has ended.
LEMMA ElectKeepsQuiet == ASSUME NEW e \in Stoppers PROVE StopInv /\ StopElect(e) => StopInv'
<1>1. SUFFICES ASSUME StopInv, StopElect(e) PROVE StopInv'
  OBVIOUS
<1>2. /\ stop_seq_started' /\ stop_pc[e] = "called"
      /\ UNCHANGED <<spc, stop_requested, stop_seq_complete, started, start_pc, gpu, joined, raced>>
  BY <1>1 DEF StopElect, sinkVars, sinkState
<1>3. PICK place \in {"queue", "waiting", "returned"} :
        /\ stop_pc' = [stop_pc EXCEPT ![e] = place]
        /\ place = "queue" => ~stop_seq_started
        /\ place = "waiting" => ~stop_seq_complete
        /\ place = "returned" => stop_seq_complete
  BY <1>1 DEF StopElect, LoserWaits, StopGoTo
<1>4. \A c \in Stoppers : stop_pc'[c] = IF c = e THEN place ELSE stop_pc[c]
  BY <1>1, <1>3 DEF StopInv, LifeType
<1>5. LifeType'
  BY <1>1, <1>2, <1>3 DEF StopInv, LifeType, StopPcs
<1>6. ElectionInv'
  BY <1>1, <1>2, <1>3, <1>4 DEF StopInv, ElectionInv, SequencePcs
<1>7. SpawnInv' /\ QuietInv'
  BY <1>1, <1>2, <1>3, <1>4 DEF StopInv, SpawnInv, QuietInv, GpuGone, SinkGone
<1>8. QED BY <1>5, <1>6, <1>7 DEF StopInv

\* The sequence joins each thread that runs before it is past it.
LEMMA SequenceKeepsQuiet ==
  ASSUME NEW e \in Stoppers
  PROVE  StopInv /\ (StopQueue(e) \/ StopSinkFlag(e) \/ StopSinkQueue(e) \/ StopFlag(e)
                       \/ StopJoinGpu(e) \/ StopJoinSink(e)) => StopInv'
<1>1. SUFFICES ASSUME StopInv, StopQueue(e) \/ StopSinkFlag(e) \/ StopSinkQueue(e) \/ StopFlag(e)
                                 \/ StopJoinGpu(e) \/ StopJoinSink(e)
               PROVE  StopInv'
  OBVIOUS
<1>2. UNCHANGED <<spc, stop_requested, stop_seq_started, stop_seq_complete, started, start_pc, gpu, raced>>
  BY <1>1 DEF StopQueue, StopSinkFlag, StopSinkQueue, StopFlag, StopJoinGpu, StopJoinSink, sinkVars, sinkState
<1>3. PICK place \in SequencePcs :
        /\ stop_pc' = [stop_pc EXCEPT ![e] = place] /\ stop_pc[e] \in SequencePcs
        /\ place = "joinSink" => StopJoinGpu(e)
        /\ place = "complete" => StopJoinSink(e)
  BY <1>1 DEF SequencePcs, StopGoTo, StopQueue, StopSinkFlag, StopSinkQueue, StopFlag, StopJoinGpu,
              StopJoinSink
<1>4. \A c \in Stoppers : stop_pc'[c] = IF c = e THEN place ELSE stop_pc[c]
  BY <1>1, <1>3 DEF StopInv, LifeType
<1>5. LifeType'
  BY <1>1, <1>2, <1>3 DEF StopInv, LifeType, StopPcs, SequencePcs
<1>6. ElectionInv'
  BY <1>1, <1>2, <1>3, <1>4 DEF StopInv, ElectionInv, SequencePcs
<1>7. joined \subseteq joined' /\ SpawnInv'
  BY <1>1, <1>2 DEF StopInv, SpawnInv, StopQueue, StopSinkFlag, StopSinkQueue, StopFlag, StopJoinGpu,
                    StopJoinSink, JoinsSink
<1>8. place = "joinSink" => GpuGone'
  BY <1>1, <1>2, <1>3 DEF StopInv, SpawnInv, StopJoinGpu, GpuGone
<1>9. place = "complete" => raced \/ (GpuGone' /\ SinkGone')
  BY <1>1, <1>2, <1>3 DEF StopInv, QuietInv, StopJoinSink, JoinsSink, GpuGone, SinkGone
<1>10. QuietInv'
  BY <1>1, <1>2, <1>3, <1>4, <1>7, <1>8, <1>9 DEF StopInv, QuietInv, GpuGone, SinkGone
<1>11. QED BY <1>5, <1>6, <1>7, <1>10 DEF StopInv

\* At its end everyone who waited returns.
LEMMA CompleteKeepsQuiet == ASSUME NEW e \in Stoppers PROVE StopInv /\ StopComplete(e) => StopInv'
<1>1. SUFFICES ASSUME StopInv, StopComplete(e) PROVE StopInv'
  OBVIOUS
<1>2. /\ stop_seq_complete' /\ stop_pc[e] = "complete"
      /\ UNCHANGED <<spc, stop_requested, stop_seq_started, started, start_pc, gpu, joined, raced>>
  BY <1>1 DEF StopComplete, sinkVars, sinkState
<1>3. \A c \in Stoppers :
        stop_pc'[c] = IF c = e \/ stop_pc[c] = "waiting" THEN "returned" ELSE stop_pc[c]
  BY <1>1 DEF StopComplete, CompleteAndNotify
<1>4. LifeType'
  BY <1>1, <1>2 DEF StopInv, LifeType, StopPcs, StopComplete, CompleteAndNotify
<1>5. \A c \in Stoppers : stop_pc'[c] \notin SequencePcs \cup {"waiting"}
  BY <1>1, <1>2, <1>3 DEF StopInv, ElectionInv, SequencePcs
<1>6. ElectionInv'
  BY <1>1, <1>2, <1>3, <1>5 DEF StopInv, ElectionInv, SequencePcs
<1>7. SpawnInv' /\ QuietInv'
  BY <1>1, <1>2, <1>5 DEF StopInv, SpawnInv, QuietInv, GpuGone, SinkGone, SequencePcs
<1>8. QED BY <1>4, <1>6, <1>7 DEF StopInv

\* The destructor, once returned, frees what nobody uses.
LEMMA DestroyKeepsQuiet == StopInv /\ Destroy => StopInv'
<1>1. SUFFICES ASSUME StopInv, Destroy PROVE StopInv'
  OBVIOUS
<1>2. /\ stop_pc' = [stop_pc EXCEPT ![Destructor] = "freed"] /\ stop_pc[Destructor] = "returned"
      /\ UNCHANGED <<spc, stop_requested, stop_seq_started, stop_seq_complete, started, start_pc,
                     gpu, joined, raced>>
  BY <1>1 DEF Destroy, StopGoTo, sinkVars, sinkState
<1>3. \A c \in Stoppers : stop_pc'[c] = IF c = Destructor THEN "freed" ELSE stop_pc[c]
  BY <1>1, <1>2 DEF StopInv, LifeType
<1>4. LifeType'
  BY <1>1, <1>2 DEF StopInv, LifeType, StopPcs
<1>5. ElectionInv'
  BY <1>1, <1>2, <1>3 DEF StopInv, ElectionInv, SequencePcs, Stoppers
<1>6. SpawnInv' /\ QuietInv'
  BY <1>1, <1>2, <1>3 DEF StopInv, SpawnInv, QuietInv, GpuGone, SinkGone
<1>7. QED BY <1>4, <1>5, <1>6 DEF StopInv

\* Every step preserves the invariants.
LEMMA NextInv == StopInv /\ LineInv /\ [Next]_allVars => StopInv' /\ LineInv'
<1>1. SUFFICES ASSUME StopInv, LineInv, [Next]_allVars PROVE StopInv' /\ LineInv'
  OBVIOUS
<1>2. LineInv'
  BY <1>1, LineNext DEF StopInv
<1>3. CASE UNCHANGED allVars
  <2>1. UNCHANGED <<stop_requested, stop_seq_started, stop_seq_complete, started, start_pc, stop_pc,
                    gpu, joined, raced, spc>>
    BY <1>3 DEF allVars, lifeVars, sinkVars, sinkState
  <2>2. LifeType' /\ ElectionInv'
    BY <1>1, <2>1 DEF StopInv, LifeType, ElectionInv
  <2>3. SpawnInv' /\ QuietInv'
    BY <1>1, <2>1 DEF StopInv, SpawnInv, QuietInv, GpuGone, SinkGone
  <2>4. QED BY <1>2, <2>2, <2>3 DEF StopInv
<1>4. ASSUME NEW c \in Stoppers, StopCalled(c) \/ StopStep(c) PROVE StopInv'
  BY <1>1, <1>4, CallKeepsQuiet, ElectKeepsQuiet, SequenceKeepsQuiet, CompleteKeepsQuiet DEF StopStep
<1>5. QED BY <1>1, <1>2, <1>3, <1>4, StartKeepsQuiet, ThreadsKeepQuiet, DestroyKeepsQuiet DEF Next

-----------------------------------------------------------------------------
(* Theorems *)

\* One caller runs the sequence, threads are spawned once, and lines are counted.
THEOREM LifecycleInvariant == Spec => [](StopInv /\ LineInv)
  BY InitInv, NextInv, PTL DEF Spec

\* No line of the sink is lost but those that its counter, or a failed write, accounts for.
THEOREM LinesAreAccounted == Spec => []LinesAccounted
<1>1. LineInv => LinesAccounted
  <2>1. SUFFICES ASSUME LineInv PROVE LinesCounted /\ LinesInOrder
    BY DEF LinesAccounted
  <2>2. Queued + LostTail = Len(lines) /\ Queued \in Int /\ LostTail \in Nat
    BY <2>1 DEF LineInv, NumbersTyped, Queued, LostTail
  <2>3. LinesCounted
    BY <2>1, <2>2 DEF LineInv, NumbersTyped, AllCounted, LinesCounted, InHand
  <2>4. QED BY <2>1, <2>3 DEF LineInv
<1>2. QED BY <1>1, LifecycleInvariant, PTL

\* However many threads call Stop(): who gets it back finds every thread ended and joined.
THEOREM StopLeavesQuiet == Spec => []StopReturnsQuiet
<1>1. StopInv => StopReturnsQuiet
  <2>1. SUFFICES ASSUME StopInv, ~raced, NEW c \in Stoppers, stop_pc[c] \in {"returned", "freed"}
                 PROVE  gpu # "running" /\ spc \in {"unborn", "done"} /\ Joinable = {}
    BY DEF StopReturnsQuiet
  <2>2. GpuGone /\ SinkGone
    BY <2>1 DEF StopInv, ElectionInv, QuietInv
  <2>3. QED BY <2>1, <2>2 DEF StopInv, SpawnInv, GpuGone, SinkGone, Joinable
<1>2. QED BY <1>1, LifecycleInvariant, PTL
=============================================================================
