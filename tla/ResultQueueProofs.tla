------------------------- MODULE ResultQueueProofs -------------------------
(***************************************************************************)
(* Proofs about ResultQueue for any capacity, any number of pollers and    *)
(* pushes, in both modes.  Neither property is inductive alone: that       *)
(* Finished is final needs that a finished run has no Push in progress,    *)
(* and the count needs the typing of the queue it counts.                  *)
(***************************************************************************)
EXTENDS ResultQueue, TLAPS

\* The facts that make NothingVanishes and FinishedIsFinal inductive.
QueueInv ==
  /\ TypeOK
  /\ pusher # "out" => pushing \in Results
  /\ finished => pusher = "out"
  /\ NothingVanishes
  /\ (\E c \in Pollers : poll[c] = "Finished") => q = <<>> /\ (finished \/ q_stopping)

USE CapacityAssumption, ModesAssumption, MaxPushesAssumption

-----------------------------------------------------------------------------
\* Notifying one poller keeps the typing and makes no thread Finished.
LEMMA NotifyOneFacts ==
  ASSUME poll \in [Pollers -> PollStates], NotifyOnePoller
  PROVE  /\ poll' \in [Pollers -> PollStates]
         /\ \A c \in Pollers : poll'[c] = "Finished" => poll[c] = "Finished"
  BY DEF NotifyOnePoller, PollStates

\* Notifying all of them neither.
LEMMA NotifyAllFacts ==
  ASSUME poll \in [Pollers -> PollStates], NotifyAllPollers
  PROVE  /\ poll' \in [Pollers -> PollStates]
         /\ \A c \in Pollers : poll'[c] = "Finished" => poll[c] = "Finished"
  BY DEF NotifyAllPollers, PollStates

\* What queueing a result does to a queue with room.
LEMMA AppendRoom ==
  ASSUME NEW S, NEW s \in Seq(S), NEW x \in S
  PROVE  Append(s, x) \in Seq(S) /\ Len(Append(s, x)) = Len(s) + 1
  OBVIOUS

\* What evicting the front and queueing a result does to a full queue.
LEMMA AppendTail ==
  ASSUME NEW S, NEW s \in Seq(S), NEW x \in S, s # <<>>
  PROVE  /\ Append(Tail(s), x) \in Seq(S)
         /\ Len(Append(Tail(s), x)) = Len(s)
         /\ Tail(s) \in Seq(S) /\ Len(Tail(s)) = Len(s) - 1 /\ Len(s) \in Nat \ {0}
         /\ Head(s) \in S
<1>1. Tail(s) \in Seq(S) /\ Len(Tail(s)) = Len(s) - 1 /\ Len(s) \in Nat \ {0} /\ Head(s) \in S
  OBVIOUS
<1>2. Append(Tail(s), x) \in Seq(S) /\ Len(Append(Tail(s), x)) = Len(Tail(s)) + 1
  BY <1>1
<1>. QED BY <1>1, <1>2

-----------------------------------------------------------------------------
\* Push, in each of its four outcomes.
LEMMA PushKeeps ==
  ASSUME QueueInv, NEW x \in Results, Push(x)
  PROVE  QueueInv'
<1>. USE DEF QueueInv, TypeOK, NothingVanishes
<1>1. pusher \in {"out", "woken"} /\ (pusher = "out" => ~finished)
  BY DEF Push, PushDiscard, PushRoom, PushEvict, PushWait, InPush, PusherStates
<1>2. CASE PushDiscard(x)
  BY <1>1, <1>2 DEF PushDiscard, InPush, CountPush, Leave, PusherStates
<1>3. CASE PushRoom(x)
  <2>1. q' \in Seq(Results) /\ Len(q') = Len(q) + 1 /\ Len(q') <= Capacity
    <3>1. Append(q, x) \in Seq(Results) /\ Len(Append(q, x)) = Len(q) + 1
      BY AppendRoom
    <3>. QED BY <1>3, <3>1 DEF PushRoom, Full
  <2>2. /\ poll' \in [Pollers -> PollStates]
        /\ \A c \in Pollers : poll'[c] = "Finished" => poll[c] = "Finished"
    BY <1>3, NotifyOneFacts DEF PushRoom
  <2>3. ~\E c \in Pollers : poll[c] = "Finished"
    BY <1>1, <1>3 DEF PushRoom
  <2>. QED BY <1>1, <1>3, <2>1, <2>2, <2>3 DEF PushRoom, InPush, CountPush, Leave, PusherStates
<1>4. CASE PushEvict(x)
  <2>1. q' \in Seq(Results) /\ Len(q') = Len(q)
    <3>1. q # <<>>
      BY <1>4 DEF PushEvict, Full
    <3>. QED BY <1>4, <3>1, AppendTail DEF PushEvict
  <2>2. /\ poll' \in [Pollers -> PollStates]
        /\ \A c \in Pollers : poll'[c] = "Finished" => poll[c] = "Finished"
    BY <1>4, NotifyOneFacts DEF PushEvict
  <2>3. ~\E c \in Pollers : poll[c] = "Finished"
    BY <1>1, <1>4 DEF PushEvict
  <2>. QED BY <1>1, <1>4, <2>1, <2>2, <2>3 DEF PushEvict, InPush, CountPush, Leave, PusherStates
<1>5. CASE PushWait(x)
  BY <1>1, <1>5 DEF PushWait, InPush, CountPush, PusherStates
<1>. QED BY <1>2, <1>3, <1>4, <1>5 DEF Push

\* The end of the run and Stop.
LEMMA FlagsKeep ==
  ASSUME QueueInv, MarkFinished \/ QueueStop
  PROVE  QueueInv'
<1>. USE DEF QueueInv, TypeOK, NothingVanishes
<1>1. /\ poll' \in [Pollers -> PollStates]
      /\ \A c \in Pollers : poll'[c] = "Finished" => poll[c] = "Finished"
  BY NotifyAllFacts DEF MarkFinished, QueueStop
<1>2. CASE MarkFinished
  BY <1>1, <1>2 DEF MarkFinished
<1>3. CASE QueueStop
  BY <1>1, <1>3 DEF QueueStop, WakePusher, PusherStates
<1>. QED BY <1>2, <1>3

\* Poll, in each of its outcomes, and its timeout.
LEMMA PollKeeps ==
  ASSUME QueueInv, NEW c \in Pollers, PollStep(c) \/ Expire(c)
  PROVE  QueueInv'
<1>. USE DEF QueueInv, TypeOK, NothingVanishes
<1>1. CASE PollOk(c)
  <2>1. q' \in Seq(Results) /\ Len(q') = Len(q) - 1
    BY <1>1, AppendTail DEF PollOk
  <2>2. ~\E d \in Pollers : poll[d] = "Finished"
    BY <1>1 DEF PollOk
  <2>3. /\ poll' \in [Pollers -> PollStates]
        /\ \A d \in Pollers : poll'[d] # "Finished"
    BY <1>1, <2>2 DEF PollOk, PollStates
  <2>. QED BY <1>1, <2>1, <2>3, SMTT(30) DEF PollOk, WakePusher, PusherStates
<1>2. ASSUME NEW place \in PollStates, PollMoves(c, place),
             place = "Finished" => PollReady /\ q = <<>>
      PROVE  QueueInv'
  BY <1>2 DEF PollMoves, PollStates, PollReady
<1>3. CASE PollFinished(c)
  BY <1>2, <1>3 DEF PollFinished, PollStates
<1>4. CASE PollWait(c)
  BY <1>2, <1>4 DEF PollWait, PollStates
<1>5. CASE PollTimeout(c)
  BY <1>2, <1>5 DEF PollTimeout, PollStates
<1>6. CASE Expire(c)
  BY <1>2, <1>6 DEF Expire, PollStates
<1>. QED BY <1>1, <1>3, <1>4, <1>5, <1>6 DEF PollStep

\* A wake-up of the pusher without a reason.
LEMMA SpuriousKeeps ==
  ASSUME QueueInv, SpuriousPusher
  PROVE  QueueInv'
  BY DEF QueueInv, TypeOK, NothingVanishes, SpuriousPusher, WakePusher, PusherStates

-----------------------------------------------------------------------------
\* The queue starts in the invariant.
LEMMA InitInv == Init => QueueInv
<1>. SUFFICES ASSUME Init PROVE QueueInv
  OBVIOUS
<1>1. TypeOK
  <2>1. q \in Seq(Results) /\ Len(q) <= Capacity
    BY DEF Init
  <2>2. drop_oldest \in BOOLEAN
    BY Zenon DEF Init
  <2>3. poll \in [Pollers -> PollStates]
    BY DEF Init, PollStates
  <2>. QED BY <2>1, <2>2, <2>3 DEF Init, TypeOK, PusherStates
<1>2. NothingVanishes
  BY DEF Init, NothingVanishes
<1>3. /\ pusher = "out" /\ ~finished
      /\ \A c \in Pollers : poll[c] # "Finished"
  BY DEF Init
<1>. QED BY <1>1, <1>2, <1>3 DEF QueueInv

\* Every step keeps it.
LEMMA StepInv == QueueInv /\ [Next]_qvars => QueueInv'
<1>. SUFFICES ASSUME QueueInv, [Next]_qvars PROVE QueueInv'
  OBVIOUS
<1>1. CASE UNCHANGED qvars
  BY <1>1 DEF QueueInv, TypeOK, NothingVanishes, qvars
<1>2. CASE Next
  BY <1>2, PushKeeps, FlagsKeep, PollKeeps, SpuriousKeeps DEF Next, PusherStep
<1>. QED BY <1>1, <1>2

\* Every result pushed is accounted for, whatever the capacity and the mode: handed
\* out, queued, evicted and counted, discarded by Stop or in the blocked Push.
THEOREM QueueLosesNothing == Spec => []NothingVanishes
<1>1. QueueInv => NothingVanishes
  BY DEF QueueInv
<1>. QED BY InitInv, StepInv, <1>1, PTL DEF Spec

\* After a Poll has answered Finished no Poll hands out a result.
THEOREM FinishedStaysFinal == Spec => FinishedIsFinal
<1>1. QueueInv /\ [Next]_qvars
        => [(\E c \in Pollers : poll[c] = "Finished") => popped' = popped]_qvars
  <2>. SUFFICES ASSUME QueueInv, [Next]_qvars, \E c \in Pollers : poll[c] = "Finished"
                PROVE  popped' = popped
    OBVIOUS
  <2>1. q = <<>>
    BY DEF QueueInv
  <2>. QED BY <2>1 DEF Next, PusherStep, Push, PushDiscard, PushRoom, PushEvict, PushWait,
                       MarkFinished, QueueStop, PollStep, PollOk, PollFinished, PollWait,
                       PollTimeout, PollMoves, Expire, SpuriousPusher, qvars
<1>. QED BY InitInv, StepInv, <1>1, PTL DEF Spec, FinishedIsFinal
=============================================================================
