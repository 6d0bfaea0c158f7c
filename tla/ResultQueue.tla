---------------------------- MODULE ResultQueue ----------------------------
(***************************************************************************)
(* The bounded queue between the GPU thread, its only pusher, and the      *)
(* threads that call Pipeline::Poll (class ResultQueue, pipeline.cpp).     *)
(* Backpressure::Block makes Push sleep on cv_push_ while the queue is     *)
(* full, DropOldest evicts the front instead; Stop() turns pushes into     *)
(* silent drops; Poll sleeps on cv_pop_ up to its timeout.                 *)
(***************************************************************************)
EXTENDS Naturals, Sequences, FiniteSets

CONSTANTS
  Results,      \* the FrameResults that can be pushed
  NoResult,
  Capacity,     \* capacity_
  Modes,        \* the values of drop_oldest to start from
  Pollers,      \* threads that call Poll
  MaxPushes     \* bound on the Push calls of a run

ASSUME CapacityAssumption == Capacity \in Nat \ {0}
ASSUME ModesAssumption == Modes \subseteq BOOLEAN
ASSUME MaxPushesAssumption == MaxPushes \in Nat

VARIABLES
  q,            \* q_
  dropped,      \* dropped_
  drop_oldest,  \* backpressure_ == Backpressure::DropOldest, set before the run
  q_stopping,   \* stopping_
  finished,     \* finished_
  pusher,       \* the GPU thread inside Push
  pushing,      \* the result of the Push in progress
  poll,         \* where each polling thread stands; Finished: what Poll returned
  pushes,       \* Push calls so far (history)
  popped,       \* results handed to consumers so far (history)
  discarded     \* results dropped because of Stop (history)

qvars == <<q, dropped, drop_oldest, q_stopping, finished, pusher, pushing, poll,
           pushes, popped, discarded>>

PusherStates == {"out", "asleep", "woken"}
PollStates == {"out", "asleep", "woken", "expired", "Finished"}

TypeOK ==
  /\ q \in Seq(Results) /\ Len(q) <= Capacity
  /\ dropped \in Nat /\ pushes \in Nat /\ popped \in Nat /\ discarded \in Nat
  /\ drop_oldest \in BOOLEAN
  /\ q_stopping \in BOOLEAN
  /\ finished \in BOOLEAN
  /\ pusher \in PusherStates
  /\ pushing \in Results \cup {NoResult}
  /\ poll \in [Pollers -> PollStates]

Init ==
  /\ q = <<>>
  /\ dropped = 0 /\ pushes = 0 /\ popped = 0 /\ discarded = 0
  /\ drop_oldest \in Modes
  /\ q_stopping = FALSE
  /\ finished = FALSE
  /\ pusher = "out"
  /\ pushing = NoResult
  /\ poll = [c \in Pollers |-> "out"]

-----------------------------------------------------------------------------
Full == Len(q) >= Capacity

NotifyNoPoller == UNCHANGED poll                                \* mutant

\* cv_pop_.notify_one: one of the threads asleep there, if any, is notified.
NotifyOnePoller ==
  LET sleepers == {c \in Pollers : poll[c] = "asleep"}
  IN  IF sleepers = {} THEN poll' = poll
      ELSE \E c \in sleepers : poll' = [poll EXCEPT ![c] = "woken"]

NotifyAllPollers ==
  poll' = [c \in Pollers |-> IF poll[c] = "asleep" THEN "woken" ELSE poll[c]]

\* Push(r) is called, or goes on with r after a wake-up.
InPush(r) ==
  \/ pusher = "out" /\ pushes < MaxPushes /\ ~finished
  \/ pusher = "woken" /\ pushing = r

CountPush == pushes' = IF pusher = "out" THEN pushes + 1 ELSE pushes

Leave == pusher' = "out" /\ pushing' = NoResult

\* Stop() was called: the result is destroyed, nobody counts it.
PushDiscard(r) ==
  /\ InPush(r)
  /\ q_stopping
  /\ discarded' = discarded + 1
  /\ Leave /\ CountPush
  /\ UNCHANGED <<q, dropped, drop_oldest, q_stopping, finished, poll, popped>>

PushRoom(r) ==
  /\ InPush(r)
  /\ ~q_stopping
  /\ ~Full
  /\ q' = Append(q, r)
  /\ NotifyOnePoller
  /\ Leave /\ CountPush
  /\ UNCHANGED <<dropped, drop_oldest, q_stopping, finished, popped, discarded>>

\* Mutants of PushEvict: without counting; in the evicted place.
PushEvictUncounted(r) ==
  /\ drop_oldest
  /\ InPush(r)
  /\ ~q_stopping
  /\ Full
  /\ q' = Append(Tail(q), r)
  /\ NotifyOnePoller
  /\ Leave /\ CountPush
  /\ UNCHANGED <<dropped, drop_oldest, q_stopping, finished, popped, discarded>>

PushEvictInPlace(r) ==
  /\ drop_oldest
  /\ InPush(r)
  /\ ~q_stopping
  /\ Full
  /\ q' = <<r>> \o Tail(q)
  /\ dropped' = dropped + 1
  /\ NotifyOnePoller
  /\ Leave /\ CountPush
  /\ UNCHANGED <<drop_oldest, q_stopping, finished, popped, discarded>>

PushEvict(r) ==
  /\ drop_oldest
  /\ InPush(r)
  /\ ~q_stopping
  /\ Full
  /\ q' = Append(Tail(q), r)
  /\ dropped' = dropped + 1
  /\ NotifyOnePoller
  /\ Leave /\ CountPush
  /\ UNCHANGED <<drop_oldest, q_stopping, finished, popped, discarded>>

PushWait(r) ==
  /\ ~drop_oldest
  /\ InPush(r)
  /\ ~q_stopping
  /\ Full
  /\ pusher' = "asleep"
  /\ pushing' = r
  /\ CountPush
  /\ UNCHANGED <<q, dropped, drop_oldest, q_stopping, finished, poll, popped, discarded>>

Push(r) == PushDiscard(r) \/ PushRoom(r) \/ PushEvict(r) \/ PushWait(r)

LeavePusher == UNCHANGED pusher                                 \* mutant

WakePusher == pusher' = IF pusher = "asleep" THEN "woken" ELSE pusher

MarkFinished ==
  /\ pusher = "out"
  /\ ~finished
  /\ finished' = TRUE
  /\ NotifyAllPollers
  /\ UNCHANGED <<q, dropped, drop_oldest, q_stopping, pusher, pushing, pushes, popped,
                 discarded>>

QueueStop ==
  /\ ~q_stopping
  /\ q_stopping' = TRUE
  /\ WakePusher
  /\ NotifyAllPollers
  /\ UNCHANGED <<q, dropped, drop_oldest, finished, pushing, pushes, popped, discarded>>

-----------------------------------------------------------------------------
PollReady == q # <<>> \/ finished \/ q_stopping

\* A thread is in Poll's critical section when it calls it, is notified there, or
\* its timeout expires.  Poll may be called again whatever it returned.
InPoll(c) == poll[c] # "asleep"

PollOk(c) ==
  /\ InPoll(c)
  /\ q # <<>>
  /\ q' = Tail(q)
  /\ popped' = popped + 1
  /\ poll' = [poll EXCEPT ![c] = "out"]
  /\ WakePusher
  /\ UNCHANGED <<dropped, drop_oldest, q_stopping, finished, pushing, pushes, discarded>>

\* Poll returns something else than Ok, or falls asleep: only poll[c] changes.
PollMoves(c, place) ==
  /\ poll' = [poll EXCEPT ![c] = place]
  /\ UNCHANGED <<q, dropped, drop_oldest, q_stopping, finished, pusher, pushing,
                 pushes, popped, discarded>>

PollFinishedFirst(c) == InPoll(c) /\ (finished \/ q_stopping)     \* mutant
                          /\ PollMoves(c, "Finished")

PollFinished(c) == InPoll(c) /\ PollReady /\ q = <<>> /\ PollMoves(c, "Finished")

PollWait(c) == InPoll(c) /\ poll[c] # "expired" /\ ~PollReady /\ PollMoves(c, "asleep")

PollTimeout(c) == poll[c] = "expired" /\ ~PollReady /\ PollMoves(c, "out")

Expire(c) == poll[c] \in {"asleep", "woken"} /\ PollMoves(c, "expired")

PollStep(c) == PollOk(c) \/ PollFinished(c) \/ PollWait(c) \/ PollTimeout(c)

SpuriousPusher ==
  /\ pusher = "asleep"
  /\ WakePusher
  /\ UNCHANGED <<q, dropped, drop_oldest, q_stopping, finished, pushing, poll, pushes,
                 popped, discarded>>

-----------------------------------------------------------------------------
PusherStep == MarkFinished \/ \E r \in Results : Push(r)

Next ==
  \/ PusherStep
  \/ QueueStop
  \/ \E c \in Pollers : PollStep(c) \/ Expire(c)
  \/ SpuriousPusher

Spec == Init /\ [][Next]_qvars

-----------------------------------------------------------------------------
\* Every result pushed is accounted for: handed out, still queued, evicted and
\* counted in DroppedResults, thrown away by Stop, or in the blocked Push.  In
\* Block mode nothing is ever evicted, and before Stop nothing is thrown away.
NothingVanishes ==
  /\ pushes = popped + Len(q) + dropped + discarded
                + (IF pusher = "out" THEN 0 ELSE 1)
  /\ ~drop_oldest => dropped = 0
  /\ ~q_stopping => discarded = 0

\* Finished is final: once any Poll returned it no Poll returns Ok again, even if
\* the GPU thread is still pushing the rest of its last batch.
FinishedIsFinal ==
  [][(\E c \in Pollers : poll[c] = "Finished") => popped' = popped]_qvars
=============================================================================
