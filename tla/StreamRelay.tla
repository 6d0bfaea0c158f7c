---------------------------- MODULE StreamRelay ----------------------------
(***************************************************************************)
(* A StreamRelay sink (RelaySinkLoop, pipeline.cpp): it follows one        *)
(* stream's PacketRing by push number, rewrites the timestamps so that the *)
(* published timeline keeps climbing, and reconnects after any failure.    *)
(* Pacing only delays a write, so its sleeps are not told apart.           *)
(***************************************************************************)
EXTENDS PacketRing

CONSTANT FirstDelta     \* the guess last_delta_us starts with

ASSUME StreamRelayAssumption == FirstDelta \in Nat \ {0}

VARIABLES
  relay_stopping,       \* RelaySink::stopping
  relay_pc,                  \* where RelaySinkLoop stands (see RelayPcs)
  batch,                \* packets of the snapshot still to be sent
  last_sent,            \* last_sent_seq
  out_offset, last_out, last_delta,
  sent                  \* the packets written: number, keyframe, pts (history)

timeline == <<out_offset, last_out, last_delta>>
relayState == <<relay_stopping, relay_pc, batch, last_sent, timeline, sent>>
relayVars == <<ringState, relayState>>

\* top: at the outer loop's condition; poll: at the inner loop's; done: returned.
RelayPcs == {"top", "connect", "poll", "send", "write", "backoff", "done"}

RelayTypeOK ==
  /\ RingTypeOK
  /\ relay_stopping \in BOOLEAN
  /\ relay_pc \in RelayPcs
  /\ batch \in Seq(Packets)
  /\ last_sent \in 0..MaxPackets
  /\ out_offset \in Int /\ last_out \in Nat \cup {NoPts} /\ last_delta \in Nat \ {0}
  /\ sent \in Seq([seq : 1..MaxPackets, key : BOOLEAN, out : Nat \cup {NoPts}])

RelayInit ==
  /\ RingInit
  /\ relay_stopping = FALSE
  /\ relay_pc = "top" /\ batch = <<>>
  /\ last_sent = 0
  /\ out_offset = 0 /\ last_out = NoPts /\ last_delta = FirstDelta
  /\ sent = <<>>

-----------------------------------------------------------------------------
RelayTop ==
  /\ relay_pc = "top"
  /\ relay_pc' = IF relay_stopping THEN "done" ELSE "connect"
  /\ UNCHANGED <<ringState, relay_stopping, batch, last_sent, timeline, sent>>

RestartTimeline ==                                              \* mutant
  out_offset' = 0 /\ last_out' = NoPts /\ last_delta' = FirstDelta

KeepTimeline == UNCHANGED timeline

\* Without codec parameters, or when the target refuses, the attempt has failed.
Connect ==
  /\ relay_pc = "connect"
  /\ \/ opened /\ relay_pc' = "poll"
     \/ relay_pc' = "backoff"
  /\ KeepTimeline
  /\ UNCHANGED <<ringState, relay_stopping, batch, last_sent, sent>>

\* The inner loop: what the ring has got that was not sent yet.
PollRing ==
  /\ relay_pc = "poll"
  /\ IF relay_stopping THEN relay_pc' = "top" /\ UNCHANGED batch
     ELSE relay_pc' = "send" /\ batch' = SnapshotSinceSeq(last_sent)
  /\ UNCHANGED <<ringState, relay_stopping, last_sent, timeline, sent>>

\* Sent, or told to stop: sleep 20 ms and look again.
BatchDone ==
  /\ relay_pc = "send"
  /\ batch = <<>> \/ relay_stopping
  /\ relay_pc' = "poll"
  /\ batch' = <<>>
  /\ UNCHANGED <<ringState, relay_stopping, last_sent, timeline, sent>>

\* The source's timestamps went back: continue one step after the last output.
Rebased(p) == last_out >= 0 /\ p.pts + out_offset <= last_out

OffsetFor(p) ==
  IF Rebased(p) THEN last_out + last_delta - p.pts ELSE out_offset

\* Rebase if need be, and wait until the packet is due; told to stop during that
\* wait the thread still writes it.
BeginPacket ==
  /\ relay_pc = "send" /\ batch # <<>> /\ ~relay_stopping
  /\ out_offset' = OffsetFor(Head(batch))
  /\ relay_pc' = "write"
  /\ UNCHANGED <<ringState, relay_stopping, batch, last_sent, last_out, last_delta,
                 sent>>

WritePacket ==
  /\ relay_pc = "write"
  /\ LET p == Head(batch)
         out == p.pts + out_offset IN
       /\ last_delta' = IF last_out >= 0 THEN out - last_out ELSE last_delta
       /\ last_out' = out
       /\ last_sent' = p.seq
       /\ sent' = Append(sent, [seq |-> p.seq, key |-> p.key, out |-> out])
  /\ batch' = Tail(batch)
  /\ relay_pc' = "send"
  /\ UNCHANGED <<ringState, relay_stopping, out_offset>>

\* The new offset is kept; the packet counts as not sent.
WriteFails ==
  /\ relay_pc = "write"
  /\ relay_pc' = "backoff"
  /\ batch' = <<>>
  /\ UNCHANGED <<ringState, relay_stopping, last_sent, timeline, sent>>

Backoff ==
  /\ relay_pc = "backoff"
  /\ relay_pc' = "top"
  /\ UNCHANGED <<ringState, relay_stopping, batch, last_sent, timeline, sent>>

RelayStop ==
  /\ ~relay_stopping
  /\ relay_stopping' = TRUE
  /\ UNCHANGED <<ringState, relay_pc, batch, last_sent, timeline, sent>>

RelayStep ==
  \/ RelayTop \/ Connect \/ PollRing \/ BatchDone
  \/ BeginPacket \/ WritePacket \/ WriteFails \/ Backoff

ProducerStep == (SetCodecParameters \/ PushPacket) /\ UNCHANGED relayState

RelayNext == ProducerStep \/ RelayStep \/ RelayStop

RelaySpec == RelayInit /\ [][RelayNext]_relayVars

-----------------------------------------------------------------------------
\* A packet is published at most once and in order, however many connections it
\* takes: reconnecting resumes, it does not replay.
SentInOrder ==
  \A i, j \in DOMAIN sent : i < j => sent[i].seq < sent[j].seq

\* Once a timestamp was published every later one is greater, across wraps of the
\* source's pts, packets without one and reconnects (the muxer's "non
\* monotonically increasing dts" the rebasing was introduced for).
OutputClimbs ==
  \A i, j \in DOMAIN sent :
    i < j /\ sent[i].out >= 0 => sent[i].out < sent[j].out

\* A relay that fell behind the ring resumes at a keyframe: the only packets it
\* ever leaves out are whole groups of pictures the ring had let go of.
GapResumesAtKeyframe ==
  \A j \in DOMAIN sent :
    LET before == IF j = 1 THEN 0 ELSE sent[j - 1].seq IN
    sent[j].seq # before + 1 => sent[j].key

\* What a viewer of the published stream sees of all the reconnects: one stream.
PublishedSeamlessly == SentInOrder /\ OutputClimbs /\ GapResumesAtKeyframe
=============================================================================
