----------------------------- MODULE PacketRing ----------------------------
(***************************************************************************)
(* The per-stream ring of compressed packets (packet_ring.h) that relays   *)
(* and clips are made from.  A packet keeps its push number, source pts,   *)
(* arrival time and keyframe flag; its bytes are left out.  Time is in     *)
(* whole units, pts_us = -1 is NOPTS.                                      *)
(***************************************************************************)
EXTENDS Integers, Sequences, FiniteSets, SequencesExt

CONSTANTS
  RingSeconds,      \* ring_seconds_
  MaxPackets,       \* bound: packets the camera sends
  MaxGap            \* bound: time between two of them

ASSUME PacketRingAssumption ==
  /\ RingSeconds \in Nat \ {0}
  /\ MaxPackets \in Nat \ {0} /\ MaxGap \in Nat

VARIABLES
  opened,           \* SetCodecParameters was called
  pkts,             \* pkts_
  history           \* every packet ever pushed (history)

ringState == <<opened, pkts, history>>

NoPts == -1
Times == 0..(MaxGap * MaxPackets)
Packets == [seq : 1..MaxPackets, pts : Times \cup {NoPts}, at : Times, key : BOOLEAN]

RingTypeOK ==
  /\ opened \in BOOLEAN
  /\ pkts \in Seq(Packets) /\ history \in Seq(Packets)
  /\ IsSuffix(pkts, history)

RingInit == opened = FALSE /\ pkts = <<>> /\ history = <<>>

-----------------------------------------------------------------------------
\* The keyframes old enough to start the ring at.
OldKeys(s) ==
  {i \in DOMAIN s : s[i].key /\ s[i].at <= Last(s).at - RingSeconds}

TrimToWindow(s) ==                                              \* mutant
  SelectSeq(s, LAMBDA p : p.at >= Last(s).at - RingSeconds)

\* TrimLocked: keep from the last keyframe that is at least ring_seconds old; keep
\* everything when there is none.
Trim(s) ==
  IF OldKeys(s) = {} THEN s ELSE SubSeq(s, Max(OldKeys(s)), Len(s))

\* Called for every demuxer that is opened.
SetCodecParameters == opened' = TRUE /\ UNCHANGED <<pkts, history>>

\* One demuxed packet; the source's pts may be missing, true, or restart at 0.
PushPacket ==
  /\ opened
  /\ Len(history) < MaxPackets
  /\ \E gap \in 0..MaxGap, key \in BOOLEAN :
       LET at == IF history = <<>> THEN 0 ELSE Last(history).at + gap IN
       \E pts \in {NoPts, 0, at} :
         LET p == [seq |-> Len(history) + 1, pts |-> pts, at |-> at, key |-> key] IN
         /\ pkts' = Trim(Append(pkts, p))
         /\ history' = Append(history, p)
  /\ UNCHANGED opened

\* The packets newer than last, which are the end of the ring: they stand in push order.
SnapshotSinceSeq(last) ==
  LET newer == {i \in DOMAIN pkts : last = 0 \/ pkts[i].seq > last} IN
  IF newer = {} THEN <<>> ELSE SubSeq(pkts, Min(newer), Len(pkts))

-----------------------------------------------------------------------------
(* ExtractClip *)

KeysOf(s) == {i \in DOMAIN s : s[i].key}

\* The keyframes a clip that goes back to cutoff may start at.
KeysUpTo(s, cutoff) == {i \in KeysOf(s) : s[i].pts >= 0 /\ s[i].pts <= cutoff}

\* 0 for none, where the code says -1.
FindAnchor(s, cutoff) ==
  IF KeysUpTo(s, cutoff) # {} THEN Max(KeysUpTo(s, cutoff))
  ELSE IF KeysOf(s) # {} THEN Min(KeysOf(s)) ELSE 0

\* What ExtractClip writes to the file.
Clip(back) ==
  LET anchor == FindAnchor(pkts, Last(pkts).pts - back) IN
  IF pkts = <<>> \/ anchor = 0 THEN <<>> ELSE SubSeq(pkts, anchor, Len(pkts))

-----------------------------------------------------------------------------
TruePts == \A i \in DOMAIN history : history[i].pts = history[i].at

\* A clip is decodable, and on a source with true timestamps it goes back as far
\* as it was asked to, up to ring_seconds, whenever the camera had sent a keyframe
\* by then: TrimLocked never removes the keyframe FindAnchor needs.
ClipCoversWindow ==
  \A back \in 0..RingSeconds :
    /\ Clip(back) # <<>> => Head(Clip(back)).key
    /\ TruePts =>
         \A i \in KeysOf(history) :
           history[i].at <= Last(history).at - back
             => Clip(back) # <<>> /\ Head(Clip(back)).at <= Last(history).at - back
=============================================================================
