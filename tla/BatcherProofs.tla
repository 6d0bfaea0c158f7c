--------------------------- MODULE BatcherProofs ---------------------------
(***************************************************************************)
(* Proofs about Batcher for any number of producers, buffers and slots.    *)
(* All the safety properties of Batcher together are inductive (IInv): the *)
(* counting of writers (StragglersAreWriters) is what makes a complete     *)
(* batch writer-free, the bookkeeping of places what lets a wake-up be     *)
(* traced to the one step that can make its condition true.  One lemma per *)
(* critical section, one step per conjunct.                                *)
(***************************************************************************)
EXTENDS Batcher, FiniteSetTheorems, TLAPS

-----------------------------------------------------------------------------
(* Sequences of buffers *)

\* The buffers in a queue.
RangeOf(s) == {s[i] : i \in DOMAIN s}

Distinct(s) == \A i, j \in DOMAIN s : s[i] = s[j] => i = j

\* What queueing one more full buffer does to pending.
LEMMA AppendFacts ==
  ASSUME NEW S, NEW s \in Seq(S), NEW x \in S
  PROVE  /\ Append(s, x) \in Seq(S)
         /\ RangeOf(Append(s, x)) = RangeOf(s) \cup {x}
         /\ x \notin RangeOf(s) /\ Distinct(s) => Distinct(Append(s, x))
         /\ Append(s, x) # <<>>
         /\ s # <<>> => Head(Append(s, x)) = Head(s)
<1>1. /\ Append(s, x) \in Seq(S)
      /\ Len(s) \in Nat
      /\ DOMAIN s = 1..Len(s)
      /\ DOMAIN Append(s, x) = 1..(Len(s) + 1)
      /\ \A i \in 1..Len(s) : Append(s, x)[i] = s[i]
      /\ Append(s, x)[Len(s) + 1] = x
  OBVIOUS
<1>2. RangeOf(Append(s, x)) = RangeOf(s) \cup {x}
  <2>1. ASSUME NEW i \in DOMAIN Append(s, x)
        PROVE  Append(s, x)[i] \in RangeOf(s) \cup {x}
    BY <1>1 DEF RangeOf
  <2>2. ASSUME NEW i \in DOMAIN s PROVE s[i] \in RangeOf(Append(s, x))
    <3>1. i \in DOMAIN Append(s, x) /\ Append(s, x)[i] = s[i]
      BY <1>1
    <3>. QED BY <3>1 DEF RangeOf
  <2>3. x \in RangeOf(Append(s, x))
    <3>1. Len(s) + 1 \in DOMAIN Append(s, x)
      BY <1>1
    <3>. QED BY <1>1, <3>1 DEF RangeOf
  <2>. QED BY <2>1, <2>2, <2>3 DEF RangeOf
<1>3. ASSUME x \notin RangeOf(s), Distinct(s) PROVE Distinct(Append(s, x))
  <2>1. SUFFICES ASSUME NEW i \in 1..(Len(s) + 1), NEW j \in 1..(Len(s) + 1),
                        Append(s, x)[i] = Append(s, x)[j]
                 PROVE  i = j
    BY <1>1 DEF Distinct
  <2>2. \A k \in 1..Len(s) : s[k] # x
    BY <1>1, <1>3 DEF RangeOf
  <2>3. \A k \in 1..(Len(s) + 1) : k \in 1..Len(s) \/ k = Len(s) + 1
    BY <1>1
  <2>. QED BY <1>1, <1>3, <2>1, <2>2, <2>3 DEF Distinct
<1>4. Append(s, x) # <<>>
  <2>1. 1 \in DOMAIN Append(s, x)
    BY <1>1
  <2>. QED BY <1>1, <2>1
<1>5. ASSUME s # <<>> PROVE Head(Append(s, x)) = Head(s)
  <2>1. 1 \in 1..Len(s) /\ Head(s) = s[1]
    BY <1>5
  <2>2. Head(Append(s, x)) = Append(s, x)[1]
    BY <1>1, <1>4
  <2>. QED BY <1>1, <2>1, <2>2
<1>. QED BY <1>1, <1>2, <1>3, <1>4, <1>5

\* What taking the oldest pending buffer does to pending.
LEMMA TailFacts ==
  ASSUME NEW S, NEW s \in Seq(S), s # <<>>
  PROVE  /\ Tail(s) \in Seq(S)
         /\ Head(s) \in S
         /\ Head(s) = s[1] /\ 1 \in DOMAIN s
         /\ RangeOf(s) = RangeOf(Tail(s)) \cup {Head(s)}
         /\ Distinct(s) => Distinct(Tail(s)) /\ Head(s) \notin RangeOf(Tail(s))
<1>1. /\ Tail(s) \in Seq(S) /\ Len(s) \in Nat \ {0}
      /\ Len(Tail(s)) = Len(s) - 1 /\ Head(s) = s[1] /\ Head(s) \in S
      /\ \A i \in 1..Len(Tail(s)) : Tail(s)[i] = s[i + 1]
  OBVIOUS
<1>2. DOMAIN s = 1..Len(s) /\ DOMAIN Tail(s) = 1..(Len(s) - 1)
  BY <1>1
<1>3. ASSUME NEW i \in DOMAIN Tail(s) PROVE i + 1 \in DOMAIN s /\ Tail(s)[i] = s[i + 1]
  BY <1>1, <1>2
<1>4. ASSUME NEW i \in DOMAIN s, i # 1
      PROVE  i - 1 \in DOMAIN Tail(s) /\ Tail(s)[i - 1] = s[i]
  <2>1. i \in 2..Len(s) /\ i - 1 \in 1..Len(Tail(s)) /\ (i - 1) + 1 = i
    BY <1>1, <1>2, <1>4
  <2>2. Tail(s)[i - 1] = s[(i - 1) + 1]
    BY <1>1, <2>1
  <2>. QED BY <1>1, <1>2, <2>1, <2>2
<1>5. RangeOf(s) = RangeOf(Tail(s)) \cup {Head(s)}
  <2>1. ASSUME NEW i \in DOMAIN s PROVE s[i] \in RangeOf(Tail(s)) \cup {Head(s)}
    BY <1>1, <1>4 DEF RangeOf
  <2>2. ASSUME NEW i \in DOMAIN Tail(s) PROVE Tail(s)[i] \in RangeOf(s)
    BY <1>3 DEF RangeOf
  <2>3. Head(s) \in RangeOf(s)
    BY <1>1, <1>2 DEF RangeOf
  <2>. QED BY <2>1, <2>2, <2>3 DEF RangeOf
<1>6. ASSUME Distinct(s) PROVE Distinct(Tail(s)) /\ Head(s) \notin RangeOf(Tail(s))
  <2>1. Distinct(Tail(s))
    <3>1. SUFFICES ASSUME NEW i \in DOMAIN Tail(s), NEW j \in DOMAIN Tail(s),
                          Tail(s)[i] = Tail(s)[j]
                   PROVE  i = j
      BY DEF Distinct
    <3>2. i + 1 = j + 1
      BY <1>3, <1>6, <3>1 DEF Distinct
    <3>. QED BY <1>2, <3>2
  <2>2. ASSUME NEW i \in DOMAIN Tail(s), Tail(s)[i] = Head(s) PROVE FALSE
    <3>1. i + 1 = 1
      BY <1>1, <1>2, <1>3, <1>6, <2>2 DEF Distinct
    <3>. QED BY <1>2, <3>1
  <2>. QED BY <2>1, <2>2 DEF RangeOf
<1>. QED BY <1>1, <1>2, <1>5, <1>6

-----------------------------------------------------------------------------
(* Sets of producers *)

\* Writers and the producers still counted, of any value of held and prod.
Holders(h, b) == {p \in Producers : h[p] = b}

Active(pr) == {p \in Producers : pr[p] # "done"}

\* The writers of a buffer can be counted.
LEMMA HoldersFinite ==
  ASSUME NEW h, NEW b
  PROVE  IsFiniteSet(Holders(h, b)) /\ Cardinality(Holders(h, b)) \in Nat
<1>1. Holders(h, b) \in SUBSET Producers
  BY DEF Holders
<1>. QED BY <1>1, ProducersAssumption, FS_Subset, FS_CardinalityType

\* One more producer claims a slot of b: b has one more writer.
LEMMA HoldersAdd ==
  ASSUME NEW h \in [Producers -> BufOrNone], NEW p \in Producers, h[p] = None,
         NEW b \in Bufs, NEW c \in Bufs
  PROVE  Cardinality(Holders([h EXCEPT ![p] = b], c))
           = Cardinality(Holders(h, c)) + (IF c = b THEN 1 ELSE 0)
<1>. DEFINE g == [h EXCEPT ![p] = b]
<1>1. None \notin Bufs /\ p \notin Holders(h, c)
  BY BufsAssumption DEF Holders
<1>2. CASE c = b
  <2>1. Holders(g, c) = Holders(h, c) \cup {p}
    BY <1>2 DEF Holders
  <2>. QED BY <1>1, <1>2, <2>1, HoldersFinite, FS_AddElement, ZenonT(60)
<1>3. CASE c # b
  <2>1. Holders(g, c) = Holders(h, c)
    BY <1>1, <1>3 DEF Holders
  <2>. QED BY <1>3, <2>1, HoldersFinite
<1>. QED BY <1>2, <1>3

\* A producer marks its slot ready: its buffer has one writer less.
LEMMA HoldersRemove ==
  ASSUME NEW h \in [Producers -> BufOrNone], NEW p \in Producers, h[p] \in Bufs,
         NEW c \in Bufs
  PROVE  Cardinality(Holders(h, c))
           = Cardinality(Holders([h EXCEPT ![p] = None], c))
               + (IF c = h[p] THEN 1 ELSE 0)
<1>. DEFINE g == [h EXCEPT ![p] = None]
<1>1. None \notin Bufs /\ p \notin Holders(g, c) /\ g[p] = None
  BY BufsAssumption DEF Holders
<1>2. CASE c = h[p]
  <2>1. Holders(h, c) = Holders(g, c) \cup {p}
    BY <1>1, <1>2 DEF Holders
  <2>. QED BY <1>1, <1>2, <2>1, HoldersFinite, FS_AddElement, ZenonT(60)
<1>3. CASE c # h[p]
  <2>1. Holders(h, c) = Holders(g, c)
    BY <1>1, <1>3 DEF Holders
  <2>. QED BY <1>3, <2>1, HoldersFinite
<1>. QED BY <1>2, <1>3

\* A buffer has no writer iff their number is 0.
LEMMA NoHolders ==
  ASSUME NEW h, NEW b
  PROVE  Cardinality(Holders(h, b)) = 0 <=> Holders(h, b) = {}
BY HoldersFinite, FS_EmptySet

\* active_producers counts the producers that have not called ProducerDone.
LEMMA ActiveFacts ==
  ASSUME NEW pr \in [Producers -> ProdStates]
  PROVE  /\ IsFiniteSet(Active(pr)) /\ Cardinality(Active(pr)) \in Nat
         /\ Cardinality(Active(pr)) <= Cardinality(Producers)
         /\ Cardinality(Active(pr)) = 0 <=> \A p \in Producers : pr[p] = "done"
<1>1. Active(pr) \in SUBSET Producers
  BY DEF Active
<1>2. /\ IsFiniteSet(Active(pr)) /\ Cardinality(Active(pr)) \in Nat
      /\ Cardinality(Active(pr)) <= Cardinality(Producers)
  BY <1>1, ProducersAssumption, FS_Subset, FS_CardinalityType
<1>3. Active(pr) = {} <=> \A p \in Producers : pr[p] = "done"
  BY DEF Active
<1>. QED BY <1>2, <1>3, FS_EmptySet

\* One ProducerDone call takes one producer out of that count.
LEMMA ActiveRemove ==
  ASSUME NEW pr \in [Producers -> ProdStates], NEW p \in Producers, pr[p] # "done"
  PROVE  Cardinality(Active(pr)) = Cardinality(Active([pr EXCEPT ![p] = "done"])) + 1
<1>. DEFINE qr == [pr EXCEPT ![p] = "done"]
<1>1. qr \in [Producers -> ProdStates] /\ p \notin Active(qr)
  BY DEF Active, ProdStates
<1>2. Active(pr) = Active(qr) \cup {p}
  BY DEF Active
<1>. QED BY <1>1, <1>2, ActiveFacts, FS_AddElement

\* What a notification of cv_ready does to the GPU thread, without CASE.
LEMMA NotifiedIs ==
  ASSUME NEW g
  PROVE  Notified(g) = IF g = "asleep" THEN "take"
                       ELSE IF g = "straggling" THEN "recheck" ELSE g
BY DEF Notified

-----------------------------------------------------------------------------
(* The inductive invariant *)

IInv ==
  /\ TypeOK
  /\ Bookkeeping
  /\ BuffersPartitioned
  /\ StragglersAreWriters
  /\ SlotsExclusive
  /\ BatchIsComplete
  /\ NoMissedWakeup
  /\ ExitMeansDrained

\* The parts of IInv in the form the steps below use.
LEMMA IInvFacts ==
  ASSUME IInv
  PROVE  /\ active_producers = Cardinality(Active(prod))
         /\ active_producers = 0 <=> \A p \in Producers : prod[p] = "done"
         /\ InPending = RangeOf(pending) /\ InPending \subseteq Bufs
         /\ \A b \in InPending : allocated[b] = MaxBatch
         /\ Distinct(pending)
         /\ None \notin Bufs /\ MaxBatch \in Nat \ {0}
<1>1. TypeOK /\ Bookkeeping /\ BuffersPartitioned /\ StragglersAreWriters
  BY DEF IInv
<1>3. /\ active_producers = Cardinality(Active(prod))
      /\ active_producers = 0 <=> \A p \in Producers : prod[p] = "done"
  BY <1>1, ActiveFacts DEF Bookkeeping, TypeOK, Active
<1>4. InPending = RangeOf(pending) /\ InPending \subseteq Bufs
  BY <1>1 DEF InPending, RangeOf, TypeOK
<1>5. (\A b \in InPending : allocated[b] = MaxBatch) /\ Distinct(pending)
  BY <1>1 DEF InPending, Bookkeeping, BuffersPartitioned, Distinct
<1>. QED BY <1>3, <1>4, <1>5, BufsAssumption, MaxBatchAssumption

\* The un-ready slots of a buffer are counted by its writers, so a buffer is
\* complete exactly when nobody writes into it.
LEMMA SlotCount ==
  ASSUME IInv, NEW b \in Bufs
  PROVE  /\ allocated[b] = ready[b] + Cardinality(Holders(held, b))
         /\ allocated[b] = ready[b] <=> Writers(b) = {}
<1>1. Writers(b) = Holders(held, b)
  BY DEF Writers, Holders
<1>2. ready[b] \in Nat /\ allocated[b] \in Nat
  BY DEF IInv, TypeOK
<1>3. allocated[b] = ready[b] + Cardinality(Holders(held, b))
  BY <1>1 DEF IInv, StragglersAreWriters
<1>4. Cardinality(Holders(held, b)) \in Nat
  BY HoldersFinite
<1>5. allocated[b] = ready[b] <=> Cardinality(Holders(held, b)) = 0
  BY <1>2, <1>3, <1>4
<1>. QED BY <1>1, <1>3, <1>5, NoHolders

\* The constructed batcher satisfies the inductive invariant.
LEMMA InitInv == Init => IInv
<1>. SUFFICES ASSUME Init PROVE IInv
  OBVIOUS
<1>. USE BufsAssumption, MaxBatchAssumption DEF Init
<1>1. TypeOK
  <2>1. active_producers \in 0..Cardinality(Producers)
    BY ProducersAssumption, FS_CardinalityType
  <2>2. filling \in BufOrNone /\ free_bufs \in SUBSET Bufs /\ taken \in BufOrNone
    BY DEF BufOrNone
  <2>3. pending \in Seq(Bufs) /\ gpu \in GpuStates
    BY DEF GpuStates
  <2>6. stopping \in BOOLEAN
    BY Zenon
  <2>4. /\ allocated \in [Bufs -> 0..MaxBatch] /\ ready \in [Bufs -> 0..MaxBatch]
        /\ slot \in [Producers -> 0..(MaxBatch - 1)]
    OBVIOUS
  <2>5. prod \in [Producers -> ProdStates] /\ held \in [Producers -> BufOrNone]
    BY DEF ProdStates, BufOrNone
  <2>. QED BY <2>1, <2>2, <2>3, <2>4, <2>5, <2>6 DEF TypeOK
<1>2. Bookkeeping
  <2>1. {p \in Producers : prod[p] # "done"} = Producers
    OBVIOUS
  <2>2. \A p \in Producers : (prod[p] = "writing" <=> held[p] # None) /\ held[p] \notin free_bufs
    OBVIOUS
  <2>3. \A b \in free_bufs : allocated[b] = 0 /\ ready[b] = 0
    OBVIOUS
  <2>4. \A i \in DOMAIN pending : allocated[pending[i]] = MaxBatch
    OBVIOUS
  <2>. QED BY <2>1, <2>2, <2>3, <2>4 DEF Bookkeeping
<1>3. BuffersPartitioned /\ SlotsExclusive
  BY DEF BuffersPartitioned, InPending, SlotsExclusive
<1>4. StragglersAreWriters
  <2>1. ASSUME NEW b \in Bufs PROVE Writers(b) = {}
    BY DEF Writers
  <2>. QED BY <2>1, FS_EmptySet DEF StragglersAreWriters
<1>5. BatchIsComplete /\ NoMissedWakeup /\ ExitMeansDrained
  BY DEF BatchIsComplete, NoMissedWakeup, ExitMeansDrained
<1>. QED BY <1>1, <1>2, <1>3, <1>4, <1>5 DEF IInv

\* Acquire returns nullptr after Stop().
LEMMA AcquireRefusedInv ==
  ASSUME IInv, NEW p \in Producers, AcquireRefused(p)
  PROVE  IInv'
<1>0. /\ TypeOK /\ Bookkeeping /\ BuffersPartitioned /\ StragglersAreWriters
      /\ SlotsExclusive /\ BatchIsComplete /\ NoMissedWakeup /\ ExitMeansDrained
  BY DEF IInv
<1>1. TypeOK'
  BY <1>0, NotifiedIs DEF TypeOK, ProdStates, GpuStates, AcquireRefused, InAcquire
<1>2. Bookkeeping'
  BY <1>0 DEF Bookkeeping, AcquireRefused, InAcquire
<1>3. BuffersPartitioned'
  BY <1>0 DEF BuffersPartitioned, InPending, AcquireRefused
<1>4. StragglersAreWriters'
  BY <1>0 DEF StragglersAreWriters, Writers, AcquireRefused
<1>5. SlotsExclusive'
  BY <1>0 DEF SlotsExclusive, AcquireRefused
<1>6. BatchIsComplete'
  BY <1>0 DEF BatchIsComplete, Writers, AcquireRefused
<1>7. NoMissedWakeup'
  BY <1>0 DEF NoMissedWakeup, CanTakePending, CanClose, Drained, Complete, AcquireRefused
<1>8. ExitMeansDrained'
  BY <1>0 DEF ExitMeansDrained, AcquireRefused, InAcquire
<1>. QED BY <1>1, <1>2, <1>3, <1>4, <1>5, <1>6, <1>7, <1>8 DEF IInv

\* Acquire hands out the next slot of the filling buffer.
LEMMA AcquireSlotInv ==
  ASSUME IInv, NEW p \in Producers, AcquireSlot(p)
  PROVE  IInv'
<1>0. /\ TypeOK /\ Bookkeeping /\ BuffersPartitioned /\ StragglersAreWriters
      /\ SlotsExclusive /\ BatchIsComplete /\ NoMissedWakeup /\ ExitMeansDrained
  BY DEF IInv
<1>a. /\ filling \in Bufs /\ allocated[filling] \in 0..(MaxBatch - 1)
      /\ held[p] = None /\ prod[p] \in {"out", "woken"} /\ prod[p] # "done"
  BY <1>0, IInvFacts DEF AcquireSlot, InAcquire, HasRoom, TypeOK, BufOrNone, Bookkeeping
<1>b. /\ held' = [held EXCEPT ![p] = filling]
      /\ prod' = [prod EXCEPT ![p] = "writing"]
      /\ allocated' = [allocated EXCEPT ![filling] = allocated[filling] + 1]
      /\ UNCHANGED <<filling, free_bufs, pending, active_producers, stopping, ready,
                     gpu, taken>>
  BY DEF AcquireSlot, Claim
<1>c. \A c \in Bufs : Cardinality(Holders(held', c))
           = Cardinality(Holders(held, c)) + (IF c = filling THEN 1 ELSE 0)
  BY <1>0, <1>a, <1>b, HoldersAdd, ZenonT(60) DEF TypeOK
<1>d. Active(prod') = Active(prod) /\ active_producers # 0
  BY <1>0, <1>a, <1>b, IInvFacts DEF Active, TypeOK
<1>e. /\ filling \notin InPending /\ filling # taken /\ filling \notin free_bufs
      /\ InPending' = InPending
  BY <1>0, <1>a, <1>b, IInvFacts DEF BuffersPartitioned, InPending
<1>1. TypeOK'
  BY <1>0, IInvFacts, NotifiedIs, SMTT(40) DEF TypeOK, BufOrNone, ProdStates, GpuStates, AcquireSlot, InAcquire, HasRoom, Claim
<1>2. Bookkeeping'
  <2>1. \A i \in DOMAIN pending : allocated'[pending[i]] = MaxBatch
    BY <1>0, <1>a, <1>b, <1>e DEF Bookkeeping, InPending, TypeOK
  <2>2. active_producers' = Cardinality(Active(prod'))
    BY <1>b, <1>d, IInvFacts
  <2>3. \A q \in Producers : /\ prod'[q] = "writing" <=> held'[q] # None
                            /\ held'[q] \notin free_bufs
    BY <1>0, <1>a, <1>b, <1>e, IInvFacts DEF Bookkeeping, TypeOK
  <2>4. \A b \in free_bufs : allocated'[b] = 0 /\ ready[b] = 0
    BY <1>0, <1>a, <1>b, <1>e DEF Bookkeeping, TypeOK
  <2>5. /\ taken # None <=> gpu \in {"straggling", "recheck", "busy"}
        /\ gpu \in {"straggling", "recheck"} => allocated'[taken] > 0
    BY <1>0, <1>a, <1>b, <1>e, IInvFacts DEF Bookkeeping, TypeOK, BufOrNone
  <2>. QED BY <1>b, <2>1, <2>2, <2>3, <2>4, <2>5 DEF Bookkeeping, Active
<1>3. BuffersPartitioned'
  BY <1>0, <1>b, <1>e DEF BuffersPartitioned
<1>4. StragglersAreWriters'
  <2>1. ASSUME NEW b \in Bufs
        PROVE  allocated'[b] = ready'[b] + Cardinality(Holders(held', b))
    <3>1. allocated[b] = ready[b] + Cardinality(Holders(held, b))
      BY SlotCount
    <3>2. ready[b] \in Nat /\ ready'[b] = ready[b]
      BY <1>0, <1>b DEF TypeOK
    <3>3. Cardinality(Holders(held, b)) \in Nat
      BY HoldersFinite
    <3>4. allocated'[b] = IF b = filling THEN allocated[b] + 1 ELSE allocated[b]
      BY <1>0, <1>a, <1>b DEF TypeOK
    <3>5. Cardinality(Holders(held', b))
            = Cardinality(Holders(held, b)) + (IF b = filling THEN 1 ELSE 0)
      BY <1>c
    <3>. QED BY <3>1, <3>2, <3>3, <3>4, <3>5
  <2>. QED BY <2>1 DEF StragglersAreWriters, Writers, Holders
<1>5. SlotsExclusive'
  BY <1>0, IInvFacts, SMTT(40) DEF SlotsExclusive, TypeOK, BufOrNone, AcquireSlot, InAcquire, HasRoom, Claim
<1>6. BatchIsComplete'
  <2>1. SUFFICES ASSUME gpu = "busy"
                 PROVE  /\ ready[taken] = allocated'[taken] /\ allocated'[taken] > 0
                        /\ Holders(held', taken) = {}
    BY <1>b DEF BatchIsComplete, Writers, Holders
  <2>2. taken \in Bufs /\ allocated'[taken] = allocated[taken]
    BY <1>0, <1>a, <1>b, <1>e, <2>1 DEF Bookkeeping, TypeOK, BufOrNone
  <2>3. Holders(held', taken) = Holders(held, taken)
    BY <1>0, <1>a, <1>b, <1>e, <2>2, IInvFacts DEF Holders, TypeOK
  <2>. QED BY <1>0, <2>1, <2>2, <2>3 DEF BatchIsComplete, Writers, Holders
<1>7. NoMissedWakeup'
  <2>1. pending # <<>> => Head(pending) \in InPending
    BY <1>0, IInvFacts, TailFacts DEF TypeOK
  <2>2. ~CanTakePending => ~CanTakePending'
    BY <1>0, <1>a, <1>b, <1>e, <2>1, IInvFacts DEF CanTakePending, Complete, TypeOK
  <2>3. ~CanClose => ~CanClose'
    BY <1>b DEF CanClose
  <2>4. ~Drained'
    BY <1>b, <1>d DEF Drained
  <2>5. gpu = "straggling" => Complete(taken)' = Complete(taken)
    BY <1>0, <1>a, <1>b, <1>e DEF Complete, TypeOK, Bookkeeping, BufOrNone
  <2>6. \A q \in Producers : prod'[q] # "space"
    BY <1>0, <1>a, <1>b, IInvFacts DEF NoMissedWakeup, TypeOK
  <2>. QED BY <1>0, <1>b, <2>2, <2>3, <2>4, <2>5, <2>6 DEF NoMissedWakeup
<1>8. ExitMeansDrained'
  BY <1>0 DEF ExitMeansDrained, AcquireSlot, InAcquire, HasRoom, Claim
<1>. QED BY <1>1, <1>2, <1>3, <1>4, <1>5, <1>6, <1>7, <1>8 DEF IInv

\* Acquire queues a full filling buffer and starts an empty one.
LEMMA AcquireRotateInv ==
  ASSUME IInv, NEW p \in Producers, AcquireRotate(p)
  PROVE  IInv'
<1>0. /\ TypeOK /\ Bookkeeping /\ BuffersPartitioned /\ StragglersAreWriters
      /\ SlotsExclusive /\ BatchIsComplete /\ NoMissedWakeup /\ ExitMeansDrained
  BY DEF IInv
<1>a. /\ prod[p] \in {"out", "woken"} /\ held[p] = None
      /\ filling # None => allocated[filling] = MaxBatch /\ filling \in Bufs
  BY <1>0, IInvFacts DEF AcquireRotate, InAcquire, HasRoom, TypeOK, BufOrNone, Bookkeeping
<1>b. PICK b \in free_bufs :
         /\ filling' = b /\ free_bufs' = free_bufs \ {b}
         /\ allocated' = [allocated EXCEPT ![b] = allocated[b] + 1]
         /\ held' = [held EXCEPT ![p] = b]
         /\ slot' = [slot EXCEPT ![p] = allocated[b]]
         /\ prod' = [prod EXCEPT ![p] = "writing"]
         /\ UNCHANGED <<active_producers, stopping, ready, taken>>
  BY DEF AcquireRotate, Claim
<1>c. /\ b \in Bufs /\ b # None /\ allocated[b] = 0 /\ ready[b] = 0 /\ b \notin InPending
      /\ b # filling /\ b # taken /\ \A q \in Producers : held[q] # b
  BY <1>0, IInvFacts DEF Bookkeeping, BuffersPartitioned, TypeOK
<1>d. \A c \in Bufs : Cardinality(Holders(held', c))
           = Cardinality(Holders(held, c)) + (IF c = b THEN 1 ELSE 0)
  BY <1>0, <1>a, <1>b, <1>c, HoldersAdd, ZenonT(60) DEF TypeOK
<1>e. /\ Active(prod') = Active(prod) /\ active_producers # 0
      /\ active_producers' = Cardinality(Active(prod'))
  <2>1. Active(prod') = Active(prod) /\ prod[p] # "done"
    BY <1>0, <1>a, <1>b DEF Active, TypeOK
  <2>. QED BY <1>b, <2>1, IInvFacts
<1>f. /\ pending' \in Seq(Bufs) /\ Distinct(pending')
      /\ RangeOf(pending') = InPending \cup (IF filling = None THEN {} ELSE {filling})
      /\ InPending' = RangeOf(pending')
      /\ pending # <<>> => pending' # <<>> /\ Head(pending') = Head(pending)
                             /\ Head(pending) \in InPending
  <2>1. pending # <<>> => Head(pending) \in InPending
    BY <1>0, IInvFacts, TailFacts DEF TypeOK
  <2>2. CASE filling = None
    <3>1. pending' = pending
      BY <2>2 DEF AcquireRotate, QueueFull
    <3>. QED BY <1>0, <2>1, <2>2, <3>1, IInvFacts DEF TypeOK, InPending, RangeOf
  <2>3. CASE filling # None
    <3>1. pending' = Append(pending, filling) /\ filling \in Bufs
      BY <1>a, <2>3 DEF AcquireRotate, QueueFull
    <3>2. filling \notin RangeOf(pending)
      BY <1>0, <2>3, IInvFacts DEF BuffersPartitioned
    <3>3. pending \in Seq(Bufs)
      BY <1>0 DEF TypeOK
    <3>4. InPending' = RangeOf(pending')
      BY DEF InPending, RangeOf
    <3>. QED BY <2>1, <2>3, <3>1, <3>2, <3>3, <3>4, IInvFacts, AppendFacts
  <2>. QED BY <2>2, <2>3
<1>g. /\ gpu' = IF filling # None THEN Notified(gpu) ELSE gpu
      /\ gpu' \in {"straggling", "recheck"} <=> gpu \in {"straggling", "recheck"}
      /\ gpu' = "busy" <=> gpu = "busy"
      /\ gpu' = "straggling" => gpu = "straggling"
      /\ gpu' = "asleep" => gpu = "asleep" /\ filling = None
      /\ gpu' \in GpuStates
  BY <1>0, NotifiedIs DEF AcquireRotate, QueueFull, TypeOK, GpuStates
<1>h. taken # None => taken \in Bufs /\ allocated'[taken] = allocated[taken]
  BY <1>0, <1>b, <1>c DEF TypeOK, BufOrNone
<1>1. TypeOK'
  <2>1. /\ allocated' \in [Bufs -> 0..MaxBatch]
        /\ slot' \in [Producers -> 0..(MaxBatch - 1)]
    BY <1>0, <1>b, <1>c, IInvFacts DEF TypeOK
  <2>2. prod' \in [Producers -> ProdStates] /\ held' \in [Producers -> BufOrNone]
    BY <1>0, <1>b, <1>c DEF TypeOK, ProdStates, BufOrNone
  <2>. QED BY <1>0, <1>b, <1>c, <1>f, <1>g, <2>1, <2>2 DEF TypeOK, BufOrNone
<1>2. Bookkeeping'
  <2>1. \A i \in DOMAIN pending' : allocated'[pending'[i]] = MaxBatch
    <3>1. ASSUME NEW c \in RangeOf(pending') PROVE allocated'[c] = MaxBatch
      BY <1>0, <1>a, <1>b, <1>c, <1>f, IInvFacts DEF TypeOK
    <3>. QED BY <3>1 DEF RangeOf
  <2>2. \A q \in Producers : /\ prod'[q] = "writing" <=> held'[q] # None
                            /\ held'[q] \notin free_bufs'
    BY <1>0, <1>a, <1>b, <1>c DEF Bookkeeping, TypeOK
  <2>3. \A c \in free_bufs' : allocated'[c] = 0 /\ ready'[c] = 0
    BY <1>0, <1>b, <1>c DEF Bookkeeping, TypeOK
  <2>4. /\ taken' # None <=> gpu' \in {"straggling", "recheck", "busy"}
        /\ gpu' \in {"straggling", "recheck"} => allocated'[taken'] > 0
    BY <1>0, <1>b, <1>g, <1>h DEF Bookkeeping
  <2>. QED BY <1>e, <2>1, <2>2, <2>3, <2>4 DEF Bookkeeping, Active
<1>3. BuffersPartitioned'
  <2>1. \A i, j \in DOMAIN pending' : pending'[i] = pending'[j] => i = j
    BY <1>f DEF Distinct
  <2>2. /\ InPending' = InPending \cup (IF filling = None THEN {} ELSE {filling})
        /\ filling' = b /\ free_bufs' = free_bufs \ {b} /\ taken' = taken
    BY <1>b, <1>f
  <2>3. /\ filling # None => filling \notin free_bufs \cup InPending
        /\ free_bufs \cap InPending = {}
        /\ taken # None => taken \notin free_bufs \cup InPending \cup {filling}
        /\ Bufs \subseteq free_bufs \cup InPending \cup {filling, taken}
    BY <1>0 DEF BuffersPartitioned
  <2>4. filling' \notin free_bufs' \cup InPending'
    BY <1>c, <2>2
  <2>5. free_bufs' \cap InPending' = {}
    BY <2>2, <2>3
  <2>6. taken' # None => taken' \notin free_bufs' \cup InPending' \cup {filling'}
    BY <1>c, <2>2, <2>3
  <2>7. Bufs \subseteq free_bufs' \cup InPending' \cup {filling', taken'}
    <3>1. None \notin Bufs
      BY BufsAssumption
    <3>. QED BY <2>2, <2>3, <3>1
  <2>. QED BY <2>1, <2>4, <2>5, <2>6, <2>7 DEF BuffersPartitioned
<1>4. StragglersAreWriters'
  <2>1. ASSUME NEW c \in Bufs
        PROVE  allocated'[c] = ready'[c] + Cardinality(Holders(held', c))
    <3>1. allocated[c] = ready[c] + Cardinality(Holders(held, c))
      BY SlotCount
    <3>2. ready[c] \in Nat /\ ready'[c] = ready[c]
      BY <1>0, <1>b DEF TypeOK
    <3>3. Cardinality(Holders(held, c)) \in Nat
      BY HoldersFinite
    <3>4. allocated'[c] = IF c = b THEN allocated[c] + 1 ELSE allocated[c]
      BY <1>0, <1>b, <1>c DEF TypeOK
    <3>5. Cardinality(Holders(held', c))
            = Cardinality(Holders(held, c)) + (IF c = b THEN 1 ELSE 0)
      BY <1>d
    <3>. QED BY <3>1, <3>2, <3>3, <3>4, <3>5
  <2>. QED BY <2>1 DEF StragglersAreWriters, Writers, Holders
<1>5. SlotsExclusive'
  <2>1. /\ held'[p] = b /\ slot'[p] = 0 /\ allocated'[b] = 1
        /\ \A q \in Producers \ {p} : /\ held'[q] = held[q] /\ slot'[q] = slot[q]
                                     /\ held'[q] # b
    BY <1>0, <1>b, <1>c DEF TypeOK
  <2>2. ASSUME NEW q \in Producers, NEW r \in Producers,
               held'[q] # None, held'[q] = held'[r], slot'[q] = slot'[r]
        PROVE  q = r
    BY <1>0, <2>1, <2>2 DEF SlotsExclusive
  <2>3. ASSUME NEW q \in Producers, held'[q] # None
        PROVE  slot'[q] < allocated'[held'[q]]
    <3>1. CASE q = p
      BY <2>1, <3>1
    <3>2. CASE q # p
      <4>1. held[q] \in Bufs /\ held[q] # b /\ slot[q] < allocated[held[q]]
        BY <1>0, <2>1, <2>3, <3>2 DEF SlotsExclusive, TypeOK, BufOrNone
      <4>. QED BY <1>0, <1>b, <2>1, <3>2, <4>1 DEF TypeOK
    <3>. QED BY <3>1, <3>2
  <2>. QED BY <2>2, <2>3 DEF SlotsExclusive
<1>6. BatchIsComplete'
  <2>1. SUFFICES ASSUME gpu' = "busy"
                 PROVE  /\ ready'[taken'] = allocated'[taken'] /\ allocated'[taken'] > 0
                        /\ Holders(held', taken') = {}
    BY DEF BatchIsComplete, Writers, Holders
  <2>2. gpu = "busy" /\ taken # None
    BY <1>0, <1>g, <2>1 DEF Bookkeeping
  <2>3. Holders(held', taken) = Holders(held, taken)
    BY <1>0, <1>a, <1>b, <1>c, <2>2 DEF Holders, TypeOK
  <2>. QED BY <1>0, <1>b, <1>h, <2>2, <2>3 DEF BatchIsComplete, Writers, Holders
<1>7. NoMissedWakeup'
  <2>1. ASSUME gpu' = "asleep" PROVE ~CanTakePending' /\ ~CanClose' /\ ~Drained'
    <3>1. gpu = "asleep" /\ filling = None /\ pending' = pending
      BY <1>g, <2>1 DEF AcquireRotate, QueueFull
    <3>2. ~CanTakePending'
      BY <1>0, <1>b, <1>c, <1>f, <3>1 DEF NoMissedWakeup, CanTakePending, Complete, TypeOK
    <3>3. ~CanClose'
      BY <1>b, <1>c DEF CanClose
    <3>4. ~Drained'
      BY <1>b, <1>e DEF Drained
    <3>. QED BY <3>2, <3>3, <3>4
  <2>2. ASSUME gpu' = "straggling" PROVE ~Complete(taken)'
    <3>1. gpu = "straggling" /\ taken # None
      BY <1>0, <1>g, <2>2 DEF Bookkeeping
    <3>. QED BY <1>0, <1>b, <1>h, <3>1 DEF NoMissedWakeup, Complete
  <2>3. ASSUME NEW q \in Producers, prod'[q] = "space" PROVE FALSE
    BY <1>0, <1>b, <2>3 DEF NoMissedWakeup, TypeOK
  <2>. QED BY <2>1, <2>2, <2>3 DEF NoMissedWakeup
<1>8. ExitMeansDrained'
  BY <1>0, NotifiedIs DEF ExitMeansDrained, AcquireRotate, InAcquire, HasRoom, Claim, QueueFull
<1>. QED BY <1>1, <1>2, <1>3, <1>4, <1>5, <1>6, <1>7, <1>8 DEF IInv

\* Acquire finds no empty buffer and sleeps on cv_space.
LEMMA AcquireWaitInv ==
  ASSUME IInv, NEW p \in Producers, AcquireWait(p)
  PROVE  IInv'
<1>0. /\ TypeOK /\ Bookkeeping /\ BuffersPartitioned /\ StragglersAreWriters
      /\ SlotsExclusive /\ BatchIsComplete /\ NoMissedWakeup /\ ExitMeansDrained
  BY DEF IInv
<1>a. /\ filling # None => allocated[filling] = MaxBatch /\ filling \in Bufs
      /\ prod[p] \in {"out", "woken"} /\ prod' = [prod EXCEPT ![p] = "space"]
      /\ filling' = None /\ free_bufs = {}
      /\ UNCHANGED <<free_bufs, active_producers, stopping, allocated, ready, held, slot,
                     taken>>
  BY <1>0, IInvFacts DEF AcquireWait, InAcquire, HasRoom, TypeOK, BufOrNone
<1>b. /\ Active(prod') = Active(prod)
      /\ active_producers' = Cardinality(Active(prod'))
  <2>1. Active(prod') = Active(prod)
    BY <1>0, <1>a DEF Active, TypeOK
  <2>. QED BY <1>a, <2>1, IInvFacts
<1>c. /\ pending' \in Seq(Bufs) /\ Distinct(pending')
      /\ RangeOf(pending') = InPending \cup (IF filling = None THEN {} ELSE {filling})
      /\ InPending' = RangeOf(pending')
  <2>1. CASE filling = None
    <3>1. pending' = pending
      BY <2>1 DEF AcquireWait, QueueFull
    <3>. QED BY <1>0, <2>1, <3>1, IInvFacts DEF TypeOK, InPending, RangeOf
  <2>2. CASE filling # None
    <3>1. pending' = Append(pending, filling) /\ filling \in Bufs
      BY <1>a, <2>2 DEF AcquireWait, QueueFull
    <3>2. filling \notin RangeOf(pending)
      BY <1>0, <2>2, IInvFacts DEF BuffersPartitioned
    <3>3. pending \in Seq(Bufs)
      BY <1>0 DEF TypeOK
    <3>4. InPending' = RangeOf(pending')
      BY DEF InPending, RangeOf
    <3>. QED BY <2>2, <3>1, <3>2, <3>3, <3>4, IInvFacts, AppendFacts
  <2>. QED BY <2>1, <2>2
<1>d. /\ gpu' \in {"straggling", "recheck"} <=> gpu \in {"straggling", "recheck"}
      /\ gpu' = "busy" <=> gpu = "busy"
      /\ gpu' \in GpuStates
  BY <1>0, NotifiedIs DEF AcquireWait, QueueFull, TypeOK, GpuStates
<1>1. TypeOK'
  <2>1. prod' \in [Producers -> ProdStates]
    BY <1>0, <1>a DEF TypeOK, ProdStates
  <2>. QED BY <1>0, <1>a, <1>c, <1>d, <2>1 DEF TypeOK, BufOrNone
<1>2. Bookkeeping'
  <2>1. \A i \in DOMAIN pending' : allocated[pending'[i]] = MaxBatch
    <3>1. ASSUME NEW c \in RangeOf(pending') PROVE allocated[c] = MaxBatch
      BY <1>a, <1>c, IInvFacts
    <3>. QED BY <3>1 DEF RangeOf
  <2>2. \A q \in Producers : prod'[q] = "writing" <=> held[q] # None
    BY <1>0, <1>a DEF Bookkeeping, TypeOK
  <2>. QED BY <1>0, <1>a, <1>b, <1>d, <2>1, <2>2 DEF Bookkeeping, Active
<1>3. BuffersPartitioned'
  <2>1. \A i, j \in DOMAIN pending' : pending'[i] = pending'[j] => i = j
    BY <1>c DEF Distinct
  <2>. QED BY <1>0, <1>a, <1>c, <2>1 DEF BuffersPartitioned
<1>4. StragglersAreWriters'
  BY <1>0 DEF StragglersAreWriters, Writers, AcquireWait
<1>5. SlotsExclusive'
  BY <1>0 DEF SlotsExclusive, AcquireWait
<1>6. BatchIsComplete'
  BY <1>0, NotifiedIs DEF BatchIsComplete, Writers, AcquireWait, InAcquire, HasRoom, QueueFull
<1>7. NoMissedWakeup'
  BY <1>0, NotifiedIs DEF NoMissedWakeup, CanTakePending, CanClose, Drained, Complete, AcquireWait, InAcquire, HasRoom, QueueFull
<1>8. ExitMeansDrained'
  BY <1>0, NotifiedIs DEF ExitMeansDrained, AcquireWait, InAcquire, HasRoom, QueueFull
<1>. QED BY <1>1, <1>2, <1>3, <1>4, <1>5, <1>6, <1>7, <1>8 DEF IInv

\* cv_space.wait returns spuriously.
LEMMA SpuriousSpaceInv ==
  ASSUME IInv, NEW p \in Producers, SpuriousSpace(p)
  PROVE  IInv'
<1>0. /\ TypeOK /\ Bookkeeping /\ BuffersPartitioned /\ StragglersAreWriters
      /\ SlotsExclusive /\ BatchIsComplete /\ NoMissedWakeup /\ ExitMeansDrained
  BY DEF IInv
<1>1. TypeOK'
  BY <1>0, NotifiedIs DEF TypeOK, ProdStates, GpuStates, SpuriousSpace
<1>2. Bookkeeping'
  BY <1>0 DEF Bookkeeping, SpuriousSpace
<1>3. BuffersPartitioned'
  BY <1>0 DEF BuffersPartitioned, InPending, SpuriousSpace
<1>4. StragglersAreWriters'
  BY <1>0 DEF StragglersAreWriters, Writers, SpuriousSpace
<1>5. SlotsExclusive'
  BY <1>0 DEF SlotsExclusive, SpuriousSpace
<1>6. BatchIsComplete'
  BY <1>0 DEF BatchIsComplete, Writers, SpuriousSpace
<1>7. NoMissedWakeup'
  BY <1>0 DEF NoMissedWakeup, CanTakePending, CanClose, Drained, Complete, SpuriousSpace
<1>8. ExitMeansDrained'
  BY <1>0 DEF ExitMeansDrained, SpuriousSpace
<1>. QED BY <1>1, <1>2, <1>3, <1>4, <1>5, <1>6, <1>7, <1>8 DEF IInv

\* MarkReady counts the slot and may notify the GPU thread.
LEMMA MarkReadyInv ==
  ASSUME IInv, NEW p \in Producers, MarkReady(p)
  PROVE  IInv'
<1>0. /\ TypeOK /\ Bookkeeping /\ BuffersPartitioned /\ StragglersAreWriters
      /\ SlotsExclusive /\ BatchIsComplete /\ NoMissedWakeup /\ ExitMeansDrained
  BY DEF IInv
<1>a. /\ held[p] \in Bufs /\ held[p] # None /\ prod[p] = "writing"
      /\ held[p] \notin free_bufs
  BY <1>0, IInvFacts DEF MarkReady, TypeOK, BufOrNone, Bookkeeping
<1>b. /\ held' = [held EXCEPT ![p] = None]
      /\ ready' = [ready EXCEPT ![held[p]] = ready[held[p]] + 1]
      /\ UNCHANGED <<filling, free_bufs, pending, active_producers, stopping, allocated,
                     taken>>
  BY <1>0, <1>a DEF MarkReady, TypeOK
<1>c. \A c \in Bufs : Cardinality(Holders(held, c))
           = Cardinality(Holders(held', c)) + (IF c = held[p] THEN 1 ELSE 0)
  BY <1>0, <1>a, <1>b, HoldersRemove, ZenonT(60) DEF TypeOK
<1>d. ASSUME NEW b \in Bufs
      PROVE  /\ allocated[b] = ready'[b] + Cardinality(Holders(held', b))
             /\ ready'[b] \in Nat /\ Cardinality(Holders(held', b)) \in Nat
             /\ ready'[b] <= allocated[b]
  <2>3. allocated[b] = ready[b] + Cardinality(Holders(held, b))
    BY SlotCount
  <2>4. Cardinality(Holders(held', b)) \in Nat
    BY HoldersFinite
  <2>1. /\ allocated[b] = ready[b] + Cardinality(Holders(held, b))
        /\ ready[b] \in Nat /\ Cardinality(Holders(held', b)) \in Nat
    BY <1>0, <2>3, <2>4 DEF TypeOK
  <2>2. ready'[b] = ready[b] + (IF b = held[p] THEN 1 ELSE 0)
    BY <1>0, <1>a, <1>b DEF TypeOK
  <2>. QED BY <1>c, <2>1, <2>2
<1>1. TypeOK'
  <2>1. ready' \in [Bufs -> 0..MaxBatch]
    <3>1. \A b \in Bufs : ready'[b] \in 0..MaxBatch
      BY <1>0, <1>d, IInvFacts DEF TypeOK
    <3>. QED BY <1>0, <1>b, <3>1 DEF TypeOK
  <2>2. gpu' \in GpuStates
    BY <1>0, NotifiedIs DEF TypeOK, GpuStates, MarkReady
  <2>3. /\ prod' \in [Producers -> ProdStates] /\ held' \in [Producers -> BufOrNone]
        /\ slot' \in [Producers -> 0..(MaxBatch - 1)]
    BY <1>0, IInvFacts DEF TypeOK, ProdStates, BufOrNone, MarkReady
  <2>. QED BY <1>0, <1>b, <2>1, <2>2, <2>3 DEF TypeOK
<1>2. Bookkeeping'
  BY <1>0, IInvFacts, NotifiedIs DEF Bookkeeping, TypeOK, MarkReady, WakesGpu
<1>3. BuffersPartitioned'
  BY <1>0 DEF BuffersPartitioned, InPending, MarkReady
<1>4. StragglersAreWriters'
  BY <1>b, <1>d DEF StragglersAreWriters, Writers, Holders
<1>5. SlotsExclusive'
  BY <1>0 DEF SlotsExclusive, TypeOK, MarkReady, WakesGpu
<1>6. BatchIsComplete'
  <2>1. SUFFICES ASSUME gpu' = "busy"
                 PROVE  /\ ready'[taken] = allocated[taken] /\ allocated[taken] > 0
                        /\ Holders(held', taken) = {}
    BY <1>b DEF BatchIsComplete, Writers, Holders
  <2>2. gpu = "busy"
    BY <2>1, NotifiedIs DEF MarkReady
  <2>3. taken \in Bufs /\ Holders(held, taken) = {}
    BY <1>0, <2>2 DEF BatchIsComplete, Bookkeeping, TypeOK, BufOrNone, Writers, Holders
  <2>4. held[p] # taken
    BY <1>a, <2>3 DEF Holders
  <2>5. Holders(held', taken) = {} /\ ready'[taken] = ready[taken]
    BY <1>0, <1>a, <1>b, <2>3, <2>4, IInvFacts DEF Holders, TypeOK
  <2>. QED BY <1>0, <2>2, <2>5 DEF BatchIsComplete
<1>7. NoMissedWakeup'
  <2>1. ASSUME NEW b \in Bufs
        PROVE  ready'[b] = IF b = held[p] THEN ready[b] + 1 ELSE ready[b]
    BY <1>0, <1>a, <1>b DEF TypeOK
  <2>2. ASSUME gpu' = "asleep" PROVE ~CanTakePending' /\ ~CanClose' /\ ~Drained'
    <3>1. gpu = "asleep" /\ ready[held[p]] # 0 /\ ready[held[p]] + 1 # allocated[held[p]]
      BY <1>0, <1>a, <2>2, NotifiedIs DEF MarkReady, WakesGpu, TypeOK
    <3>2. ~CanTakePending /\ ~CanClose
      BY <1>0, <3>1 DEF NoMissedWakeup
    <3>3. ~CanTakePending'
      <4>1. pending # <<>> => Head(pending) \in Bufs
        BY <1>0, TailFacts DEF TypeOK
      <4>. QED BY <1>b, <2>1, <3>1, <3>2, <4>1 DEF CanTakePending, Complete
    <3>4. ~CanClose'
      <4>1. filling # None => filling \in Bufs /\ ready[filling] \in Nat
        BY <1>0 DEF TypeOK, BufOrNone
      <4>. QED BY <1>b, <2>1, <3>1, <3>2, <4>1 DEF CanClose
    <3>5. active_producers' # 0
      BY <1>a, <1>b, IInvFacts
    <3>. QED BY <3>3, <3>4, <3>5 DEF Drained
  <2>3. ASSUME gpu' = "straggling" PROVE ~Complete(taken)'
    <3>1. gpu = "straggling" /\ ready[held[p]] + 1 # allocated[held[p]]
      BY <2>3, NotifiedIs DEF MarkReady, WakesGpu
    <3>2. taken \in Bufs /\ ~Complete(taken)
      BY <1>0, <3>1 DEF NoMissedWakeup, Bookkeeping, TypeOK, BufOrNone
    <3>. QED BY <1>b, <2>1, <3>1, <3>2 DEF Complete
  <2>4. ASSUME NEW q \in Producers, prod'[q] = "space"
        PROVE  ~stopping' /\ free_bufs' = {} /\ filling' = None
    <3>1. prod[q] = "space"
      BY <1>0, <2>4 DEF MarkReady, TypeOK
    <3>. QED BY <1>0, <1>b, <3>1 DEF NoMissedWakeup
  <2>. QED BY <2>2, <2>3, <2>4 DEF NoMissedWakeup
<1>8. ExitMeansDrained'
  BY <1>0, NotifiedIs DEF ExitMeansDrained, MarkReady, WakesGpu
<1>. QED BY <1>1, <1>2, <1>3, <1>4, <1>5, <1>6, <1>7, <1>8 DEF IInv

\* ProducerDone uncounts the producer and may notify the GPU thread.
LEMMA ProducerDoneInv ==
  ASSUME IInv, NEW p \in Producers, ProducerDone(p)
  PROVE  IInv'
<1>0. /\ TypeOK /\ Bookkeeping /\ BuffersPartitioned /\ StragglersAreWriters
      /\ SlotsExclusive /\ BatchIsComplete /\ NoMissedWakeup /\ ExitMeansDrained
  BY DEF IInv
<1>a. prod[p] # "done" /\ held[p] = None /\ prod' = [prod EXCEPT ![p] = "done"]
  BY <1>0 DEF ProducerDone, Bookkeeping
<1>b. /\ active_producers = Cardinality(Active(prod')) + 1
      /\ Cardinality(Active(prod')) \in Nat
  <2>1. prod' \in [Producers -> ProdStates]
    BY <1>0, <1>a DEF TypeOK, ProdStates
  <2>. QED BY <1>0, <1>a, <2>1, IInvFacts, ActiveRemove, ActiveFacts DEF TypeOK
<1>c. active_producers' = Cardinality(Active(prod'))
  BY <1>b DEF ProducerDone
<1>1. TypeOK'
  <2>1. active_producers' \in 0..Cardinality(Producers)
    BY <1>0, <1>b, <1>c, ProducersAssumption, FS_CardinalityType DEF TypeOK
  <2>2. gpu' \in GpuStates
    BY <1>0, NotifiedIs DEF TypeOK, GpuStates, ProducerDone
  <2>3. prod' \in [Producers -> ProdStates]
    BY <1>0, <1>a DEF TypeOK, ProdStates
  <2>. QED BY <1>0, <2>1, <2>2, <2>3 DEF TypeOK, ProducerDone
<1>2. Bookkeeping'
  <2>1. gpu' \in {"straggling", "recheck", "busy"} <=> gpu \in {"straggling", "recheck", "busy"}
    BY NotifiedIs DEF ProducerDone
  <2>2. gpu' \in {"straggling", "recheck"} <=> gpu \in {"straggling", "recheck"}
    BY NotifiedIs DEF ProducerDone
  <2>3. \A q \in Producers : prod'[q] = "writing" <=> held[q] # None
    BY <1>0, <1>a DEF Bookkeeping, TypeOK
  <2>. QED BY <1>0, <1>c, <2>1, <2>2, <2>3 DEF Bookkeeping, Active, ProducerDone
<1>3. BuffersPartitioned'
  BY <1>0 DEF BuffersPartitioned, InPending, ProducerDone
<1>4. StragglersAreWriters'
  BY <1>0 DEF StragglersAreWriters, Writers, ProducerDone
<1>5. SlotsExclusive'
  BY <1>0 DEF SlotsExclusive, ProducerDone
<1>6. BatchIsComplete'
  BY <1>0, NotifiedIs DEF BatchIsComplete, Writers, ProducerDone, WakesGpuWhenLast
<1>7. NoMissedWakeup'
  BY <1>0, NotifiedIs DEF NoMissedWakeup, CanTakePending, CanClose, Drained, Complete, ProducerDone, WakesGpuWhenLast
<1>8. ExitMeansDrained'
  BY <1>0, NotifiedIs DEF ExitMeansDrained, ProducerDone, WakesGpuWhenLast
<1>. QED BY <1>1, <1>2, <1>3, <1>4, <1>5, <1>6, <1>7, <1>8 DEF IInv

\* Take returns the oldest pending buffer.
LEMMA TakePendingInv ==
  ASSUME IInv, TakePending
  PROVE  IInv'
<1>0. /\ TypeOK /\ Bookkeeping /\ BuffersPartitioned /\ StragglersAreWriters
      /\ SlotsExclusive /\ BatchIsComplete /\ NoMissedWakeup /\ ExitMeansDrained
  BY DEF IInv
<1>a. /\ pending # <<>> /\ taken' = Head(pending) /\ pending' = Tail(pending)
      /\ gpu = "take" /\ gpu' = "busy" /\ ready[Head(pending)] = allocated[Head(pending)]
      /\ UNCHANGED <<filling, free_bufs, active_producers, stopping, allocated, ready,
                     prod, held, slot>>
  BY DEF TakePending, CanTakePending, Complete
<1>b. /\ Head(pending) \in InPending /\ Head(pending) \in Bufs
      /\ InPending = RangeOf(Tail(pending)) \cup {Head(pending)}
      /\ Distinct(Tail(pending)) /\ Head(pending) \notin RangeOf(Tail(pending))
      /\ InPending' = RangeOf(Tail(pending))
  <2>1. InPending' = RangeOf(Tail(pending))
    BY <1>a DEF InPending, RangeOf
  <2>. QED BY <1>0, <1>a, <2>1, IInvFacts, TailFacts DEF TypeOK
<1>1. TypeOK'
  BY <1>0, IInvFacts, NotifiedIs, SMTT(40) DEF TypeOK, BufOrNone, ProdStates, GpuStates, TakePending, CanTakePending, Complete
<1>2. Bookkeeping'
  BY <1>0, IInvFacts, NotifiedIs DEF Bookkeeping, TypeOK, TakePending, CanTakePending, Complete
<1>3. BuffersPartitioned'
  <2>1. \A i, j \in DOMAIN pending' : pending'[i] = pending'[j] => i = j
    BY <1>a, <1>b DEF Distinct
  <2>2. taken = None
    BY <1>0, <1>a DEF Bookkeeping
  <2>. QED BY <1>0, <1>a, <1>b, <2>1, <2>2, IInvFacts DEF BuffersPartitioned
<1>4. StragglersAreWriters'
  BY <1>0 DEF StragglersAreWriters, Writers, TakePending
<1>5. SlotsExclusive'
  BY <1>0 DEF SlotsExclusive, TakePending
<1>6. BatchIsComplete'
  <2>1. allocated[Head(pending)] = MaxBatch /\ MaxBatch > 0
    BY <1>b, IInvFacts
  <2>2. Writers(Head(pending)) = {}
    <3>1. allocated[Head(pending)] = ready[Head(pending)] <=> Writers(Head(pending)) = {}
      BY <1>b, SlotCount
    <3>. QED BY <1>a, <3>1
  <2>. QED BY <1>a, <2>1, <2>2 DEF BatchIsComplete, Writers
<1>7. NoMissedWakeup'
  BY <1>0 DEF NoMissedWakeup, TakePending
<1>8. ExitMeansDrained'
  BY <1>0 DEF ExitMeansDrained, TakePending
<1>. QED BY <1>1, <1>2, <1>3, <1>4, <1>5, <1>6, <1>7, <1>8 DEF IInv

\* Take closes the filling buffer early.
LEMMA TakeCloseInv ==
  ASSUME IInv, TakeClose
  PROVE  IInv'
<1>0. /\ TypeOK /\ Bookkeeping /\ BuffersPartitioned /\ StragglersAreWriters
      /\ SlotsExclusive /\ BatchIsComplete /\ NoMissedWakeup /\ ExitMeansDrained
  BY DEF IInv
<1>a. /\ filling \in Bufs /\ ready[filling] > 0 /\ pending = <<>>
      /\ gpu = "take" /\ taken = None /\ taken' = filling /\ filling' = None
      /\ gpu' = IF ready[filling] = allocated[filling] THEN "busy" ELSE "straggling"
      /\ UNCHANGED <<free_bufs, pending, active_producers, stopping, allocated, ready,
                     held, slot>>
  BY <1>0 DEF TakeClose, CanClose, Complete, Bookkeeping, TypeOK, BufOrNone
<1>b. /\ \A q \in Producers : /\ prod'[q] = "writing" <=> prod[q] = "writing"
                              /\ prod'[q] = "done" <=> prod[q] = "done"
      /\ Active(prod') = Active(prod)
  BY DEF TakeClose, WakeProducers, NotifySpace, Active
<1>c. /\ allocated[filling] > 0
      /\ allocated[filling] = ready[filling] <=> Writers(filling) = {}
  <2>1. /\ allocated[filling] = ready[filling] + Cardinality(Holders(held, filling))
        /\ allocated[filling] = ready[filling] <=> Writers(filling) = {}
    BY <1>a, SlotCount
  <2>2. ready[filling] \in Nat /\ Cardinality(Holders(held, filling)) \in Nat
    BY <1>0, <1>a, HoldersFinite DEF TypeOK
  <2>. QED BY <1>a, <2>1, <2>2
<1>d. InPending' = InPending
  BY <1>a DEF InPending
<1>1. TypeOK'
  BY <1>0, IInvFacts, NotifiedIs DEF TypeOK, BufOrNone, ProdStates, GpuStates, TakeClose, CanClose, Complete, WakeProducers, NotifySpace
<1>2. Bookkeeping'
  <2>1. active_producers' = Cardinality(Active(prod'))
    BY <1>a, <1>b, IInvFacts
  <2>2. /\ taken' # None <=> gpu' \in {"straggling", "recheck", "busy"}
        /\ gpu' \in {"straggling", "recheck"} => allocated'[taken'] > 0
    BY <1>a, <1>c, IInvFacts
  <2>. QED BY <1>0, <1>a, <1>b, <2>1, <2>2 DEF Bookkeeping, Active
<1>3. BuffersPartitioned'
  BY <1>0, <1>a, <1>d, IInvFacts DEF BuffersPartitioned
<1>4. StragglersAreWriters'
  BY <1>0 DEF StragglersAreWriters, Writers, TakeClose
<1>5. SlotsExclusive'
  BY <1>0 DEF SlotsExclusive, TakeClose
<1>6. BatchIsComplete'
  BY <1>a, <1>c DEF BatchIsComplete, Writers
<1>7. NoMissedWakeup'
  BY <1>0 DEF NoMissedWakeup, CanTakePending, CanClose, Drained, Complete, TakeClose, WakeProducers, NotifySpace
<1>8. ExitMeansDrained'
  BY <1>0 DEF ExitMeansDrained, TakeClose
<1>. QED BY <1>1, <1>2, <1>3, <1>4, <1>5, <1>6, <1>7, <1>8 DEF IInv

\* Take rechecks the closed buffer after a wake-up.
LEMMA TakeStragglersInv ==
  ASSUME IInv, TakeStragglers
  PROVE  IInv'
<1>0. /\ TypeOK /\ Bookkeeping /\ BuffersPartitioned /\ StragglersAreWriters
      /\ SlotsExclusive /\ BatchIsComplete /\ NoMissedWakeup /\ ExitMeansDrained
  BY DEF IInv
<1>1. TypeOK'
  BY <1>0, NotifiedIs DEF TypeOK, ProdStates, GpuStates, TakeStragglers, Complete
<1>2. Bookkeeping'
  BY <1>0 DEF Bookkeeping, TakeStragglers
<1>3. BuffersPartitioned'
  BY <1>0 DEF BuffersPartitioned, InPending, TakeStragglers
<1>4. StragglersAreWriters'
  BY <1>0 DEF StragglersAreWriters, Writers, TakeStragglers
<1>5. SlotsExclusive'
  BY <1>0 DEF SlotsExclusive, TakeStragglers
<1>6. BatchIsComplete'
  <2>1. SUFFICES ASSUME gpu' = "busy"
                 PROVE  /\ ready[taken] = allocated[taken] /\ allocated[taken] > 0
                        /\ Writers(taken) = {}
    BY DEF BatchIsComplete, Writers, TakeStragglers
  <2>2. taken \in Bufs /\ Complete(taken) /\ allocated[taken] > 0
    BY <1>0, <2>1 DEF TakeStragglers, Bookkeeping, TypeOK, BufOrNone
  <2>3. allocated[taken] = ready[taken] <=> Writers(taken) = {}
    BY <2>2, SlotCount
  <2>. QED BY <2>2, <2>3 DEF Complete
<1>7. NoMissedWakeup'
  BY <1>0 DEF NoMissedWakeup, CanTakePending, CanClose, Drained, Complete, TakeStragglers
<1>8. ExitMeansDrained'
  BY <1>0 DEF ExitMeansDrained, TakeStragglers
<1>. QED BY <1>1, <1>2, <1>3, <1>4, <1>5, <1>6, <1>7, <1>8 DEF IInv

\* Take returns nullptr: everything is drained.
LEMMA TakeNullInv ==
  ASSUME IInv, TakeNull
  PROVE  IInv'
<1>0. /\ TypeOK /\ Bookkeeping /\ BuffersPartitioned /\ StragglersAreWriters
      /\ SlotsExclusive /\ BatchIsComplete /\ NoMissedWakeup /\ ExitMeansDrained
  BY DEF IInv
<1>1. TypeOK'
  BY <1>0, NotifiedIs DEF TypeOK, ProdStates, GpuStates, TakeNull, Drained, CanClose
<1>2. Bookkeeping'
  BY <1>0 DEF Bookkeeping, TakeNull
<1>3. BuffersPartitioned'
  BY <1>0 DEF BuffersPartitioned, InPending, TakeNull
<1>4. StragglersAreWriters'
  BY <1>0 DEF StragglersAreWriters, Writers, TakeNull
<1>5. SlotsExclusive'
  BY <1>0 DEF SlotsExclusive, TakeNull
<1>6. BatchIsComplete'
  BY <1>0 DEF BatchIsComplete, TakeNull
<1>7. NoMissedWakeup'
  BY <1>0 DEF NoMissedWakeup, TakeNull
<1>8. ExitMeansDrained'
  <2>1. active_producers = 0 /\ pending = <<>> /\ taken = None /\ InPending = {}
    BY <1>0 DEF TakeNull, Drained, Bookkeeping, InPending
  <2>2. \A q \in Producers : prod[q] = "done"
    BY <2>1, IInvFacts
  <2>3. ASSUME NEW b \in Bufs PROVE allocated[b] = 0
    <3>1. CASE b \in free_bufs
      BY <1>0, <3>1 DEF Bookkeeping
    <3>2. CASE b = filling
      BY <3>2, IInvFacts DEF TakeNull, Drained
    <3>. QED BY <1>0, <2>1, <3>1, <3>2, IInvFacts DEF BuffersPartitioned
  <2>. QED BY <2>1, <2>2, <2>3 DEF ExitMeansDrained, TakeNull
<1>. QED BY <1>1, <1>2, <1>3, <1>4, <1>5, <1>6, <1>7, <1>8 DEF IInv

\* Take sleeps on cv_ready.
LEMMA TakeWaitInv ==
  ASSUME IInv, TakeWait
  PROVE  IInv'
<1>0. /\ TypeOK /\ Bookkeeping /\ BuffersPartitioned /\ StragglersAreWriters
      /\ SlotsExclusive /\ BatchIsComplete /\ NoMissedWakeup /\ ExitMeansDrained
  BY DEF IInv
<1>1. TypeOK'
  BY <1>0, NotifiedIs DEF TypeOK, ProdStates, GpuStates, TakeWait, CanTakePending, CanClose, Drained, Complete
<1>2. Bookkeeping'
  BY <1>0 DEF Bookkeeping, TakeWait
<1>3. BuffersPartitioned'
  BY <1>0 DEF BuffersPartitioned, InPending, TakeWait
<1>4. StragglersAreWriters'
  BY <1>0 DEF StragglersAreWriters, Writers, TakeWait
<1>5. SlotsExclusive'
  BY <1>0 DEF SlotsExclusive, TakeWait
<1>6. BatchIsComplete'
  BY <1>0 DEF BatchIsComplete, TakeWait
<1>7. NoMissedWakeup'
  BY <1>0 DEF NoMissedWakeup, CanTakePending, CanClose, Drained, Complete, TakeWait
<1>8. ExitMeansDrained'
  BY <1>0 DEF ExitMeansDrained, TakeWait
<1>. QED BY <1>1, <1>2, <1>3, <1>4, <1>5, <1>6, <1>7, <1>8 DEF IInv

\* cv_ready.wait returns spuriously.
LEMMA SpuriousReadyInv ==
  ASSUME IInv, SpuriousReady
  PROVE  IInv'
<1>0. /\ TypeOK /\ Bookkeeping /\ BuffersPartitioned /\ StragglersAreWriters
      /\ SlotsExclusive /\ BatchIsComplete /\ NoMissedWakeup /\ ExitMeansDrained
  BY DEF IInv
<1>1. TypeOK'
  BY <1>0, NotifiedIs DEF TypeOK, ProdStates, GpuStates, SpuriousReady
<1>2. Bookkeeping'
  BY <1>0, NotifiedIs DEF Bookkeeping, SpuriousReady
<1>3. BuffersPartitioned'
  BY <1>0 DEF BuffersPartitioned, InPending, SpuriousReady
<1>4. StragglersAreWriters'
  BY <1>0 DEF StragglersAreWriters, Writers, SpuriousReady
<1>5. SlotsExclusive'
  BY <1>0 DEF SlotsExclusive, SpuriousReady
<1>6. BatchIsComplete'
  BY <1>0, NotifiedIs DEF BatchIsComplete, Writers, SpuriousReady
<1>7. NoMissedWakeup'
  BY <1>0, NotifiedIs DEF NoMissedWakeup, CanTakePending, CanClose, Drained, Complete, SpuriousReady
<1>8. ExitMeansDrained'
  BY <1>0, NotifiedIs DEF ExitMeansDrained, SpuriousReady
<1>. QED BY <1>1, <1>2, <1>3, <1>4, <1>5, <1>6, <1>7, <1>8 DEF IInv

\* Recycle empties the inferred buffer.
LEMMA RecycleInv ==
  ASSUME IInv, Recycle
  PROVE  IInv'
<1>0. /\ TypeOK /\ Bookkeeping /\ BuffersPartitioned /\ StragglersAreWriters
      /\ SlotsExclusive /\ BatchIsComplete /\ NoMissedWakeup /\ ExitMeansDrained
  BY DEF IInv
<1>a. /\ gpu = "busy" /\ taken \in Bufs /\ taken # None /\ gpu' = "take" /\ taken' = None
      /\ allocated' = [allocated EXCEPT ![taken] = 0]
      /\ ready' = [ready EXCEPT ![taken] = 0]
      /\ free_bufs' = free_bufs \cup {taken}
      /\ UNCHANGED <<filling, pending, active_producers, stopping, held, slot>>
  BY <1>0 DEF Recycle, ResetCounters, Bookkeeping, TypeOK, BufOrNone
<1>b. /\ \A q \in Producers : /\ prod'[q] = "writing" <=> prod[q] = "writing"
                              /\ prod'[q] = "done" <=> prod[q] = "done"
                              /\ prod'[q] # "space" /\ prod'[q] \in ProdStates
      /\ Active(prod') = Active(prod) /\ prod' \in [Producers -> ProdStates]
  BY <1>0 DEF Recycle, WakeProducers, NotifySpace, Active, TypeOK, ProdStates
<1>c. \A q \in Producers : held[q] # taken
  BY <1>0, <1>a DEF BatchIsComplete, Writers
<1>d. taken \notin InPending /\ taken # filling /\ InPending' = InPending
  BY <1>0, <1>a DEF BuffersPartitioned, InPending
<1>1. TypeOK'
  <2>1. allocated' \in [Bufs -> 0..MaxBatch] /\ ready' \in [Bufs -> 0..MaxBatch]
    BY <1>0, <1>a, IInvFacts DEF TypeOK
  <2>. QED BY <1>0, <1>a, <1>b, <2>1 DEF TypeOK, BufOrNone, GpuStates
<1>2. Bookkeeping'
  <2>1. \A i \in DOMAIN pending : allocated'[pending[i]] = MaxBatch
    BY <1>0, <1>a, <1>d DEF Bookkeeping, InPending, TypeOK
  <2>2. active_producers' = Cardinality(Active(prod'))
    BY <1>a, <1>b, IInvFacts
  <2>3. \A b \in free_bufs' : allocated'[b] = 0 /\ ready'[b] = 0
    BY <1>0, <1>a DEF Bookkeeping, TypeOK
  <2>. QED BY <1>0, <1>a, <1>b, <1>c, <2>1, <2>2, <2>3 DEF Bookkeeping, Active
<1>3. BuffersPartitioned'
  BY <1>0, IInvFacts, NotifiedIs DEF BuffersPartitioned, InPending, TypeOK, Recycle, ResetCounters, WakeProducers, NotifySpace
<1>4. StragglersAreWriters'
  <2>1. ASSUME NEW b \in Bufs
        PROVE  allocated'[b] = ready'[b] + Cardinality(Holders(held, b))
    <3>1. CASE b # taken
      BY <1>0, <1>a, <3>1, SlotCount DEF TypeOK
    <3>2. CASE b = taken
      <4>1. Holders(held, b) = {}
        BY <1>c, <3>2 DEF Holders
      <4>2. allocated'[b] = 0 /\ ready'[b] = 0
        BY <1>0, <1>a, <3>2 DEF TypeOK
      <4>. QED BY <4>1, <4>2, FS_EmptySet
    <3>. QED BY <3>1, <3>2
  <2>. QED BY <1>a, <2>1 DEF StragglersAreWriters, Writers, Holders
<1>5. SlotsExclusive'
  <2>1. ASSUME NEW q \in Producers, held[q] # None
        PROVE  allocated'[held[q]] = allocated[held[q]]
    BY <1>0, <1>a, <1>c, <2>1 DEF TypeOK, BufOrNone
  <2>. QED BY <1>0, <1>a, <2>1 DEF SlotsExclusive
<1>6. BatchIsComplete'
  BY <1>0 DEF BatchIsComplete, Recycle
<1>7. NoMissedWakeup'
  BY <1>0 DEF NoMissedWakeup, CanTakePending, CanClose, Drained, Complete, Recycle, ResetCounters, WakeProducers, NotifySpace
<1>8. ExitMeansDrained'
  BY <1>0 DEF ExitMeansDrained, Recycle
<1>. QED BY <1>1, <1>2, <1>3, <1>4, <1>5, <1>6, <1>7, <1>8 DEF IInv

\* Stop() sets stopping and notifies everybody.
LEMMA SetStoppingInv ==
  ASSUME IInv, SetStopping
  PROVE  IInv'
<1>0. /\ TypeOK /\ Bookkeeping /\ BuffersPartitioned /\ StragglersAreWriters
      /\ SlotsExclusive /\ BatchIsComplete /\ NoMissedWakeup /\ ExitMeansDrained
  BY DEF IInv
<1>1. TypeOK'
  BY <1>0, NotifiedIs DEF TypeOK, ProdStates, GpuStates, SetStopping, WakeProducers, NotifySpace
<1>2. Bookkeeping'
  BY <1>0, NotifiedIs DEF Bookkeeping, SetStopping, WakeProducers, NotifySpace
<1>3. BuffersPartitioned'
  BY <1>0 DEF BuffersPartitioned, InPending, SetStopping
<1>4. StragglersAreWriters'
  BY <1>0 DEF StragglersAreWriters, Writers, SetStopping
<1>5. SlotsExclusive'
  BY <1>0 DEF SlotsExclusive, SetStopping
<1>6. BatchIsComplete'
  BY <1>0, NotifiedIs DEF BatchIsComplete, Writers, SetStopping, WakeProducers, NotifySpace
<1>7. NoMissedWakeup'
  BY <1>0, NotifiedIs DEF NoMissedWakeup, CanTakePending, CanClose, Drained, Complete, SetStopping, WakeProducers, NotifySpace
<1>8. ExitMeansDrained'
  BY <1>0, NotifiedIs DEF ExitMeansDrained, SetStopping, WakeProducers, NotifySpace
<1>. QED BY <1>1, <1>2, <1>3, <1>4, <1>5, <1>6, <1>7, <1>8 DEF IInv

-----------------------------------------------------------------------------
\* Every critical section of the batcher keeps the inductive invariant.
LEMMA NextInv == IInv /\ [Next]_bvars => IInv'
<1>. SUFFICES ASSUME IInv, [Next]_bvars PROVE IInv'
  OBVIOUS
<1>1. ASSUME NEW p \in Producers, ProducerStep(p) PROVE IInv'
  BY <1>1, AcquireRefusedInv, AcquireSlotInv, AcquireRotateInv, AcquireWaitInv,
     MarkReadyInv, ProducerDoneInv DEF ProducerStep
<1>2. CASE GpuStep
  BY <1>2, TakePendingInv, TakeCloseInv, TakeStragglersInv, TakeNullInv,
     TakeWaitInv, RecycleInv DEF GpuStep
<1>3. CASE SetStopping
  BY <1>3, SetStoppingInv
<1>4. CASE Spurious
  BY <1>4, SpuriousReadyInv, SpuriousSpaceInv DEF Spurious
<1>5. CASE UNCHANGED bvars
  BY <1>5 DEF bvars, IInv, TypeOK, Bookkeeping, BuffersPartitioned, InPending,
     StragglersAreWriters, Writers, SlotsExclusive, BatchIsComplete,
     NoMissedWakeup, CanTakePending, CanClose, Drained, Complete,
     ExitMeansDrained
<1>. QED BY <1>1, <1>2, <1>3, <1>4, <1>5 DEF Next

\* Every reachable state of the batcher satisfies IInv, whatever the number of
\* producers, buffers and slots.
THEOREM Invariant == Spec => []IInv
<1>. QED BY InitInv, NextInv, PTL DEF Spec

\* The variables of the batcher keep their types; in particular no counter of a
\* batch buffer passes MaxBatch.
THEOREM TypeCorrect == Spec => []TypeOK
<1>1. IInv => TypeOK
  BY DEF IInv
<1>. QED BY <1>1, Invariant, PTL

\* A batch buffer is always in exactly one place: the back-pressure pool neither
\* loses a buffer nor hands one out twice (Acquire, Take, Recycle).
THEOREM BuffersNeverShared == Spec => []BuffersPartitioned
<1>1. IInv => BuffersPartitioned
  BY DEF IInv
<1>. QED BY <1>1, Invariant, PTL

\* allocated - ready of a buffer is the number of producers writing into it, the
\* fact Take relies on when it waits for ready == allocated.
THEOREM StragglersKnown == Spec => []StragglersAreWriters
<1>1. IInv => StragglersAreWriters
  BY DEF IInv
<1>. QED BY <1>1, Invariant, PTL

\* No two producers preprocess into the same slot of the same buffer (Acquire
\* hands out each index once between two Recycle calls).
THEOREM SlotsNeverShared == Spec => []SlotsExclusive
<1>1. IInv => SlotsExclusive
  BY DEF IInv
<1>. QED BY <1>1, Invariant, PTL

\* Every batch Take() returns is non-empty and fully written: the GPU never
\* infers a slot a producer still writes.
THEOREM TakeReturnsBatches == Spec => []BatchIsComplete
<1>1. IInv => BatchIsComplete
  BY DEF IInv
<1>. QED BY <1>1, Invariant, PTL

\* The notifications of Acquire, MarkReady, ProducerDone, Take, Recycle and Stop
\* are enough: a sleeping thread whose condition holds has been notified.
THEOREM WakeUpsSuffice == Spec => []NoMissedWakeup
<1>1. IInv => NoMissedWakeup
  BY DEF IInv
<1>. QED BY <1>1, Invariant, PTL

\* When Take() returns nullptr no frame is left in any buffer and every producer
\* has finished.
THEOREM ExitIsDrained == Spec => []ExitMeansDrained
<1>1. IInv => ExitMeansDrained
  BY DEF IInv
<1>. QED BY <1>1, Invariant, PTL
=============================================================================
