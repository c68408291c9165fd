-------------------------- MODULE LockFreeProofs ---------------------------
(***************************************************************************)
(* Proofs about the two lock-free structures of crates/queue and           *)
(* crates/seqlock.                                                         *)
(*                                                                         *)
(* For every capacity, every set of batch sizes, every number of values,   *)
(* either engine and either kind of access, the SPSC rings are safe.  The  *)
(* argument is the inductive invariant IInv of SpscRing: the six copies of *)
(* the two positions keep their circular order (RingOrder), the slots      *)
(* between them hold exactly the values in transit (Contents), and each    *)
(* thread's claim on slots is covered by its own, possibly stale, cached   *)
(* index (ProducerClaim, ConsumerClaim).                                   *)
(*                                                                         *)
(* For any number of readers, words and stores and any width of the        *)
(* counter, load of the sequence lock never returns a stale value, and     *)
(* never a torn one when the writer's stores become visible in program     *)
(* order.                                                                  *)
(***************************************************************************)
EXTENDS Rings, SeqLock, TLAPS

(***************************************************************************)
(* Lemmas about index arithmetic.                                          *)
(***************************************************************************)

\* wrap of an index less than one lap past the end subtracts one lap.
LEMMA WrapOnce ==
    ASSUME NEW i \in 0..(2 * Cap - 1)
    PROVE  Wrap(i) = IF i < Cap THEN i ELSE i - Cap
<1>1. CASE i < Cap
  BY <1>1, CapAssumption DEF Wrap
<1>2. CASE ~(i < Cap)
  BY <1>2, CapAssumption DEF Wrap
<1> QED
  BY <1>1, <1>2

\* The distance between two slots is less than the number of slots.
LEMMA SpanType ==
    ASSUME NEW a \in Index, NEW b \in Index
    PROVE  Span(a, b) \in Index /\ (Span(a, b) = 0 <=> a = b)
BY CapAssumption DEF Span, Index

\* Advancing an index by n slots of the span up to b takes n off that span.
LEMMA SpanAdvanceFrom ==
    ASSUME NEW a \in Index, NEW b \in Index, NEW n \in 0..Span(a, b)
    PROVE  /\ Wrap(a + n) \in Index
           /\ Span(Wrap(a + n), b) = Span(a, b) - n
           /\ Span(a, Wrap(a + n)) = n
<1>1. a + n \in 0..(2 * Cap - 1)
  BY CapAssumption DEF Span, Index
<1> QED
  BY <1>1, WrapOnce, CapAssumption DEF Span, Index

\* Advancing b by n slots, short of a full lap from a, adds n to the span.
LEMMA SpanAdvanceTo ==
    ASSUME NEW a \in Index, NEW b \in Index, NEW n \in Nat, Span(a, b) + n < Cap
    PROVE  /\ Wrap(b + n) \in Index
           /\ Span(a, Wrap(b + n)) = Span(a, b) + n
<1>1. b + n \in 0..(2 * Cap - 1)
  BY CapAssumption DEF Span, Index
<1> QED
  BY <1>1, WrapOnce, CapAssumption DEF Span, Index

\* Spans add up along the ring.
LEMMA SpanSplit ==
    ASSUME NEW a \in Index, NEW b \in Index, NEW c \in Index, Span(a, b) <= Span(a, c)
    PROVE  Span(b, c) = Span(a, c) - Span(a, b)
BY CapAssumption DEF Span, Index

\* The two chunks of a batch cover exactly the n slots that follow s, and
\* element number Span(s, j) of the batch goes to slot j.
LEMMA ChunksAreSpan ==
    ASSUME NEW s \in Index, NEW n \in 0..Cap, NEW j \in Index
    PROVE  /\ InChunks(s, n, j) <=> Span(s, j) < n
           /\ InChunks(s, n, j) => ChunkPos(s, n, j) = Span(s, j)
BY CapAssumption DEF InChunks, ChunkPos, FirstChunk, MinOf, Span, Index

\* The one-slot test of push: the next head meets t when no slot is free.
LEMMA FullTest ==
    ASSUME NEW t \in Index, head_local \in Index
    PROVE  /\ FreeSlots(t) \in 0..Usable
           /\ Wrap(head_local + 1) = t <=> FreeSlots(t) = 0
<1>1. head_local + 1 \in 0..(2 * Cap - 1)
  BY CapAssumption DEF Index
<1> QED
  BY <1>1, WrapOnce, CapAssumption DEF FreeSlots, Usable, Span, Index

-----------------------------------------------------------------------------
(***************************************************************************)
(* The inductive invariant.                                                *)
(***************************************************************************)

\* A new ring satisfies the invariant.
LEMMA InitIInv == Init => IInv
BY CapAssumption DEF Init, IInv, TypeOK, RingOrder, Counts, ProducerClaim, ConsumerClaim,
   Contents, Dropped, InOrder, Span, Index, PPcs, CPcs, taken, written, Vacant

\* What the order of the six positions says about the spans the two threads
\* compute from them.
LEMMA OrderFacts ==
    ASSUME TypeOK, RingOrder, Counts
    PROVE  /\ Span(tail_cached, head_local) = Span(tail_cached, tail_local) + (sent - received)
           /\ Span(tail_local, head_cached) <= Span(tail_local, head)
           /\ Span(tail_local, head) <= sent - received
           /\ Span(tail, head_local) = Span(tail, tail_local) + (sent - received)
           /\ Span(tail, head_local) < Cap
BY SpanSplit, SpanType, CapAssumption DEF TypeOK, RingOrder, Counts, Span, Index

\* The producer's claim, measured from the consumer's own position.
LEMMA ProducerRoom ==
    ASSUME IInv, ppc \in {"write", "publish"}
    PROVE  /\ pn \in 1..Usable
           /\ Span(tail_cached, head_local) + pn < Cap
           /\ Span(tail_local, head_local) + pn < Cap
<1>1. /\ Span(tail_cached, tail_local) \in Index
      /\ Span(tail_cached, head_local) \in Index
      /\ Span(tail_local, head_local) \in Index
  BY SpanType DEF IInv, TypeOK
<1>2. pn \in Nat /\ 1 <= pn /\ pn <= Usable - Span(tail_cached, head_local)
  BY DEF IInv, TypeOK, ProducerClaim, FreeSlots
<1>3. Span(tail_cached, head_local) = Span(tail_cached, tail_local) + Span(tail_local, head_local)
  BY OrderFacts DEF IInv, Counts
<1> QED
  BY <1>1, <1>2, <1>3, CapAssumption DEF Usable, Index

\* The consumer's claim, measured up to the producer's own position.
LEMMA ConsumerRoom ==
    ASSUME IInv, cpc \in {"read", "publish"}
    PROVE  /\ cn \in 1..Usable
           /\ cn <= Span(tail_local, head_cached)
           /\ cn <= Span(tail_local, head)
           /\ cn <= Span(tail_local, head_local)
<1>1. /\ Span(tail_local, head_cached) \in Index
      /\ Span(tail_local, head) \in Index
      /\ Span(tail_local, head_local) \in Index
  BY SpanType DEF IInv, TypeOK
<1>2. cn \in Nat /\ 1 <= cn /\ cn <= Span(tail_local, head_cached)
  BY DEF IInv, TypeOK, ConsumerClaim
<1>3. /\ Span(tail_local, head_cached) <= Span(tail_local, head)
      /\ Span(tail_local, head) <= Span(tail_local, head_local)
  BY OrderFacts DEF IInv, Counts
<1> QED
  BY <1>1, <1>2, <1>3, CapAssumption DEF Usable, Index

\* The values read out but not released are among the values in transit.
LEMMA TakenBound ==
    ASSUME IInv
    PROVE  taken \in Nat /\ taken <= sent - received /\ sent - received \in Index
<1>1. Span(tail_local, head_local) \in Index /\ Span(tail_local, head_local) = sent - received
  BY SpanType DEF IInv, TypeOK, Counts
<1>2. CASE cpc = "publish"
  BY <1>1, <1>2, ConsumerRoom, CapAssumption DEF taken, Usable, Index
<1>3. CASE cpc # "publish"
  BY <1>1, <1>3, CapAssumption DEF taken, Index
<1> QED
  BY <1>2, <1>3

\* A single push starts.
LEMMA PushStep == IInv /\ Push => IInv'
<1> SUFFICES ASSUME IInv, Push PROVE IInv'
  OBVIOUS
<1> USE DEF IInv, Push, consVars
<1>1. TypeOK' /\ RingOrder' /\ Counts' /\ Dropped' /\ InOrder' /\ ConsumerClaim'
  BY DEF TypeOK, PPcs, RingOrder, Counts, Dropped, InOrder, ConsumerClaim, Span
<1>2. Contents'
  BY DEF Contents, taken, written, Span
<1>3. ProducerClaim'
  BY FullTest DEF ProducerClaim, TypeOK, FreeSlots, Usable, Span
<1> QED
  BY <1>1, <1>2, <1>3

\* A single push refreshes its cached tail.
LEMMA PushReloadStep == IInv /\ PushReload => IInv'
<1> SUFFICES ASSUME IInv, PushReload PROVE IInv'
  OBVIOUS
<1> USE DEF IInv, PushReload, consVars
<1>1. TypeOK' /\ Counts' /\ Dropped' /\ InOrder' /\ ConsumerClaim'
  BY DEF TypeOK, PPcs, Counts, Dropped, InOrder, ConsumerClaim, Span
<1>2. RingOrder'
  BY SpanSplit, SpanType, CapAssumption DEF RingOrder, TypeOK, Index, Span
<1>3. Contents'
  BY DEF Contents, taken, written, Span
<1>4. ProducerClaim'
  BY FullTest DEF ProducerClaim, TypeOK, FreeSlots, Usable, Span
<1> QED
  BY <1>1, <1>2, <1>3, <1>4

\* A batch push starts.
LEMMA PushBatchStep == ASSUME NEW n \in BatchSizes PROVE IInv /\ PushBatch(n) => IInv'
<1> SUFFICES ASSUME IInv, PushBatch(n) PROVE IInv'
  OBVIOUS
<1> USE DEF IInv, PushBatch, consVars
<1>0. n \in Nat /\ n >= 1
  BY BatchAssumption
<1>1. TypeOK' /\ RingOrder' /\ Counts' /\ Dropped' /\ InOrder' /\ ConsumerClaim'
  BY <1>0 DEF TypeOK, PPcs, RingOrder, Counts, Dropped, InOrder, ConsumerClaim, Span
<1>2. Contents'
  BY DEF Contents, taken, written, Span
<1>3. ProducerClaim'
  BY SMTT(30), <1>0, FullTest DEF ProducerClaim, TypeOK, FreeSlots, Usable, Span, Index
<1> QED
  BY <1>1, <1>2, <1>3

\* A batch push refreshes its cached tail.
LEMMA PushBatchReloadStep == IInv /\ PushBatchReload => IInv'
<1> SUFFICES ASSUME IInv, PushBatchReload PROVE IInv'
  OBVIOUS
<1> USE DEF IInv, PushBatchReload, consVars
<1>0. FreeSlots(tail) \in 0..Usable
  BY FullTest DEF TypeOK
<1>1. TypeOK'
  BY <1>0, CapAssumption DEF TypeOK, PPcs, MinOf, Usable
<1>2. Counts' /\ Dropped' /\ InOrder' /\ ConsumerClaim'
  BY DEF Counts, Dropped, InOrder, ConsumerClaim, Span
<1>3. RingOrder'
  BY SpanSplit, SpanType, CapAssumption DEF RingOrder, TypeOK, Index, Span
<1>4. Contents'
  BY DEF Contents, taken, written, Span
<1>5. ProducerClaim'
  BY <1>0, CapAssumption DEF ProducerClaim, TypeOK, FreeSlots, Usable, Span, MinOf
<1> QED
  BY <1>1, <1>2, <1>3, <1>4, <1>5

\* The producer fills its free slots.
LEMMA WriteSlotsStep == IInv /\ WriteSlots => IInv'
<1> SUFFICES ASSUME IInv, WriteSlots PROVE IInv'
  OBVIOUS
<1> USE DEF IInv, WriteSlots, consVars
<1>0. pn \in 0..Cap /\ Span(tail_local, head_local) + pn < Cap
  BY ProducerRoom, CapAssumption DEF Usable
<1>1. TypeOK'
  BY <1>0, CapAssumption DEF TypeOK, PPcs, ChunkPos, FirstChunk, MinOf, Index
<1>2. RingOrder' /\ Counts' /\ Dropped' /\ InOrder' /\ ConsumerClaim'
  BY DEF RingOrder, Counts, Dropped, InOrder, ConsumerClaim, Span
<1>3. ProducerClaim'
  BY DEF ProducerClaim, FreeSlots, Span
<1>4. Contents'
  <2> SUFFICES ASSUME alive, NEW j \in Index
               PROVE  slots'[j] = IF taken <= Span(tail_local, j)
                                     /\ Span(tail_local, j) < sent - received + pn
                                  THEN received + 1 + Span(tail_local, j) ELSE Vacant
    BY DEF Contents, taken, written, Span
  <2>1. /\ InChunks(head_local, pn, j) <=> Span(head_local, j) < pn
        /\ InChunks(head_local, pn, j) => ChunkPos(head_local, pn, j) = Span(head_local, j)
    BY <1>0, ChunksAreSpan DEF TypeOK
  <2>2. /\ Span(head_local, j) < pn <=>
               /\ sent - received <= Span(tail_local, j)
               /\ Span(tail_local, j) < sent - received + pn
        /\ Span(head_local, j) < pn =>
               Span(tail_local, j) = sent - received + Span(head_local, j)
    BY <1>0, CapAssumption DEF TypeOK, Counts, Span, Index
  <2>3. taken <= sent - received
    BY TakenBound
  <2>4. slots[j] = IF taken <= Span(tail_local, j) /\ Span(tail_local, j) < sent - received
                   THEN received + 1 + Span(tail_local, j) ELSE Vacant
    BY DEF Contents, written, TypeOK
  <2>5. Span(tail_local, j) \in Nat /\ Span(head_local, j) \in Nat
    BY SpanType DEF TypeOK, Index
  <2>6. slots'[j] = IF InChunks(head_local, pn, j)
                    THEN sent + 1 + ChunkPos(head_local, pn, j) ELSE slots[j]
    OBVIOUS
  <2>7. sent \in Nat /\ received \in Nat /\ pn \in Nat /\ taken \in Nat
    BY DEF TypeOK, taken
  <2> HIDE DEF WriteSlots, IInv
  <2> QED
    BY <2>1, <2>2, <2>3, <2>4, <2>5, <2>6, <2>7
<1> QED
  BY <1>1, <1>2, <1>3, <1>4

\* The producer publishes them.
LEMMA PublishHeadStep == IInv /\ PublishHead => IInv'
<1> SUFFICES ASSUME IInv, PublishHead PROVE IInv'
  OBVIOUS
<1> USE DEF IInv, PublishHead, consVars
<1>0. /\ pn \in Nat
      /\ Span(tail_cached, head_local) + pn < Cap
      /\ Span(tail_local, head_local) + pn < Cap
  BY ProducerRoom DEF TypeOK
<1>a. /\ Span(tail_cached, Wrap(head_local + pn)) = Span(tail_cached, head_local) + pn
      /\ Span(tail_local, Wrap(head_local + pn)) = Span(tail_local, head_local) + pn
      /\ Wrap(head_local + pn) \in Index
  BY <1>0, SpanAdvanceTo DEF TypeOK
<1>1. TypeOK'
  BY <1>a DEF TypeOK, PPcs
<1>2. RingOrder'
  <2>1. /\ Span(tail_cached, head) \in Index
        /\ Span(tail_cached, head_local) \in Index
    BY SpanType DEF TypeOK
  <2>2. Span(tail_cached, head) <= Span(tail_cached, head_local')
    BY <1>0, <1>a, <2>1, CapAssumption DEF RingOrder, Index
  <2> QED
    BY <2>2 DEF RingOrder, Span
<1>3. Counts'
  <2>1. Span(tail_local, head_local') = sent' - received
    BY <1>a DEF Counts, TypeOK
  <2> QED
    BY <2>1 DEF Counts, Span
<1>4. Dropped' /\ InOrder' /\ ConsumerClaim' /\ ProducerClaim'
  BY DEF Dropped, InOrder, ConsumerClaim, ProducerClaim, Span
<1>5. Contents'
  BY DEF Contents, taken, written, Span, TypeOK
<1> QED
  BY <1>1, <1>2, <1>3, <1>4, <1>5

\* Index stores become visible to the other thread.
LEMMA PropagateStep == IInv /\ (PropagateHead \/ PropagateTail) => IInv'
<1> SUFFICES ASSUME IInv, PropagateHead \/ PropagateTail PROVE IInv'
  OBVIOUS
<1> USE DEF IInv, PropagateHead, PropagateTail, prodVars, consVars
<1>1. TypeOK' /\ Counts' /\ Dropped' /\ InOrder' /\ ConsumerClaim' /\ ProducerClaim'
  BY DEF TypeOK, Counts, Dropped, InOrder, ConsumerClaim, ProducerClaim, FreeSlots, Span
<1>2. RingOrder'
  <2>1. \A i \in Index : Span(tail_cached, i) \in Index
    BY SpanType DEF TypeOK
  <2>2. CASE PropagateHead
    BY <2>1, <2>2, CapAssumption DEF RingOrder, TypeOK, Span, Index
  <2>3. CASE PropagateTail
    BY <2>1, <2>3, CapAssumption DEF RingOrder, TypeOK, Span, Index
  <2> QED
    BY <2>2, <2>3
<1>3. Contents'
  BY DEF Contents, taken, written, Span
<1> QED
  BY <1>1, <1>2, <1>3

\* A single pop starts.
LEMMA PopStep == IInv /\ Pop => IInv'
<1> SUFFICES ASSUME IInv, Pop PROVE IInv'
  OBVIOUS
<1> USE DEF IInv, Pop, prodVars
<1>1. TypeOK' /\ RingOrder' /\ Counts' /\ Dropped' /\ InOrder' /\ ProducerClaim'
  BY DEF TypeOK, CPcs, RingOrder, Counts, Dropped, InOrder, ProducerClaim, FreeSlots, Span
<1>2. Contents'
  BY DEF Contents, taken, written, Span
<1>3. ConsumerClaim'
  <2>1. tail_local # head_cached => Span(tail_local, head_cached) >= 1
    <3>1. /\ Span(tail_local, head_cached) \in Index
          /\ Span(tail_local, head_cached) = 0 <=> tail_local = head_cached
      BY SpanType DEF TypeOK
    <3> QED
      BY <3>1, CapAssumption DEF Index
  <2> QED
    BY <2>1 DEF ConsumerClaim, Span
<1> QED
  BY <1>1, <1>2, <1>3

\* A pop batch starts.
LEMMA PopBatchStep == ASSUME NEW n \in BatchSizes PROVE IInv /\ PopBatch(n) => IInv'
<1> SUFFICES ASSUME IInv, PopBatch(n) PROVE IInv'
  OBVIOUS
<1> USE DEF IInv, PopBatch, prodVars
<1>0. n \in Nat /\ n >= 1
  BY BatchAssumption
<1>1. TypeOK' /\ RingOrder' /\ Counts' /\ Dropped' /\ InOrder' /\ ProducerClaim'
  BY <1>0 DEF TypeOK, CPcs, RingOrder, Counts, Dropped, InOrder, ProducerClaim, FreeSlots, Span
<1>2. Contents'
  BY DEF Contents, taken, written, Span
<1>3. ConsumerClaim'
  <2>1. Span(tail_local, head_cached) \in Int
    BY SpanType, CapAssumption DEF TypeOK, Index
  <2> QED
    BY <1>0, <2>1 DEF ConsumerClaim, Span
<1> QED
  BY <1>1, <1>2, <1>3

\* A pop refreshes its cached head.
LEMMA PopReloadStep == IInv /\ (PopReload \/ PopBatchReload) => IInv'
<1> SUFFICES ASSUME IInv, PopReload \/ PopBatchReload PROVE IInv'
  OBVIOUS
<1> USE DEF IInv, PopReload, PopBatchReload, prodVars
<1>0. Span(tail_local, head) \in Nat /\ (Span(tail_local, head) = 0 <=> tail_local = head)
  BY SpanType, CapAssumption DEF TypeOK, Index
<1>1. TypeOK'
  <2>1. <<>> \in Seq(Nat)
    OBVIOUS
  <2> QED
    BY <1>0, <2>1 DEF TypeOK, CPcs, MinOf
<1>2. Counts' /\ Dropped' /\ InOrder' /\ ProducerClaim'
  BY DEF Counts, Dropped, InOrder, ProducerClaim, FreeSlots, Span
<1>3. RingOrder'
  <2>1. /\ Span(tail_cached, tail_local) \in Index
        /\ Span(tail_cached, head_cached) \in Index
        /\ Span(tail_cached, head) \in Index
    BY SpanType DEF TypeOK
  <2>2. Span(tail_cached, tail_local) <= Span(tail_cached, head)
    BY <2>1, CapAssumption DEF RingOrder, Index
  <2>3. Span(tail_cached, head) <= Span(tail_cached, head)
    BY <2>1, CapAssumption DEF Index
  <2>4. /\ head_cached' = head
        /\ UNCHANGED <<tail_cached, tail, tail_local, head, head_local>>
    OBVIOUS
  <2> HIDE DEF PopReload, PopBatchReload
  <2> QED
    BY <2>2, <2>3, <2>4 DEF RingOrder, Span
<1>4. Contents'
  BY DEF Contents, taken, written, Span
<1>5. ConsumerClaim'
  BY SMTT(30), <1>0, CapAssumption DEF ConsumerClaim, TypeOK, MinOf, Span
<1> QED
  BY <1>1, <1>2, <1>3, <1>4, <1>5

\* What the consumer reads is the next cn values in order.
LEMMA ReadValues ==
    ASSUME IInv, ReadSlots, NEW i \in 1..cn
    PROVE  (IF i <= FirstChunk(tail_local, cn)
            THEN slots[tail_local + i - 1]
            ELSE slots[i - 1 - FirstChunk(tail_local, cn)]) = received + i
<1> DEFINE j == IF i <= FirstChunk(tail_local, cn)
                THEN tail_local + i - 1 ELSE i - 1 - FirstChunk(tail_local, cn)
<1>0. /\ cn \in 1..Usable /\ cn <= sent - received /\ tail_local \in Index
      /\ sent \in Nat /\ received \in Nat /\ written \in Nat
  BY ConsumerRoom DEF ReadSlots, IInv, TypeOK, Counts, written
<1>1. j \in Index /\ Span(tail_local, j) = i - 1
  BY <1>0, CapAssumption DEF FirstChunk, MinOf, Span, Index, Usable
<1>2. alive /\ taken = 0
  BY DEF ReadSlots, IInv, Dropped, taken, TypeOK
<1>3. slots[j] = received + 1 + (i - 1)
  <2> HIDE DEF j
  <2> QED
    BY <1>0, <1>1, <1>2 DEF IInv, Contents
<1> QED
  BY <1>0, <1>3

\* The consumer moves values out of its slots.
LEMMA ReadSlotsStep == IInv /\ ReadSlots => IInv'
<1> SUFFICES ASSUME IInv, ReadSlots PROVE IInv'
  OBVIOUS
<1>0. /\ cn \in 1..Usable /\ cn \in 0..Cap /\ cn <= sent - received /\ tail_local \in Index
      /\ received \in Nat /\ sent \in Nat
  BY ConsumerRoom, CapAssumption DEF ReadSlots, IInv, TypeOK, Counts, Usable
<1>1. got' = [i \in 1..cn |-> received + i]
  BY ReadValues DEF ReadSlots
<1>2. TypeOK'
  <2>1. got' \in Seq(Nat)
    BY <1>0, <1>1
  <2> QED
    BY <2>1 DEF IInv, ReadSlots, prodVars, TypeOK, CPcs, Vacant
<1>3. InOrder'
  BY <1>1 DEF InOrder, ReadSlots
<1>4. RingOrder' /\ Counts' /\ Dropped' /\ ProducerClaim' /\ ConsumerClaim'
  BY DEF IInv, ReadSlots, prodVars, RingOrder, Counts, Dropped, ProducerClaim, ConsumerClaim,
     FreeSlots, Span
<1>5. Contents'
  <2> SUFFICES ASSUME alive, NEW j \in Index
               PROVE  slots'[j] = IF cn <= Span(tail_local, j)
                                     /\ Span(tail_local, j) < sent - received + written
                                  THEN received + 1 + Span(tail_local, j) ELSE Vacant
    BY DEF IInv, ReadSlots, prodVars, Contents, taken, written, Span
  <2>1. InChunks(tail_local, cn, j) <=> Span(tail_local, j) < cn
    BY <1>0, ChunksAreSpan
  <2>2. slots[j] = IF 0 <= Span(tail_local, j)
                      /\ Span(tail_local, j) < sent - received + written
                   THEN received + 1 + Span(tail_local, j) ELSE Vacant
    BY DEF IInv, ReadSlots, Contents, taken
  <2>3. slots'[j] = IF InChunks(tail_local, cn, j) THEN Vacant ELSE slots[j]
    BY DEF ReadSlots
  <2>4. Span(tail_local, j) \in Nat
    BY <1>0, SpanType, CapAssumption DEF Index
  <2> QED
    BY <1>0, <2>1, <2>2, <2>3, <2>4
<1> QED
  BY <1>2, <1>3, <1>4, <1>5 DEF IInv

\* The consumer releases its slots.
LEMMA PublishTailStep == IInv /\ PublishTail => IInv'
<1> SUFFICES ASSUME IInv, PublishTail PROVE IInv'
  OBVIOUS
<1> DEFINE t == Wrap(tail_local + cn)
<1>0. /\ cn \in 1..Usable /\ cn \in Nat /\ cn <= sent - received /\ tail_local \in Index
      /\ received \in Nat /\ sent \in Nat /\ written \in Nat
      /\ cn \in 0..Span(tail_local, head_local)
      /\ cn \in 0..Span(tail_local, head_cached)
      /\ head_local \in Index /\ head_cached \in Index /\ tail_cached \in Index
  <2>1. /\ Span(tail_local, head_local) \in Index
        /\ Span(tail_local, head_cached) \in Index
    BY SpanType DEF IInv, TypeOK
  <2> QED
    BY SMTT(30), <2>1, ConsumerRoom, CapAssumption
       DEF PublishTail, IInv, TypeOK, Counts, Usable, Index, written
<1>1. /\ t \in Index
      /\ Span(t, head_local) = Span(tail_local, head_local) - cn
  BY <1>0, SpanAdvanceFrom
<1>2. /\ Span(tail_cached, t) = Span(tail_cached, tail_local) + cn
      /\ Span(tail_cached, t) <= Span(tail_cached, head_cached)
  <2>1. /\ Span(tail_cached, tail_local) \in Index
        /\ Span(tail_cached, head_cached) \in Index
        /\ Span(tail_cached, tail_local) <= Span(tail_cached, head_cached)
    BY <1>0, SpanType DEF IInv, RingOrder
  <2>2. Span(tail_local, head_cached) = Span(tail_cached, head_cached) - Span(tail_cached, tail_local)
    BY <1>0, <2>1, SpanSplit
  <2>3. Span(tail_cached, tail_local) + cn <= Span(tail_cached, head_cached)
    BY <1>0, <2>1, <2>2, CapAssumption DEF Index
  <2>4. Span(tail_cached, tail_local) + cn < Cap
    BY <1>0, <2>1, <2>3, CapAssumption DEF Index
  <2> QED
    BY <1>0, <2>3, <2>4, SpanAdvanceTo
<1>3. /\ tail_local' = t /\ received' = received + cn /\ cpc' = "idle" /\ cpc = "publish"
      /\ UNCHANGED <<head, tail, slots, alive, head_cached, cn, got, prodVars>>
  BY DEF PublishTail
<1> HIDE DEF t
<1>4. TypeOK'
  BY <1>0, <1>1, <1>3 DEF IInv, TypeOK, CPcs, prodVars
<1>5. RingOrder'
  <2>1. Span(tail_cached, tail) <= Span(tail_cached, t)
    <3>1. Span(tail_cached, tail) \in Index /\ Span(tail_cached, tail_local) \in Index
      BY SpanType DEF IInv, TypeOK
    <3>2. Span(tail_cached, tail) <= Span(tail_cached, tail_local)
      BY DEF IInv, RingOrder
    <3> QED
      BY <1>0, <1>2, <3>1, <3>2, CapAssumption DEF Index
  <2> QED
    BY <1>2, <1>3, <2>1 DEF IInv, RingOrder, Span, prodVars
<1>6. Counts'
  <2>1. Span(t, head_local) = sent - (received + cn)
    BY <1>0, <1>1 DEF IInv, Counts
  <2> QED
    BY <1>3, <2>1 DEF Counts, Span, prodVars
<1>7. Dropped' /\ InOrder' /\ ProducerClaim' /\ ConsumerClaim'
  BY <1>3 DEF IInv, Dropped, InOrder, ProducerClaim, ConsumerClaim, FreeSlots, Span, prodVars
<1>8. Contents'
  <2> SUFFICES ASSUME alive, NEW j \in Index
               PROVE  slots[j] = IF 0 <= Span(t, j)
                                    /\ Span(t, j) < sent - (received + cn) + written
                                 THEN received + cn + 1 + Span(t, j) ELSE Vacant
    BY <1>3 DEF Contents, taken, written, Span, prodVars
  <2>1. slots[j] = IF cn <= Span(tail_local, j)
                      /\ Span(tail_local, j) < sent - received + written
                   THEN received + 1 + Span(tail_local, j) ELSE Vacant
    BY <1>3 DEF IInv, Contents, taken
  <2>2. Span(t, j) \in 0..(Cap - 1) /\ Span(tail_local, j) \in 0..(Cap - 1)
    BY <1>0, <1>1, SpanType DEF Index
  <2>3. CASE cn <= Span(tail_local, j)
    <3>1. Span(t, j) = Span(tail_local, j) - cn
      BY <1>0, <2>2, <2>3, SpanAdvanceFrom DEF t
    <3> QED
      BY <1>0, <2>1, <2>2, <2>3, <3>1
  <2>4. CASE Span(tail_local, j) < cn
    \* slot j was just released: from t it is reached only after a lap
    <3>1. Span(t, j) = Cap - cn + Span(tail_local, j)
      <4>1. tail_local + cn \in 0..(2 * Cap - 1)
        BY <1>0, CapAssumption DEF Index, Usable
      <4> QED
        BY <1>0, <4>1, <2>4, WrapOnce, CapAssumption DEF t, Span, Index, Usable
    <3>2. sent - received + written < Cap
      <4>1. CASE ppc = "publish"
        BY <4>1, ProducerRoom DEF written, IInv, Counts
      <4>2. CASE ppc # "publish"
        BY <4>2, TakenBound, CapAssumption DEF written, Index
      <4> QED
        BY <4>1, <4>2
    <3> QED
      BY <1>0, <2>1, <2>2, <2>4, <3>1, <3>2, CapAssumption
  <2> QED
    BY <1>0, <2>2, <2>3, <2>4, CapAssumption
<1> QED
  BY <1>4, <1>5, <1>6, <1>7, <1>8 DEF IInv

\* What Drop does to either instance of the engine.
DropRange ==
    /\ alive /\ ppc = "idle" /\ cpc = "idle"
    /\ head' = head_local /\ tail' = tail_local
    /\ slots' = [j \in Index |-> IF Span(tail_local, j) < Span(tail_local, head_local)
                                 THEN Vacant ELSE slots[j]]
    /\ alive' = FALSE
    /\ UNCHANGED <<prodVars, consVars>>

\* The engine is dropped.
LEMMA DropStep == IInv /\ DropRange => IInv'
<1> SUFFICES ASSUME IInv, DropRange PROVE IInv'
  OBVIOUS
<1>1. TypeOK' /\ Counts' /\ InOrder' /\ ProducerClaim' /\ ConsumerClaim' /\ Contents'
  BY DEF IInv, DropRange, TypeOK, Counts, InOrder, ProducerClaim, ConsumerClaim, Contents,
     Vacant, Span, prodVars, consVars
<1>2. RingOrder'
  <2>1. /\ Span(tail_cached, tail_local) \in Index
        /\ Span(tail_cached, head_cached) \in Index
        /\ Span(tail_cached, head) \in Index
        /\ Span(tail_cached, head_local) \in Index
    BY SpanType DEF IInv, TypeOK
  <2>2. /\ Span(tail_cached, tail_local) <= Span(tail_cached, tail_local)
        /\ Span(tail_cached, head_cached) <= Span(tail_cached, head_local)
        /\ Span(tail_cached, head_local) <= Span(tail_cached, head_local)
    BY <2>1, CapAssumption DEF IInv, RingOrder, Index
  <2> QED
    BY <2>2 DEF IInv, DropRange, RingOrder, Span, prodVars, consVars
<1>3. Dropped'
  <2> SUFFICES ASSUME NEW j \in Index PROVE slots'[j] = Vacant
    BY DEF Dropped, DropRange, prodVars, consVars
  <2>1. slots[j] = IF 0 <= Span(tail_local, j) /\ Span(tail_local, j) < sent - received + 0
                   THEN received + 1 + Span(tail_local, j) ELSE Vacant
    BY DEF IInv, DropRange, Contents, taken, written
  <2>2. sent \in Nat /\ received \in Nat /\ tail_local \in Index
    BY DEF IInv, TypeOK
  <2>3. Span(tail_local, j) \in Nat
    BY <2>2, SpanType, CapAssumption DEF Index
  <2> QED
    BY <2>1, <2>2, <2>3 DEF IInv, DropRange, Counts
<1> QED
  BY <1>1, <1>2, <1>3 DEF IInv

\* IInv is inductive.
LEMMA NextIInv == IInv /\ [Next]_vars => IInv'
<1> SUFFICES ASSUME IInv, [Next]_vars PROVE IInv'
  OBVIOUS
<1>1. CASE Producer
  BY <1>1, PushStep, PushReloadStep, PushBatchStep, PushBatchReloadStep, WriteSlotsStep,
     PublishHeadStep DEF Producer
<1>2. CASE Consumer
  BY <1>2, PopStep, PopReloadStep, PopBatchStep, ReadSlotsStep, PublishTailStep DEF Consumer
<1>3. CASE PropagateHead \/ PropagateTail
  BY <1>3, PropagateStep
<1>4. CASE Drop
  BY <1>4, DropStep DEF Drop, DropRange
<1>5. CASE UNCHANGED vars
  BY <1>5 DEF vars, prodVars, consVars, IInv, TypeOK, RingOrder, Counts, ProducerClaim,
     ConsumerClaim, Contents, Dropped, InOrder, FreeSlots, Span, taken, written
<1> QED
  BY <1>1, <1>2, <1>3, <1>4, <1>5 DEF Next

\* The RingEngine is the CopyRingEngine without its batch operations, and
\* with a Drop.
LEMMA RingEngineStep ==
    /\ RingEngine!Producer => Producer
    /\ RingEngine!Consumer => Consumer
    /\ RingEngine!Drop => DropRange
<1>1. RingEngine!Producer => Producer
  BY DEF Producer, RingEngine!Producer, Push, RingEngine!Push, PushReload,
     RingEngine!PushReload, PushBatchReload, RingEngine!PushBatchReload, WriteSlots,
     RingEngine!WriteSlots, PublishHead, RingEngine!PublishHead, Wrap, RingEngine!Wrap,
     FreeSlots, RingEngine!FreeSlots, Usable, RingEngine!Usable, Span, RingEngine!Span,
     MinOf, RingEngine!MinOf, Index, RingEngine!Index, InChunks, RingEngine!InChunks,
     ChunkPos, RingEngine!ChunkPos, FirstChunk, RingEngine!FirstChunk,
     consVars, RingEngine!consVars
<1>2. RingEngine!Consumer => Consumer
  BY DEF Consumer, RingEngine!Consumer, Pop, RingEngine!Pop, PopReload,
     RingEngine!PopReload, PopBatchReload, RingEngine!PopBatchReload, ReadSlots,
     RingEngine!ReadSlots, PublishTail, RingEngine!PublishTail, Wrap, RingEngine!Wrap,
     Span, RingEngine!Span, MinOf, RingEngine!MinOf, Index, RingEngine!Index, InChunks,
     RingEngine!InChunks, FirstChunk, RingEngine!FirstChunk, Vacant, RingEngine!Vacant,
     prodVars, RingEngine!prodVars
<1>3. RingEngine!Drop => DropRange
  BY DEF DropRange, RingEngine!Drop, Index, RingEngine!Index, Span, RingEngine!Span,
     Vacant, RingEngine!Vacant, prodVars, RingEngine!prodVars, consVars,
     RingEngine!consVars
<1> QED
  BY <1>1, <1>2, <1>3

\* A step of the ring that a preset chose is a step of the CopyRingEngine or
\* the drop of a RingEngine.
LEMMA RingsStep == [RingsNext]_ringVars => [Next]_vars \/ DropRange
<1> SUFFICES ASSUME [RingsNext]_ringVars PROVE [Next]_vars \/ DropRange
  OBVIOUS
<1>1. CASE Produce
  BY <1>1, RingEngineStep DEF Produce, RingProducer, CopyProducer, Next
<1>2. CASE Consume
  BY <1>2, RingEngineStep DEF Consume, RingConsumer, CopyConsumer, Next
<1>3. CASE Propagate
  BY <1>3 DEF Propagate, Next
<1>4. CASE DropRing
  BY <1>4, RingEngineStep DEF DropRing
<1>5. CASE UNCHANGED ringVars
  BY <1>5 DEF ringVars
<1> QED
  BY <1>1, <1>2, <1>3, <1>4, <1>5 DEF RingsNext

-----------------------------------------------------------------------------
(***************************************************************************)
(* The theorems, about every preset of Rings.                              *)
(***************************************************************************)

\* The inductive invariant always holds of a single engine.
THEOREM EngineInvariance == Spec => []IInv
BY InitIInv, NextIInv, PTL DEF Spec

\* The inductive invariant always holds of every ring.
THEOREM Invariance == RingsSpec => []IInv
<1>1. Presets => IInv
  BY InitIInv DEF Presets
<1>2. IInv /\ [RingsNext]_ringVars => IInv'
  BY RingsStep, NextIInv, DropStep
<1> QED
  BY <1>1, <1>2, PTL DEF RingsSpec

\* BranchWrap, the index strategy of SpscRingFast, computes what the masking
\* of the other presets does, for every index RingEngine wraps.
THEOREM BranchWrapIsWrap == StrategiesAgree
<1> SUFFICES ASSUME NEW i \in 0 .. Cap PROVE BranchWrap(i) = Wrap(i)
  BY DEF StrategiesAgree
<1>1. i \in 0 .. (2 * Cap - 1)
  BY CapAssumption
<1> QED
  BY <1>1, WrapOnce, CapAssumption DEF BranchWrap

\* Every index the engines compute addresses a slot (engine.rs, the SAFETY
\* comments "index < capacity").
THEOREM TypeCorrect == RingsSpec => []TypeOK
<1>1. IInv => TypeOK
  BY DEF IInv
<1> QED
  BY <1>1, Invariance, PTL

\* However stale the cached indices are, they err towards Full and Empty.
THEOREM CachedIndicesSafe == RingsSpec => []RingOrder
<1>1. IInv => RingOrder
  BY DEF IInv
<1> QED
  BY <1>1, Invariance, PTL

\* A pop hands out the next values in the order of the pushes.
THEOREM DeliveryInOrder == RingsSpec => []InOrder
<1>1. IInv => InOrder
  BY DEF IInv
<1> QED
  BY <1>1, Invariance, PTL

\* No slot is accessed by both threads, no live value is overwritten and no
\* empty slot is read: the contract of the unsafe accesses in raw/slot.rs.
THEOREM RaceFree == RingsSpec => []NoDataRace
<1>1. ASSUME IInv PROVE NoDataRace
  <2>1. ASSUME ppc = "write", NEW j \in Index, InChunks(head_local, pn, j)
        PROVE  Span(tail_local, j) >= sent - received
    <3>1. pn \in 0..Cap /\ Span(tail_local, head_local) + pn < Cap
      BY <1>1, <2>1, ProducerRoom, CapAssumption DEF Usable
    <3>2. head_local \in Index /\ tail_local \in Index
      BY <1>1 DEF IInv, TypeOK
    <3>3. Span(head_local, j) < pn
      BY <2>1, <3>1, <3>2, ChunksAreSpan
    <3>4. Span(tail_local, head_local) <= Span(tail_local, j)
      BY <3>1, <3>2, <3>3, CapAssumption DEF Span, Index
    <3> QED
      BY <1>1, <3>4 DEF IInv, Counts
  <2>2. ASSUME cpc = "read", NEW j \in Index, InChunks(tail_local, cn, j)
        PROVE  Span(tail_local, j) < sent - received /\ taken = 0
    <3>1. cn \in 0..Cap /\ cn <= sent - received
      BY <1>1, <2>2, ConsumerRoom, CapAssumption DEF IInv, Counts, Usable
    <3>2. /\ tail_local \in Index /\ Span(tail_local, j) \in Index
          /\ sent \in Nat /\ received \in Nat
      BY <1>1, SpanType DEF IInv, TypeOK
    <3>3. Span(tail_local, j) < cn
      BY <2>2, <3>1, <3>2, ChunksAreSpan
    <3> QED
      BY <2>2, <3>1, <3>2, <3>3, CapAssumption DEF Index, taken
  <2>3. ASSUME NEW j \in Index
        PROVE  /\ Span(tail_local, j) \in Nat /\ sent - received \in Int /\ received \in Nat
               /\ alive => slots[j] = IF taken <= Span(tail_local, j)
                                         /\ Span(tail_local, j) < sent - received + written
                                      THEN received + 1 + Span(tail_local, j) ELSE Vacant
    <3>1. tail_local \in Index /\ sent \in Nat /\ received \in Nat
      BY <1>1 DEF IInv, TypeOK
    <3>2. Span(tail_local, j) \in Nat
      BY <3>1, SpanType, CapAssumption DEF Index
    <3> QED
      BY <1>1, <3>1, <3>2 DEF IInv, Contents
  <2>4. Writing \cap Reading = {}
    BY <2>1, <2>2, <2>3 DEF Writing, Reading
  <2>5. ASSUME NEW j \in Writing PROVE slots[j] = Vacant
    <3>1. ppc = "write" /\ j \in Index /\ InChunks(head_local, pn, j) /\ alive /\ written = 0
      BY <1>1 DEF Writing, IInv, Dropped, written
    <3> QED
      BY <3>1, <2>1, <2>3
  <2>6. ASSUME NEW j \in Reading PROVE slots[j] # Vacant
    <3>1. cpc = "read" /\ j \in Index /\ InChunks(tail_local, cn, j) /\ alive
      BY <1>1 DEF Reading, IInv, Dropped
    <3>2. written \in Nat
      BY <1>1 DEF IInv, TypeOK, written
    <3> QED
      BY <3>1, <3>2, <2>2, <2>3 DEF Vacant
  <2> QED
    BY <2>4, <2>5, <2>6 DEF NoDataRace
<1> QED
  BY <1>1, Invariance, PTL

\* Drop releases exactly the queued values (engine.rs, impl Drop).
THEOREM DropExact == RingsSpec => []DropReleasesAll
<1>1. ASSUME IInv PROVE DropReleasesAll
  <2>1. ASSUME alive, ppc # "publish", cpc # "publish", NEW j \in Index
        PROVE  slots[j] # Vacant <=> Span(tail_local, j) < Span(tail_local, head_local)
    <3>1. slots[j] = IF 0 <= Span(tail_local, j) /\ Span(tail_local, j) < sent - received + 0
                     THEN received + 1 + Span(tail_local, j) ELSE Vacant
      BY <1>1, <2>1 DEF IInv, Contents, taken, written
    <3>2. /\ sent \in Nat /\ received \in Nat /\ tail_local \in Index
          /\ Span(tail_local, head_local) = sent - received
      BY <1>1 DEF IInv, TypeOK, Counts
    <3>3. Span(tail_local, j) \in Nat
      <4>1. Span(tail_local, j) \in Index
        BY <2>1, <3>2, SpanType
      <4> QED
        BY <4>1, CapAssumption DEF Index
    <3> QED
      BY <3>1, <3>2, <3>3 DEF Vacant
  <2> QED
    BY <1>1, <2>1 DEF DropReleasesAll, IInv, Dropped
<1> QED
  BY <1>1, Invariance, PTL

-----------------------------------------------------------------------------
(***************************************************************************)
(* The ring implements the bounded FIFO channel.                           *)
(***************************************************************************)

\* The four counters of the channel, as the mapping computes them.
LEMMA MappedCounters ==
    ASSUME IInv
    PROVE  /\ sent \in Nat /\ received \in Nat /\ taken \in Nat
           /\ Span(tail_local, head) \in Nat /\ Span(tail, tail_local) \in Nat
           /\ received + taken <= received + Span(tail_local, head)
           /\ received + Span(tail_local, head) <= sent
           /\ Span(tail, head_local) = Span(tail, tail_local) + (sent - received)
<1>1. /\ sent \in Nat /\ received \in Nat /\ cn \in Nat
      /\ tail \in Index /\ tail_local \in Index /\ head \in Index
  BY DEF IInv, TypeOK
<1>2. Span(tail_local, head) \in Index /\ Span(tail, tail_local) \in Index
  BY <1>1, SpanType
<1>3. /\ Span(tail_local, head) <= sent - received
      /\ Span(tail, head_local) = Span(tail, tail_local) + (sent - received)
  BY OrderFacts DEF IInv
<1>4. taken \in Nat /\ taken <= Span(tail_local, head)
  <2>1. CASE cpc = "publish"
    BY <2>1, <1>1, ConsumerRoom DEF taken
  <2>2. CASE cpc # "publish"
    BY <2>2, <1>2, CapAssumption DEF taken, Index
  <2> QED
    BY <2>1, <2>2
<1> QED
  BY <1>1, <1>2, <1>3, <1>4, CapAssumption DEF Index

\* A completed push is a push of the channel.
LEMMA PublishHeadIsPush ==
    ASSUME IInv, PublishHead
    PROVE  \E k \in 1..Usable : Fifo!Push(k)
<1>1. /\ pn \in 1..Usable /\ pn <= Usable - Span(tail_cached, head_local)
      /\ Usable \in Nat
  BY ProducerRoom, CapAssumption DEF PublishHead, IInv, ProducerClaim, FreeSlots, Usable
<1>2. Span(tail, head_local) <= Span(tail_cached, head_local)
  <2>1. /\ tail_cached \in Index /\ tail \in Index /\ head_local \in Index
        /\ Span(tail_cached, tail) \in Index /\ Span(tail_cached, head_local) \in Index
        /\ Span(tail_cached, tail_local) \in Index /\ Span(tail_cached, head_cached) \in Index
        /\ Span(tail_cached, head) \in Index
    BY SpanType DEF IInv, TypeOK
  <2>2. Span(tail_cached, tail) <= Span(tail_cached, head_local)
    BY <2>1, CapAssumption DEF IInv, RingOrder, Index
  <2>3. Span(tail, head_local) = Span(tail_cached, head_local) - Span(tail_cached, tail)
    BY <2>1, <2>2, SpanSplit
  <2> QED
    BY <2>1, <2>3, CapAssumption DEF Index
<1>3. Span(tail_cached, head_local) \in Int /\ Span(tail, head_local) \in Int
  <2>1. Span(tail_cached, head_local) \in Index /\ Span(tail, head_local) \in Index
    BY SpanType DEF IInv, TypeOK
  <2> QED
    BY <2>1, CapAssumption DEF Index
<1>4. sent + pn <= received - Span(tail, tail_local) + Usable
  BY <1>1, <1>2, <1>3, MappedCounters
<1>5. Fifo!Push(pn)
  BY <1>4 DEF PublishHead, consVars, Fifo!Push, taken, Span
<1> QED
  BY <1>1, <1>5

\* A push that reports Full found the channel full.
LEMMA ReloadIsFull ==
    ASSUME IInv, PushReload \/ PushBatchReload, pushed' # pushed
    PROVE  Fifo!PushFull
<1>1. FreeSlots(tail) = 0
  BY FullTest DEF IInv, TypeOK, PushReload, PushBatchReload
<1>2. sent = received - Span(tail, tail_local) + Usable
  BY <1>1, MappedCounters, CapAssumption DEF FreeSlots, Usable
<1>3. pushed' = 0
  BY DEF PushReload, PushBatchReload
<1> QED
  BY <1>2, <1>3 DEF Fifo!PushFull, PushReload, PushBatchReload, consVars, taken, Span

\* A pop that reports Empty found the channel empty.
LEMMA ReloadIsEmpty ==
    ASSUME IInv, PopReload \/ PopBatchReload, got' # got
    PROVE  Fifo!PopEmpty
<1>1. Span(tail_local, head) = 0 /\ got' = <<>> /\ taken = 0 /\ taken' = 0
  BY SpanType DEF IInv, TypeOK, PopReload, PopBatchReload, taken
<1>2. received + taken = received + Span(tail_local, head)
  BY <1>1, MappedCounters
<1> QED
  BY <1>1, <1>2 DEF Fifo!PopEmpty, PopReload, PopBatchReload, prodVars, Span

\* Reading the slots is a pop of the channel.
LEMMA ReadIsPop ==
    ASSUME IInv, ReadSlots
    PROVE  \E k \in 1..Usable : Fifo!Pop(k)
<1>1. cn \in 1..Usable /\ cn <= Span(tail_local, head)
  BY ConsumerRoom DEF ReadSlots
<1>2. taken = 0 /\ taken' = cn
  BY DEF ReadSlots, taken
<1>3. got' = [i \in 1..cn |-> received + i]
  BY ReadValues DEF ReadSlots
<1>4. Fifo!Pop(cn)
  <2>1. /\ received \in Nat /\ cn \in Nat
        /\ Span(tail_local, head) \in Nat
    BY <1>1, MappedCounters DEF Usable
  <2>2. /\ received + taken + cn <= received + Span(tail_local, head)
        /\ received + taken' = received + taken + cn
        /\ received + taken = received
    BY <1>1, <1>2, <2>1
  <2>3. got' = [i \in 1..cn |-> received + taken + i]
    BY <1>3, <2>2
  <2> QED
    BY <2>2, <2>3 DEF Fifo!Pop, ReadSlots, prodVars, Span
<1> QED
  BY <1>1, <1>4

\* Releasing the slots changes nothing in the channel.
LEMMA PublishTailIsStutter ==
    ASSUME IInv, PublishTail
    PROVE  UNCHANGED Fifo!vars
<1>0. /\ cn \in Nat /\ tail_local \in Index /\ head \in Index /\ tail \in Index
      /\ received \in Nat /\ taken = cn /\ taken' = 0
      /\ cn <= Span(tail_local, head)
  BY ConsumerRoom DEF PublishTail, IInv, TypeOK, taken
<1>1. Span(tail_local, head) \in Nat /\ cn \in 0..Span(tail_local, head)
  <2>1. Span(tail_local, head) \in Index
    BY <1>0, SpanType
  <2> QED
    BY <1>0, <2>1, CapAssumption DEF Index
<1>2. Span(Wrap(tail_local + cn), head) = Span(tail_local, head) - cn
  BY <1>0, <1>1, SpanAdvanceFrom
<1>3. Span(tail, tail_local) + cn < Cap
  <2>1. cn <= sent - received /\ sent \in Nat
    BY <1>0, TakenBound DEF IInv, TypeOK
  <2>2. Span(tail, head_local) = Span(tail, tail_local) + (sent - received)
        /\ Span(tail, tail_local) \in Nat /\ Span(tail, head_local) < Cap
    BY MappedCounters, OrderFacts DEF IInv
  <2> QED
    BY <1>0, <2>1, <2>2, CapAssumption
<1>4. Span(tail, Wrap(tail_local + cn)) = Span(tail, tail_local) + cn
  BY <1>0, <1>3, SpanAdvanceTo
<1>5. /\ tail_local' = Wrap(tail_local + cn) /\ received' = received + cn
      /\ UNCHANGED <<head, tail, got, prodVars>>
  BY DEF PublishTail
<1>6. /\ (Span(tail_local, head))' = Span(tail_local, head) - cn
      /\ (Span(tail, tail_local))' = Span(tail, tail_local) + cn
  BY <1>2, <1>4, <1>5 DEF Span
<1>7. /\ received' + (Span(tail_local, head))' = received + Span(tail_local, head)
      /\ received' - (Span(tail, tail_local))' = received - Span(tail, tail_local)
      /\ received' + taken' = received + taken
  BY <1>0, <1>1, <1>5, <1>6, MappedCounters
<1> QED
  BY <1>5, <1>7 DEF Fifo!vars, prodVars

\* A propagation, or the drop, only makes completed operations visible.
LEMMA PropagationIsPropagate ==
    ASSUME IInv, PropagateHead \/ PropagateTail \/ DropRange
    PROVE  Fifo!Propagate
<1>1. /\ UNCHANGED <<sent, received, taken, pushed, got, tail_local, head_local>>
      /\ head' \in {head, head_local} /\ tail' \in {tail, tail_local}
  BY DEF PropagateHead, PropagateTail, DropRange, prodVars, consVars, taken
<1>2. /\ Span(tail_local, head_local) = sent - received
      /\ Span(tail_local, tail_local) = 0
      /\ tail_local \in Index
  BY SpanType DEF IInv, Counts, TypeOK
<1>3. /\ (Span(tail_local, head))' \in {Span(tail_local, head), sent - received}
      /\ (Span(tail, tail_local))' \in {Span(tail, tail_local), 0}
  BY <1>1, <1>2 DEF Span
<1>4. /\ received + (Span(tail_local, head))' \in (received + Span(tail_local, head))..sent
      /\ received - (Span(tail, tail_local))'
           \in (received - Span(tail, tail_local))..(received + taken)
  BY <1>3, MappedCounters
<1> QED
  BY <1>1, <1>4 DEF Fifo!Propagate

\* Starting an operation or writing slots changes nothing in the channel.
LEMMA LocalIsStutter ==
    ASSUME IInv,
           \/ Push \/ WriteSlots \/ Pop
           \/ \E n \in BatchSizes : PushBatch(n) \/ PopBatch(n)
           \/ (PushReload \/ PushBatchReload) /\ pushed' = pushed
           \/ (PopReload \/ PopBatchReload) /\ got' = got
           \/ UNCHANGED vars
    PROVE  UNCHANGED Fifo!vars
BY DEF Push, WriteSlots, Pop, PushBatch, PopBatch, PushReload, PushBatchReload, PopReload,
   PopBatchReload, vars, prodVars, consVars, Fifo!vars, Span, taken

\* Every step of an engine, read through the mapping, is a step of the channel.
LEMMA StepImplementsFifo ==
    ASSUME IInv, [Next]_vars \/ DropRange
    PROVE  [Fifo!Next]_(Fifo!vars)
<1>1. CASE Producer
  BY <1>1, PublishHeadIsPush, ReloadIsFull, LocalIsStutter DEF Producer, Fifo!Next
<1>2. CASE Consumer
  BY <1>2, ReadIsPop, ReloadIsEmpty, PublishTailIsStutter, LocalIsStutter
     DEF Consumer, Fifo!Next
<1>3. CASE PropagateHead \/ PropagateTail \/ DropRange
  BY <1>3, PropagationIsPropagate DEF Fifo!Next
<1>4. CASE UNCHANGED vars
  BY <1>4, LocalIsStutter
<1> QED
  BY <1>1, <1>2, <1>3, <1>4 DEF Next, Drop, DropRange

\* Every ring, read through the mapping, is a bounded FIFO channel: every value
\* accepted is delivered once and in order, Full and Empty are only reported
\* of a channel that is full or empty as far as the other side's completed
\* operations have become visible.
THEOREM RingImplementsFifo == RingsSpec => FifoSpec
<1>1. Presets => Fifo!Init
  BY CapAssumption DEF Presets, Init, Fifo!Init, Span, taken
<1>2. IInv /\ [RingsNext]_ringVars => [Fifo!Next]_(Fifo!vars)
  BY RingsStep, StepImplementsFifo
<1> QED
  BY <1>1, <1>2, Invariance, PTL DEF RingsSpec, FifoSpec, Fifo!Spec

-----------------------------------------------------------------------------
(***************************************************************************)
(* The sequence lock.                                                      *)
(***************************************************************************)

\* Facts of arithmetic.
LEMMA EvenOffset == ASSUME NEW k \in Int, NEW v \in Int PROVE (2 * k + v) % 2 = v % 2
OBVIOUS

\* An even number within one of 2d is 2d.
LEMMA EvenBetween ==
    ASSUME NEW s \in Nat, NEW d \in Nat, s % 2 = 0, s <= 2 * d + 1, 2 * d <= s + 1
    PROVE  s = 2 * d
OBVIOUS

\* Halves of the same number are the same.
LEMMA SameDouble ==
    ASSUME NEW a \in Nat, NEW b \in Nat, NEW c \in Nat, 2 * a = c, 2 * b = c
    PROVE  a = b
OBVIOUS

\* A product distributes over a difference.
LEMMA Distribute ==
    ASSUME NEW x \in Int, NEW y \in Int, NEW z \in Int
    PROVE  x * (y - z) = x * y - x * z
OBVIOUS

\* The parity test survives the wrap of the counter.
LEMMA Parity == ASSUME NEW s \in Nat PROVE Value(s) % 2 = s % 2
<1> DEFINE q == s \div SeqMod
           m == SeqMod \div 2
<1>1. q \in Int /\ s = SeqMod * q + Value(s) /\ Value(s) \in Nat
  BY SeqModAssumption DEF Value
<1>2. m \in Int /\ SeqMod = 2 * m
  BY SeqModAssumption
<1>3. m * q \in Int /\ s = 2 * (m * q) + Value(s)
  BY <1>1, <1>2
<1> HIDE DEF q, m
<1> QED
  <2>1. (2 * (m * q) + Value(s)) % 2 = Value(s) % 2
    BY <1>1, <1>3, EvenOffset
  <2> QED
    BY <1>3, <2>1

\* Two loads of the counter less than a lap apart that agree saw one value.
LEMMA SameValue ==
    ASSUME NEW a \in Nat, NEW b \in Nat, a <= b, b - a < SeqMod, Value(a) = Value(b)
    PROVE  a = b
<1> DEFINE q == a \div SeqMod
           p == b \div SeqMod
<1>1. q \in Int /\ a = SeqMod * q + Value(a) /\ Value(a) \in Nat
  BY SeqModAssumption DEF Value
<1>2. p \in Int /\ b = SeqMod * p + Value(b) /\ Value(b) \in Nat
  BY SeqModAssumption DEF Value
<1> HIDE DEF q, p
<1>3. b - a = SeqMod * (p - q)
  <2>1. SeqMod * (p - q) = SeqMod * p - SeqMod * q
    BY <1>1, <1>2, Distribute, SeqModAssumption
  <2>2. SeqMod * p \in Int /\ SeqMod * q \in Int
    BY <1>1, <1>2, SeqModAssumption
  <2> QED
    BY <1>1, <1>2, <2>1, <2>2
<1>4. p - q = 0
  <2>1. CASE p - q >= 1
    BY <1>1, <1>2, <1>3, <2>1, SeqModAssumption
  <2>2. CASE p - q <= -1
    BY <1>1, <1>2, <1>3, <2>2, SeqModAssumption
  <2> QED
    BY <1>1, <1>2, <2>1, <2>2
<1> QED
  BY <1>1, <1>2, <1>3, <1>4, SeqModAssumption

-----------------------------------------------------------------------------
\* Every variable keeps its type.
THEOREM SeqLockTypes == LockSpec => []LockTypeOK
<1>1. LockInit => LockTypeOK
  BY DEF LockInit, LockTypeOK
<1>2. LockTypeOK /\ [LockNext]_lockVars => LockTypeOK'
  <2> SUFFICES ASSUME LockTypeOK, [LockNext]_lockVars PROVE LockTypeOK'
    OBVIOUS
  <2> USE DEF LockTypeOK, readerVars
  <2>1. CASE Store
    BY <2>1 DEF Store
  <2>2. CASE SeqVisible
    BY <2>2 DEF SeqVisible
  <2>3. ASSUME NEW w \in Words, WordVisible(w) PROVE LockTypeOK'
    BY <2>3 DEF WordVisible
  <2>4. ASSUME NEW r \in Readers, Load(r) PROVE LockTypeOK'
    BY <2>4 DEF Load
  <2>5. ASSUME NEW r \in Readers, ReadSeq1(r) PROVE LockTypeOK'
    BY <2>5 DEF ReadSeq1
  <2>6. ASSUME NEW r \in Readers, NEW w \in Words, CopyWord(r, w) PROVE LockTypeOK'
    BY <2>6 DEF CopyWord
  <2>7. ASSUME NEW r \in Readers, ReadSeq2(r) PROVE LockTypeOK'
    BY <2>7 DEF ReadSeq2
  <2>8. CASE UNCHANGED lockVars
    BY <2>8 DEF lockVars
  <2> QED
    BY <2>1, <2>2, <2>3, <2>4, <2>5, <2>6, <2>7, <2>8 DEF LockNext, Reader
<1> QED
  BY <1>1, <1>2, PTL DEF LockSpec

\* The local copy of a reader is never staler than the value that was complete
\* when load was called; this rests on the Release stores alone.
LEMMA CopyInvariance == LockSpec => [](SeqFollowsData /\ CopyNotStale)
<1> DEFINE I == LockTypeOK /\ SeqFollowsData /\ CopyNotStale
<1>1. LockInit => I
  BY DEF LockInit, LockTypeOK, SeqFollowsData, CopyNotStale, InCopy
<1>2. I /\ LockTypeOK' /\ [LockNext]_lockVars => I'
  <2> SUFFICES ASSUME I, LockTypeOK', [LockNext]_lockVars PROVE SeqFollowsData' /\ CopyNotStale'
    OBVIOUS
  <2> USE DEF LockTypeOK, SeqFollowsData, CopyNotStale, InCopy, readerVars
  <2>1. CASE Store
    BY <2>1 DEF Store
  <2>2. CASE SeqVisible
    BY <2>2 DEF SeqVisible
  <2>3. ASSUME NEW w \in Words, WordVisible(w) PROVE SeqFollowsData' /\ CopyNotStale'
    BY <2>3 DEF WordVisible
  <2>4. ASSUME NEW r \in Readers, Load(r) PROVE SeqFollowsData' /\ CopyNotStale'
    BY <2>4 DEF Load
  <2>5. ASSUME NEW r \in Readers, ReadSeq1(r) PROVE SeqFollowsData' /\ CopyNotStale'
    BY <2>5 DEF ReadSeq1
  <2>6. ASSUME NEW r \in Readers, NEW w \in Words, CopyWord(r, w)
        PROVE  SeqFollowsData' /\ CopyNotStale'
    <3>1. began[r] <= 2 * data[w] + 1
      OBVIOUS
    <3> QED
      BY <2>6, <3>1 DEF CopyWord
  <2>7. ASSUME NEW r \in Readers, ReadSeq2(r) PROVE SeqFollowsData' /\ CopyNotStale'
    BY <2>7 DEF ReadSeq2
  <2>8. CASE UNCHANGED lockVars
    BY <2>8 DEF lockVars
  <2> QED
    BY <2>1, <2>2, <2>3, <2>4, <2>5, <2>6, <2>7, <2>8 DEF LockNext, Reader
<1> QED
  BY <1>1, <1>2, SeqLockTypes, PTL DEF LockSpec

\* load never returns a value older than the one complete when it was called;
\* this holds under both memory models.
THEOREM NeverStale == LockSpec => []NotStale
<1>1. LockTypeOK /\ CopyNotStale => NotStale
  BY DEF LockTypeOK, CopyNotStale, NotStale
<1> QED
  BY <1>1, SeqLockTypes, CopyInvariance, PTL

\* With the writer's stores visible in program order load never returns a
\* torn value.
THEOREM NeverTorn == ASSUME Ordered PROVE LockSpec => []NoTornRead
<1> DEFINE I == /\ LockTypeOK /\ SeqFollowsData /\ CopyNotStale
                /\ DataFollowsSeq /\ CopyWhole /\ NoTornRead
<1>1. LockInit => I
  BY DEF LockInit, LockTypeOK, SeqFollowsData, CopyNotStale, DataFollowsSeq, CopyWhole,
     NoTornRead, InCopy
<1>2. I /\ LockTypeOK' /\ (SeqFollowsData /\ CopyNotStale)' /\ [LockNext]_lockVars => I'
  <2> SUFFICES ASSUME I, LockTypeOK', [LockNext]_lockVars
               PROVE  DataFollowsSeq' /\ CopyWhole' /\ NoTornRead'
    OBVIOUS
  <2> USE DEF LockTypeOK, DataFollowsSeq, CopyWhole, NoTornRead, InCopy, readerVars
  <2>1. CASE Store
    BY <2>1 DEF Store
  <2>2. CASE SeqVisible
    BY <2>2 DEF SeqVisible, NotLapped
  <2>3. ASSUME NEW w \in Words, WordVisible(w)
        PROVE  DataFollowsSeq' /\ CopyWhole' /\ NoTornRead'
    BY <2>3 DEF WordVisible
  <2>4. ASSUME NEW r \in Readers, Load(r)
        PROVE  DataFollowsSeq' /\ CopyWhole' /\ NoTornRead'
    BY <2>4 DEF Load
  <2>5. ASSUME NEW r \in Readers, ReadSeq1(r)
        PROVE  DataFollowsSeq' /\ CopyWhole' /\ NoTornRead'
    <3>1. Value(seq) % 2 = seq % 2
      BY Parity
    <3> QED
      BY <2>5, <3>1, SeqModAssumption DEF ReadSeq1
  <2>6. ASSUME NEW r \in Readers, NEW w \in Words, CopyWord(r, w)
        PROVE  DataFollowsSeq' /\ CopyWhole' /\ NoTornRead'
    <3>1. seq = seq1[r] => 2 * data[w] = seq1[r]
      <4>1. /\ seq \in Nat /\ data[w] \in Nat /\ seq1[r] % 2 = 0
            /\ seq <= 2 * data[w] + 1 /\ 2 * data[w] <= seq + 1
        BY <2>6 DEF CopyWord, SeqFollowsData
      <4>2. seq % 2 = 0 => seq = 2 * data[w]
        BY <4>1, EvenBetween
      <4> QED
        BY <4>1, <4>2
    <3> QED
      BY <2>6, <3>1 DEF CopyWord
  <2>7. ASSUME NEW r \in Readers, ReadSeq2(r)
        PROVE  DataFollowsSeq' /\ CopyWhole' /\ NoTornRead'
    <3>1. Value(seq) = Value(seq1[r]) => seq = seq1[r]
      BY <2>7, SameValue DEF ReadSeq2
    <3>2. left[r] = {}
      BY <2>7 DEF ReadSeq2, CopyNotStale
    <3>3. seq = seq1[r] => \A v, w \in Words : val[r][v] = val[r][w]
      <4> SUFFICES ASSUME seq = seq1[r], NEW v \in Words, NEW w \in Words
                   PROVE  val[r][v] = val[r][w]
        OBVIOUS
      <4>1. /\ 2 * val[r][v] = seq1[r] /\ 2 * val[r][w] = seq1[r]
            /\ val[r][v] \in Nat /\ val[r][w] \in Nat /\ seq1[r] \in Nat
        BY <2>7, <3>2 DEF ReadSeq2
      <4> QED
        BY ZenonT(30), <4>1, SameDouble
    <3> QED
      BY <2>7, <3>1, <3>3 DEF ReadSeq2
  <2>8. CASE UNCHANGED lockVars
    BY <2>8 DEF lockVars
  <2> QED
    BY <2>1, <2>2, <2>3, <2>4, <2>5, <2>6, <2>7, <2>8 DEF LockNext, Reader
<1>3. I => NoTornRead
  OBVIOUS
<1> QED
  BY <1>1, <1>2, <1>3, SeqLockTypes, CopyInvariance, PTL DEF LockSpec

=============================================================================
