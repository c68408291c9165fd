----------------------------- MODULE SpscRing ------------------------------
(***************************************************************************)
(* The single-producer single-consumer ring engines of crates/queue:       *)
(* RingEngine (engine.rs: try_push, push, try_pop, pop, Drop) and          *)
(* CopyRingEngine (copy_ring/engine.rs: the same protocol plus push_batch  *)
(* and pop_batch).                                                         *)
(*                                                                         *)
(* Each thread runs its operation one memory access at a time.  An index   *)
(* store with Ordering::Release is first visible only to the thread that   *)
(* made it (head_local, tail_local: a Cell on aarch64, store forwarding    *)
(* elsewhere) and reaches the other thread at some later step              *)
(* (PropagateHead, PropagateTail).  Release orders the slot accesses that  *)
(* precede the store before it, so a slot access needs no delay of its     *)
(* own; that no slot is ever accessed by both threads is NoDataRace.       *)
(*                                                                         *)
(* The k-th value sent is k.  A slot holds a value until it is read out;   *)
(* reading or dropping a Vacant slot would be a use of a moved-out or      *)
(* uninitialised value.                                                    *)
(***************************************************************************)
EXTENDS Integers, Sequences

CONSTANTS Cap,         \* storage.capacity(): slots, one of them a sentinel
          BatchSizes,  \* lengths of the slices given to *_batch; {} is the
                       \* RingEngine, which has no batch operations
          MaxSent      \* bound: values the producer sends in a behaviour

ASSUME CapAssumption == Cap \in Nat \ {0}
ASSUME BatchAssumption == BatchSizes \subseteq Nat \ {0}
ASSUME MaxSentAssumption == MaxSent \in Nat

VARIABLES
    head, head_local, tail_cached,   \* ProducerLine
    tail, tail_local, head_cached,   \* ConsumerLine
    slots,                           \* storage
    ppc, pn,    \* producer: point in the running push, its element count
    cpc, cn,    \* consumer: point in the running pop, its element count
    pushed, got,                     \* results of the last push and pop
    sent, received,                  \* values accepted and handed out so far
    alive                            \* FALSE once the engine is dropped

prodVars == <<head_local, tail_cached, ppc, pn, pushed, sent>>
consVars == <<tail_local, head_cached, cpc, cn, got, received>>
vars == <<head, tail, slots, alive, prodVars, consVars>>

Vacant == 0
Index == 0..(Cap - 1)

\* A slip in wrap: BranchWrap, which is only right for steps of one.
WrapByBranch(i) == IF i >= Cap THEN 0 ELSE i

\* IndexStrategy::wrap: index & (capacity - 1), with a power-of-two capacity.
Wrap(i) == i % Cap

\* Slots from index t (tail) up to index h (head), going round.
Span(t, h) == IF h >= t THEN h - t ELSE Cap - t + h

\* capacity(): the sentinel slot is never used.
Usable == Cap - 1

\* free as computed by push_batch from a tail index.
FreeSlots(t) == Usable - Span(t, head_local)

MinOf(a, b) == IF a <= b THEN a ELSE b

(***************************************************************************)
(* The slots that n elements starting at index s occupy: the first chunk   *)
(* runs to the end of the array, the second one from index 0.  ChunkPos is *)
(* the position of slot j among those elements.                            *)
(***************************************************************************)
FirstChunk(s, n) == MinOf(n, Cap - s)
InChunks(s, n, j) ==
    \/ s <= j /\ j < s + FirstChunk(s, n)
    \/ j < n - FirstChunk(s, n)

\* A slip in the second chunk: copying it from the start of the slice again.
ChunkPosRestarted(s, n, j) == IF j >= s THEN j - s ELSE j

ChunkPos(s, n, j) == IF j >= s THEN j - s ELSE FirstChunk(s, n) + j

Init ==
    /\ head = 0 /\ head_local = 0 /\ tail_cached = 0
    /\ tail = 0 /\ tail_local = 0 /\ head_cached = 0
    /\ slots = [j \in Index |-> Vacant]
    /\ ppc = "idle" /\ pn = 0 /\ pushed = 0 /\ sent = 0
    /\ cpc = "idle" /\ cn = 0 /\ got = <<>> /\ received = 0
    /\ alive = TRUE

-----------------------------------------------------------------------------
(* The producer. *)

\* push / try_push, up to the test against the cached tail.
Push ==
    /\ alive /\ ppc = "idle" /\ sent < MaxSent
    /\ ppc' = IF Wrap(head_local + 1) = tail_cached THEN "push_reload" ELSE "write"
    /\ pn' = 1
    /\ UNCHANGED <<head, tail, slots, alive, head_local, tail_cached, pushed, sent, consVars>>

\* Slips in the slow path of push: no second test, and a second test against
\* the value cached before.
PushReloadUnchecked ==
    /\ ppc = "push_reload"
    /\ tail_cached' = tail
    /\ ppc' = "write"
    /\ UNCHANGED <<head, tail, slots, alive, head_local, pn, pushed, sent, consVars>>
PushReloadStale ==
    /\ ppc = "push_reload"
    /\ IF Wrap(head_local + 1) = tail_cached
       THEN ppc' = "idle" /\ pushed' = 0
       ELSE ppc' = "write" /\ UNCHANGED pushed
    /\ UNCHANGED <<head, tail, slots, alive, head_local, tail_cached, pn, sent, consVars>>

\* Acquire load of tail into the cache; still full: return Full.
PushReload ==
    /\ ppc = "push_reload"
    /\ tail_cached' = tail
    /\ IF Wrap(head_local + 1) = tail
       THEN ppc' = "idle" /\ pushed' = 0
       ELSE ppc' = "write" /\ UNCHANGED pushed
    /\ UNCHANGED <<head, tail, slots, alive, head_local, pn, sent, consVars>>

\* push_batch of a slice of n values, up to the test against the cached tail.
PushBatch(n) ==
    /\ alive /\ ppc = "idle" /\ sent + n <= MaxSent
    /\ ppc' = IF FreeSlots(tail_cached) < n THEN "batch_reload" ELSE "write"
    /\ pn' = n
    /\ UNCHANGED <<head, tail, slots, alive, head_local, tail_cached, pushed, sent, consVars>>

\* A slip in push_batch: not cutting the slice down to the free slots.
PushBatchReloadUncut ==
    /\ ppc = "batch_reload"
    /\ tail_cached' = tail
    /\ IF FreeSlots(tail) = 0
       THEN ppc' = "idle" /\ pushed' = 0
       ELSE ppc' = "write" /\ UNCHANGED pushed
    /\ UNCHANGED <<head, tail, slots, alive, head_local, pn, sent, consVars>>

\* Acquire load of tail; no room: return 0, else push what fits.
PushBatchReload ==
    /\ ppc = "batch_reload"
    /\ tail_cached' = tail
    /\ IF FreeSlots(tail) = 0
       THEN ppc' = "idle" /\ pushed' = 0 /\ UNCHANGED pn
       ELSE ppc' = "write" /\ pn' = MinOf(pn, FreeSlots(tail)) /\ UNCHANGED pushed
    /\ UNCHANGED <<head, tail, slots, alive, head_local, sent, consVars>>

\* write_slot, or the two memcpy chunks of push_batch.
WriteSlots ==
    /\ ppc = "write"
    /\ slots' = [j \in Index |-> IF InChunks(head_local, pn, j)
                                 THEN sent + 1 + ChunkPos(head_local, pn, j)
                                 ELSE slots[j]]
    /\ ppc' = "publish"
    /\ UNCHANGED <<head, tail, alive, head_local, tail_cached, pn, pushed, sent, consVars>>

\* A slip in the store of head: not wrapping it.
PublishHeadUnwrapped ==
    /\ ppc = "publish"
    /\ head_local' = head_local + pn
    /\ sent' = sent + pn
    /\ pushed' = pn
    /\ ppc' = "idle"
    /\ UNCHANGED <<head, tail, slots, alive, tail_cached, pn, consVars>>

\* Release store of the new head, as the producer itself sees it; return.
PublishHead ==
    /\ ppc = "publish"
    /\ head_local' = Wrap(head_local + pn)
    /\ sent' = sent + pn
    /\ pushed' = pn
    /\ ppc' = "idle"
    /\ UNCHANGED <<head, tail, slots, alive, tail_cached, pn, consVars>>

\* The latest head store reaches the consumer.
PropagateHead ==
    /\ head # head_local
    /\ head' = head_local
    /\ UNCHANGED <<tail, slots, alive, prodVars, consVars>>

-----------------------------------------------------------------------------
(* The consumer. *)

\* pop / try_pop, up to the test against the cached head.
Pop ==
    /\ alive /\ cpc = "idle"
    /\ cpc' = IF tail_local = head_cached THEN "pop_reload" ELSE "read"
    /\ cn' = 1
    /\ UNCHANGED <<head, tail, slots, alive, tail_local, head_cached, got, received, prodVars>>

\* Acquire load of head into the cache; still empty: return Empty.
PopReload ==
    /\ cpc = "pop_reload"
    /\ head_cached' = head
    /\ IF tail_local = head
       THEN cpc' = "idle" /\ got' = <<>>
       ELSE cpc' = "read" /\ UNCHANGED got
    /\ UNCHANGED <<head, tail, slots, alive, tail_local, cn, received, prodVars>>

\* pop_batch into a slice of n values, up to the test against the cached head.
PopBatch(n) ==
    /\ alive /\ cpc = "idle"
    /\ cpc' = IF Span(tail_local, head_cached) < n THEN "batch_reload" ELSE "read"
    /\ cn' = n
    /\ UNCHANGED <<head, tail, slots, alive, tail_local, head_cached, got, received, prodVars>>

\* Acquire load of head; nothing there: return 0, else pop what there is.
PopBatchReload ==
    /\ cpc = "batch_reload"
    /\ head_cached' = head
    /\ IF Span(tail_local, head) = 0
       THEN cpc' = "idle" /\ got' = <<>> /\ UNCHANGED cn
       ELSE cpc' = "read" /\ cn' = MinOf(cn, Span(tail_local, head)) /\ UNCHANGED got
    /\ UNCHANGED <<head, tail, slots, alive, tail_local, received, prodVars>>

\* read_slot, or the two memcpy chunks of pop_batch: the values are moved out.
ReadSlots ==
    /\ cpc = "read"
    /\ got' = [i \in 1..cn |-> IF i <= FirstChunk(tail_local, cn)
                               THEN slots[tail_local + i - 1]
                               ELSE slots[i - 1 - FirstChunk(tail_local, cn)]]
    /\ slots' = [j \in Index |-> IF InChunks(tail_local, cn, j) THEN Vacant ELSE slots[j]]
    /\ cpc' = "publish"
    /\ UNCHANGED <<head, tail, alive, tail_local, head_cached, cn, received, prodVars>>

\* Release store of the new tail, as the consumer itself sees it; return.
PublishTail ==
    /\ cpc = "publish"
    /\ tail_local' = Wrap(tail_local + cn)
    /\ received' = received + cn
    /\ cpc' = "idle"
    /\ UNCHANGED <<head, tail, slots, alive, head_cached, cn, got, prodVars>>

\* The latest tail store reaches the producer.
PropagateTail ==
    /\ tail # tail_local
    /\ tail' = tail_local
    /\ UNCHANGED <<head, slots, alive, prodVars, consVars>>

-----------------------------------------------------------------------------
\* A slip in Drop: the arguments of drop_range swapped.
DropSwapped ==
    /\ alive /\ BatchSizes = {}
    /\ ppc = "idle" /\ cpc = "idle"
    /\ head' = head_local
    /\ tail' = tail_local
    /\ slots' = [j \in Index |-> IF Span(head_local, j) < Span(head_local, tail_local)
                                 THEN Vacant ELSE slots[j]]
    /\ alive' = FALSE
    /\ UNCHANGED <<prodVars, consVars>>

(***************************************************************************)
(* Drop of the RingEngine, once both handles are gone (their Arc makes     *)
(* every earlier store visible): drop_range drops the values from tail up  *)
(* to head.  T: Copy, so the CopyRingEngine has no Drop.                   *)
(***************************************************************************)
Drop ==
    /\ alive /\ BatchSizes = {}
    /\ ppc = "idle" /\ cpc = "idle"
    /\ head' = head_local
    /\ tail' = tail_local
    /\ slots' = [j \in Index |-> IF Span(tail_local, j) < Span(tail_local, head_local)
                                 THEN Vacant ELSE slots[j]]
    /\ alive' = FALSE
    /\ UNCHANGED <<prodVars, consVars>>

Producer ==
    \/ Push \/ PushReload
    \/ \E n \in BatchSizes : PushBatch(n)
    \/ PushBatchReload
    \/ WriteSlots \/ PublishHead

Consumer ==
    \/ Pop \/ PopReload
    \/ \E n \in BatchSizes : PopBatch(n)
    \/ PopBatchReload
    \/ ReadSlots \/ PublishTail

Next == Producer \/ Consumer \/ PropagateHead \/ PropagateTail \/ Drop

Spec == Init /\ [][Next]_vars

-----------------------------------------------------------------------------
(* Properties. *)

PPcs == {"idle", "push_reload", "batch_reload", "write", "publish"}
CPcs == {"idle", "pop_reload", "batch_reload", "read", "publish"}

\* Type invariant: every index the engine ever holds addresses a slot.
TypeOK ==
    /\ head \in Index /\ head_local \in Index /\ tail_cached \in Index
    /\ tail \in Index /\ tail_local \in Index /\ head_cached \in Index
    /\ slots \in [Index -> Nat]
    /\ ppc \in PPcs /\ pn \in Nat /\ pushed \in Nat /\ sent \in Nat
    /\ cpc \in CPcs /\ cn \in Nat /\ received \in Nat
    /\ got \in Seq(Nat)
    /\ alive \in BOOLEAN

\* The slots the producer (consumer) is accessing in this state.
Writing == IF ppc = "write" THEN {j \in Index : InChunks(head_local, pn, j)} ELSE {}
Reading == IF cpc = "read" THEN {j \in Index : InChunks(tail_local, cn, j)} ELSE {}

\* The single-writer discipline the unsafe slot accesses rely on: no slot is
\* ever accessed by both threads, the producer only writes slots that hold no
\* value, and the consumer only reads slots that do (queue/src/raw/slot.rs).
NoDataRace ==
    /\ Writing \cap Reading = {}
    /\ \A j \in Writing : slots[j] = Vacant
    /\ \A j \in Reading : slots[j] # Vacant

\* Where the six copies of the two positions stand on the ring: however stale
\* they are, going round from the producer's cached tail they come in this
\* order, so a cached index errs only towards Full (Empty).
RingOrder ==
    LET At(i) == Span(tail_cached, i)
    IN  /\ At(tail) <= At(tail_local)
        /\ At(tail_local) <= At(head_cached)
        /\ At(head_cached) <= At(head)
        /\ At(head) <= At(head_local)

\* Delivery in order without loss or duplication: the values a pop hands out
\* are exactly the next ones, in the order in which they were pushed.
InOrder == cpc = "publish" => got = [i \in 1..cn |-> received + i]

\* Dropping the engine releases every value still queued, and no other: no
\* leak and no double drop.
DropReleasesAll ==
    /\ ~alive => \A j \in Index : slots[j] = Vacant
    /\ alive /\ ppc # "publish" /\ cpc # "publish" =>
          \A j \in Index : slots[j] # Vacant <=>
                           Span(tail_local, j) < Span(tail_local, head_local)

(***************************************************************************)
(* The inductive invariant behind the properties above.                    *)
(***************************************************************************)
\* Values read out but not yet released, and written but not yet published.
taken == IF cpc = "publish" THEN cn ELSE 0
written == IF ppc = "publish" THEN pn ELSE 0

\* The indices agree with the numbers of values sent and received.
Counts == Span(tail_local, head_local) = sent - received

\* What each thread has established at its program point: the slots it is
\* about to write (read) are free (filled) even by its own cached index.
ProducerClaim ==
    /\ ppc \in {"push_reload", "batch_reload"} => pn >= 1
    /\ ppc = "push_reload" => pn = 1
    /\ ppc \in {"write", "publish"} => 1 <= pn /\ pn <= FreeSlots(tail_cached)
ConsumerClaim ==
    /\ cpc \in {"pop_reload", "batch_reload"} => cn >= 1
    /\ cpc = "pop_reload" => cn = 1
    /\ cpc \in {"read", "publish"} => 1 <= cn /\ cn <= Span(tail_local, head_cached)

\* Which value each slot holds.
Contents ==
    alive => \A j \in Index :
        slots[j] = IF taken <= Span(tail_local, j)
                      /\ Span(tail_local, j) < sent - received + written
                   THEN received + 1 + Span(tail_local, j)
                   ELSE Vacant

Dropped == ~alive => /\ ppc = "idle" /\ cpc = "idle"
                     /\ \A j \in Index : slots[j] = Vacant

IInv ==
    /\ TypeOK /\ RingOrder /\ Counts
    /\ ProducerClaim /\ ConsumerClaim
    /\ Contents /\ Dropped /\ InOrder

\* The ring implements the bounded FIFO channel.  The pop takes effect when
\* the slots are read, the push when its head store is made.
Fifo == INSTANCE BoundedFifo WITH
    Capacity <- Usable,
    visible  <- received + Span(tail_local, head),
    received <- received + taken,
    freed    <- received - Span(tail, tail_local)
FifoSpec == Fifo!Spec

=============================================================================
