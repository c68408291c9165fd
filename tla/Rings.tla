------------------------------- MODULE Rings --------------------------------
(***************************************************************************)
(* The rings that crates/queue offers, on the engines of SpscRing: split   *)
(* handles for two threads (handle.rs, copy_ring/handle.rs), the RawRing   *)
(* and RawRingCopy of one thread, and the presets (presets.rs) that choose *)
(* engine, storage and index strategy.                                     *)
(*                                                                         *)
(* SpscRing with its BatchSizes is the CopyRingEngine, with no batch sizes *)
(* the RingEngine.  Which ring a behaviour runs is chosen at the start.    *)
(***************************************************************************)
EXTENDS SpscRing

CONSTANT MinCapacity      \* the capacity asked for

VARIABLES engine, access

ringVars == <<vars, engine, access>>

RingEngine == INSTANCE SpscRing WITH BatchSizes <- {}

\* HeapStorage::new rounds up to a power of two; InlineStorage asks for one.
HeapCapacity(min) ==
    LET enough == {c \in {2 ^ k : k \in 0 .. min} : c >= min}
    IN  CHOOSE c \in enough : \A d \in enough : c <= d

\* BranchWrap, the strategy of SpscRingFast.
BranchWrap(i) == IF i >= Cap THEN 0 ELSE i

\* The capacity of the ring is a power of two, for which masking is the
\* remainder.
ASSUME StorageAssumption == MinCapacity \in Nat \ {0} /\ Cap = HeapCapacity(MinCapacity)

\* The presets: every engine with every kind of access.
Presets ==
    /\ Init
    /\ engine \in {"RingEngine", "CopyRingEngine"}
    /\ access \in {"handles", "raw"}

\* Producer and Consumer; pop_into and try_pop, push and try_push differ in
\* how the result is returned.
RingProducer == engine = "RingEngine" /\ RingEngine!Producer
RingConsumer == engine = "RingEngine" /\ RingEngine!Consumer

\* ProducerCopy and ConsumerCopy
CopyProducer == engine = "CopyRingEngine" /\ Producer
CopyConsumer == engine = "CopyRingEngine" /\ Consumer

\* RawRing and RawRingCopy take &mut self: no operation starts before the
\* last one has returned, and the caller sees its own stores.
OneCaller(other) ==
    access = "raw" => other = "idle" /\ head = head_local /\ tail = tail_local

Produce ==
    /\ OneCaller(cpc)
    /\ RingProducer \/ CopyProducer
    /\ UNCHANGED <<engine, access>>

Consume ==
    /\ OneCaller(ppc)
    /\ RingConsumer \/ CopyConsumer
    /\ UNCHANGED <<engine, access>>

Propagate == (PropagateHead \/ PropagateTail) /\ UNCHANGED <<engine, access>>

DropRing == engine = "RingEngine" /\ RingEngine!Drop /\ UNCHANGED <<engine, access>>

RingsNext == Produce \/ Consume \/ Propagate \/ DropRing

RingsSpec ==
    /\ Presets /\ [][RingsNext]_ringVars
    /\ WF_vars(PropagateHead /\ UNCHANGED <<engine, access>>)
    /\ WF_vars(PropagateTail /\ UNCHANGED <<engine, access>>)
    /\ WF_vars(Produce) /\ WF_vars(Consume)

-----------------------------------------------------------------------------
(* Properties *)

\* RingEngine, which wraps only the successors of indices, cannot tell the two
\* strategies apart.
StrategiesAgree == \A i \in 0 .. Cap : BranchWrap(i) = Wrap(i)

\* A producer that keeps retrying and a consumer that keeps polling get all
\* values across: no stale cached index blocks either of them for ever.
AllDelivered == access = "handles" => <>(received = MaxSent \/ ~alive)

=============================================================================
