---------------------------- MODULE BoundedFifo ----------------------------
(***************************************************************************)
(* What the SPSC rings of crates/queue promise: a bounded FIFO channel     *)
(* between one producer and one consumer, over a memory in which the       *)
(* effect of one thread's operation reaches the other thread later.        *)
(*                                                                         *)
(* A value is identified by its ordinal: the k-th value the producer sent  *)
(* is k.  Four counters then say everything:                               *)
(*   sent     - values the producer's completed pushes have accepted       *)
(*   visible  - how many of them the consumer can see already              *)
(*   received - values handed to the consumer                              *)
(*   freed    - how many of those removals the producer can see already    *)
(***************************************************************************)
EXTENDS Naturals

CONSTANT Capacity     \* usable capacity: capacity() of the engines

VARIABLES sent, visible, received, freed,
          pushed,     \* values accepted by the last push (0 = Full)
          got         \* values returned by the last pop (<<>> = Empty)

vars == <<sent, visible, received, freed, pushed, got>>

Init ==
    /\ sent = 0 /\ visible = 0 /\ received = 0 /\ freed = 0
    /\ pushed = 0
    /\ got = <<>>

\* A push of k values takes effect; there must be room for all of them.
Push(k) ==
    /\ sent + k <= freed + Capacity
    /\ sent' = sent + k
    /\ pushed' = k
    /\ UNCHANGED <<visible, received, freed, got>>

\* A push reports Full: only when every usable slot is taken, as far as
\* removals have become visible to the producer.
PushFull ==
    /\ sent = freed + Capacity
    /\ pushed' = 0
    /\ UNCHANGED <<sent, visible, received, freed, got>>

\* Completed pushes become visible to the consumer, completed removals to
\* the producer.
Propagate ==
    /\ visible' \in visible..sent
    /\ freed' \in freed..received
    /\ UNCHANGED <<sent, received, pushed, got>>

\* A pop of k values returns exactly the k oldest values, in order.
Pop(k) ==
    /\ received + k <= visible
    /\ received' = received + k
    /\ got' = [i \in 1..k |-> received + i]
    /\ UNCHANGED <<sent, visible, freed, pushed>>

\* A pop reports Empty: only when nothing visible is left.
PopEmpty ==
    /\ received = visible
    /\ got' = <<>>
    /\ UNCHANGED <<sent, visible, received, freed, pushed>>

Next ==
    \/ \E k \in 1..Capacity : Push(k) \/ Pop(k)
    \/ PushFull
    \/ PopEmpty
    \/ Propagate

Spec == Init /\ [][Next]_vars

=============================================================================
