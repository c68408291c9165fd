----------------------------- MODULE MCStrategy ----------------------------
(***************************************************************************)
(* The parts that a strategy calls, in one model: its order tracker and    *)
(* position, the queue estimator, and the numeric routines under all of    *)
(* them.  They share no state; which of them a behaviour runs is chosen at *)
(* the start, and the other parts rest in their initial states.            *)
(***************************************************************************)
EXTENDS Orders, QueueEstimator, Numeric, Words

VARIABLE part         \* the part this behaviour runs

Level(instrument, side) == [instrument |-> instrument, side |-> side, price |-> 1]

\* Two instruments compete for one take-rate slot.
MCLevels == {Level(1, "Bid"), Level(2, "Bid")}

MCInit ==
    /\ Init /\ QueueInit /\ NumericInit /\ LimbsInit
    /\ part \in {"orders", "queue", "numeric", "words"}

OrdersStep == part = "orders" /\ Next /\ UNCHANGED <<queueVars, arg, operands, part>>
QueueStep == part = "queue" /\ QueueNext /\ UNCHANGED <<vars, arg, operands, part>>
NumericStep == part = "numeric" /\ NumericNext /\ UNCHANGED <<vars, queueVars, operands, part>>
WordsStep == part = "words" /\ WordsNext /\ UNCHANGED <<vars, queueVars, arg, part>>

MCNext == OrdersStep \/ QueueStep \/ NumericStep \/ WordsStep

MCSpec == MCInit /\ [][MCNext]_<<vars, queueVars, arg, operands, part>>

=============================================================================
