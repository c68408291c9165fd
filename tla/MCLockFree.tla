----------------------------- MODULE MCLockFree -----------------------------
(***************************************************************************)
(* The two lock-free data structures in one model: the rings and the       *)
(* sequence lock.  Which of them a behaviour runs is chosen at the start;  *)
(* the other rests.                                                        *)
(***************************************************************************)
EXTENDS Rings, SeqLock

VARIABLE part         \* "ring" or "lock"

lockFreeVars == <<ringVars, lockVars, part>>

MCInit ==
    /\ Presets /\ LockInit
    /\ part \in {"ring", "lock"}
    /\ part = "lock" => engine = "RingEngine" /\ access = "raw"

InRing == part = "ring" /\ UNCHANGED <<lockVars, part>>
InLock == part = "lock" /\ UNCHANGED <<ringVars, part>>

MCNext == (InRing /\ RingsNext) \/ (InLock /\ LockNext)

\* The fairness of RingsSpec; and stores to the lock become visible in finite
\* time, and a reader in load keeps running.
MCSpec ==
    /\ MCInit /\ [][MCNext]_lockFreeVars
    /\ WF_lockFreeVars(InRing /\ PropagateHead /\ UNCHANGED <<engine, access>>)
    /\ WF_lockFreeVars(InRing /\ PropagateTail /\ UNCHANGED <<engine, access>>)
    /\ WF_lockFreeVars(InRing /\ Produce) /\ WF_lockFreeVars(InRing /\ Consume)
    /\ WF_lockFreeVars(InLock /\ SeqVisible)
    /\ \A w \in Words : WF_lockFreeVars(InLock /\ WordVisible(w))
    /\ \A r \in Readers : WF_lockFreeVars(InLock /\ rpc[r] # "idle" /\ Reader(r))

=============================================================================
