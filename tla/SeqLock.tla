------------------------------ MODULE SeqLock ------------------------------
(***************************************************************************)
(* The sequence lock of crates/seqlock: one writer publishes a value of    *)
(* several machine words, readers copy it without blocking and retry when  *)
(* the sequence counter tells them that the writer was active.             *)
(*                                                                         *)
(* The writer is modelled by when its stores become visible in memory.     *)
(* Store number k of the writer makes three kinds of stores, in program    *)
(* order: seq := 2k - 1 (Release), each word := k (plain), seq := 2k       *)
(* (Release).  Release orders a store after all earlier ones; a plain      *)
(* store is ordered after an earlier Release store only by the hardware:   *)
(* on x86-64 (Ordered = TRUE, total store order) but not on ARM64          *)
(* (Ordered = FALSE), where only stores to the same location are.          *)
(* Loads happen in program order: the first one is an Acquire and          *)
(* seqlock_read_barrier separates the copy from the last one.              *)
(***************************************************************************)
EXTENDS Integers

CONSTANTS Readers,    \* reader threads
          Words,      \* machine words of T, copied one at a time
          Ordered,    \* memory makes the writer's stores visible in order
          SeqMod,     \* 2^64: the counter wraps
          MaxStores   \* bound: calls of store in a behaviour

ASSUME SeqModAssumption == SeqMod \in Nat /\ SeqMod >= 2 /\ SeqMod % 2 = 0
ASSUME OrderedAssumption == Ordered \in BOOLEAN
ASSUME MaxStoresAssumption == MaxStores \in Nat
ASSUME WordsAssumption == Words # {}

VARIABLES
    issued,  \* calls of store so far
    seq,     \* stores to seq that are visible, seq's value before wrapping
    data,    \* per word, the store whose value is visible
    rpc,     \* reader: "idle", or its point in load
    seq1,    \* reader: seq as first loaded
    left,    \* reader: words not yet copied
    val,     \* reader: the local copy; once idle, the last result
    began    \* reader: seq when load was called (history)

readerVars == <<rpc, seq1, left, val, began>>
lockVars == <<issued, seq, data, readerVars>>

\* The counter as a usize.
Value(s) == s % SeqMod

LockInit ==
    /\ issued = 0 /\ seq = 0
    /\ data = [w \in Words |-> 0]
    /\ rpc = [r \in Readers |-> "idle"]
    /\ seq1 = [r \in Readers |-> 0]
    /\ left = [r \in Readers |-> {}]
    /\ val = [r \in Readers |-> [w \in Words |-> 0]]
    /\ began = [r \in Readers |-> 0]

-----------------------------------------------------------------------------
(* The writer. *)

\* store(val) is called.
Store ==
    /\ issued < MaxStores
    /\ issued' = issued + 1
    /\ UNCHANGED <<seq, data, readerVars>>

\* No reader is overtaken by a full lap of the counter (2^63 stores) between
\* its two loads of seq.
NotLapped == \A r \in Readers : rpc[r] \in {"copy", "seq2"} => seq + 1 - seq1[r] < SeqMod

\* A slip in store: the final store of seq is not a Release.
SeqVisibleRelaxed ==
    /\ seq < 2 * issued /\ NotLapped
    /\ seq' = seq + 1
    /\ UNCHANGED <<issued, data, readerVars>>

\* The next store to seq becomes visible: it is a Release, so every data word
\* stored before it has become visible.
SeqVisible ==
    /\ seq < 2 * issued /\ NotLapped
    /\ \A w \in Words : seq + 1 <= 2 * data[w] + 1
    /\ seq' = seq + 1
    /\ UNCHANGED <<issued, data, readerVars>>

\* A word of copy_in becomes visible.
WordVisible(w) ==
    /\ data[w] < issued
    /\ Ordered => seq >= 2 * data[w] + 1
    /\ data' = [data EXCEPT ![w] = @ + 1]
    /\ UNCHANGED <<issued, seq, readerVars>>

-----------------------------------------------------------------------------
(* A reader in load. *)

Load(r) ==
    /\ rpc[r] = "idle"
    /\ rpc' = [rpc EXCEPT ![r] = "seq1"]
    /\ began' = [began EXCEPT ![r] = seq]
    /\ UNCHANGED <<issued, seq, data, seq1, left, val>>

\* A slip in load: the parity test inverted.
ReadSeq1Inverted(r) ==
    /\ rpc[r] = "seq1"
    /\ seq1' = [seq1 EXCEPT ![r] = seq]
    /\ rpc' = [rpc EXCEPT ![r] = IF Value(seq) % 2 = 0 THEN "seq1" ELSE "copy"]
    /\ left' = [left EXCEPT ![r] = Words]
    /\ UNCHANGED <<issued, seq, data, val, began>>

\* First load of seq; odd: the writer is active, spin.
ReadSeq1(r) ==
    /\ rpc[r] = "seq1"
    /\ seq1' = [seq1 EXCEPT ![r] = seq]
    /\ rpc' = [rpc EXCEPT ![r] = IF Value(seq) % 2 # 0 THEN "seq1" ELSE "copy"]
    /\ left' = [left EXCEPT ![r] = Words]
    /\ UNCHANGED <<issued, seq, data, val, began>>

\* copy_out, word by word, in any order the copy policy chooses.
CopyWord(r, w) ==
    /\ rpc[r] = "copy" /\ w \in left[r]
    /\ val' = [val EXCEPT ![r][w] = data[w]]
    /\ left' = [left EXCEPT ![r] = @ \ {w}]
    /\ rpc' = [rpc EXCEPT ![r] = IF left[r] = {w} THEN "seq2" ELSE "copy"]
    /\ UNCHANGED <<issued, seq, data, seq1, began>>

\* A slip in load: the copy is returned without loading seq again.
ReadSeq2Unchecked(r) ==
    /\ rpc[r] = "seq2"
    /\ rpc' = [rpc EXCEPT ![r] = "idle"]
    /\ UNCHANGED <<issued, seq, data, seq1, left, val, began>>

\* Second load of seq: return the copy if it has not changed, else retry.
ReadSeq2(r) ==
    /\ rpc[r] = "seq2"
    /\ rpc' = [rpc EXCEPT ![r] = IF Value(seq) = Value(seq1[r]) THEN "idle" ELSE "seq1"]
    /\ UNCHANGED <<issued, seq, data, seq1, left, val, began>>

Reader(r) == Load(r) \/ ReadSeq1(r) \/ ReadSeq2(r) \/ \E w \in Words : CopyWord(r, w)

LockNext ==
    \/ Store \/ SeqVisible
    \/ \E w \in Words : WordVisible(w)
    \/ \E r \in Readers : Reader(r)

LockSpec == LockInit /\ [][LockNext]_lockVars

-----------------------------------------------------------------------------
(* Properties. *)

LockTypeOK ==
    /\ issued \in Nat /\ seq \in Nat
    /\ data \in [Words -> Nat]
    /\ rpc \in [Readers -> {"idle", "seq1", "copy", "seq2"}]
    /\ seq1 \in [Readers -> Nat]
    /\ left \in [Readers -> SUBSET Words]
    /\ val \in [Readers -> [Words -> Nat]]
    /\ began \in [Readers -> Nat]

\* "we check the sequence after and discard torn reads": every value load
\* returns was stored as a whole, by one call of store.
NoTornRead == \A r \in Readers : rpc[r] = "idle" => \A v, w \in Words : val[r][v] = val[r][w]

\* load returns a value at least as new as the one whose store was complete,
\* as seen in seq, when load was called; so a reader never goes back in time.
NotStale == \A r \in Readers : rpc[r] = "idle" => \A w \in Words : val[r][w] >= began[r] \div 2

\* Lock freedom of load: once the writer pauses, load returns.
LoadReturns == \A r \in Readers : rpc[r] # "idle" ~> rpc[r] = "idle"

(***************************************************************************)
(* The inductive invariants behind the first two.                          *)
(***************************************************************************)
InCopy(r) == rpc[r] \in {"copy", "seq2"}

\* Release: no store to seq is visible before the words it follows.
SeqFollowsData == \A w \in Words : seq <= 2 * data[w] + 1

\* Each word in the local copy is at least as new as began.
CopyNotStale == \A r \in Readers :
    /\ began[r] <= seq
    /\ InCopy(r) => \A w \in Words \ left[r] : began[r] <= 2 * val[r][w] + 1
    /\ rpc[r] = "seq2" => left[r] = {}
    /\ rpc[r] = "idle" => \A w \in Words : began[r] <= 2 * val[r][w] + 1

\* Total store order: no word is visible before the odd store it follows.
DataFollowsSeq == \A w \in Words : 2 * data[w] <= seq + 1

\* As long as seq has not moved, the words copied all come from one store.
CopyWhole == \A r \in Readers : InCopy(r) =>
    /\ seq1[r] <= seq /\ seq - seq1[r] < SeqMod /\ seq1[r] % 2 = 0
    /\ seq = seq1[r] => \A w \in Words \ left[r] : 2 * val[r][w] = seq1[r]

=============================================================================
