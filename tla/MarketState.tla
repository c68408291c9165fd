---------------------------- MODULE MarketState ----------------------------
(***************************************************************************)
(* MarketStateEngine of crates/market-state/src/engine.rs: one book and    *)
(* one snapshot state machine per instrument, and a single slot for the    *)
(* last TopOfBook, which its client empties with take_tob.                 *)
(*                                                                         *)
(* The client is the loop the repository's tests and benches run: process  *)
(* one event, take the pending TopOfBook, ask any queries.                 *)
(***************************************************************************)
EXTENDS MarketEngine

CONSTANTS ActiveCount,  \* instruments 1..ActiveCount are live
          Inputs,       \* the events that the feeds may deliver
          Borrowed      \* the instruments whose book the client asks for

Insts == 1 .. ActiveCount

ASSUME ActiveCountAssumption == ActiveCount \in Nat
ASSUME InputsAssumption == Inputs \subseteq HotEvent
ASSUME BorrowedAssumption == Borrowed \subseteq Insts

VARIABLES
    instruments,  \* per instrument, its InstrumentState
    tob_changed,  \* a TopOfBook is pending
    last_tob,     \* the last TopOfBook emitted, taken or not
    turn,         \* client: about to "process" an event or to "take"
    seen,         \* client: per instrument, the BBO it last took
    settled       \* per instrument: the last change of the book was checked
                  \* for a new BBO (history)

engineVars == <<instruments, tob_changed, last_tob>>
clientVars == <<turn, seen, settled>>
msVars == <<engineVars, clientVars>>

EngineInit ==
    /\ instruments = [i \in Insts |-> EmptyInstrument]
    /\ tob_changed = FALSE
    /\ last_tob = NoTob

Init ==
    /\ EngineInit
    /\ turn = "process"
    /\ seen = [i \in Insts |-> NoBbo]
    /\ settled = [i \in Insts |-> FALSE]

-----------------------------------------------------------------------------
(* process and take_tob *)

\* Events for unknown instruments are ignored, whatever their kind.
Known(e) == e.header.inst \in Insts

\* process(event): a returned TopOfBook takes the slot, pending or not.
ProcessEvent(e) ==
    \/ /\ ~Known(e)
       /\ UNCHANGED engineVars
    \/ /\ Known(e)
       /\ LET i == e.header.inst
              r == Handled(i, instruments[i], e)
          IN  /\ instruments' = [instruments EXCEPT ![i] = r.state]
              /\ last_tob' = IF r.tob = NoTob THEN last_tob ELSE r.tob
              /\ tob_changed' = (tob_changed \/ r.tob # NoTob)

\* take_tob
TakePending ==
    /\ tob_changed' = FALSE
    /\ UNCHANGED <<instruments, last_tob>>

-----------------------------------------------------------------------------
(* The client's loop. *)

\* Is the book of e's instrument checked for a new BBO by this event?
Checked(e) ==
    \/ EventKind(e) = "TopOfBook"
    \/ EventKind(e) = "BookDelta" /\ HasFlags(e.header.flags, LAST_IN_BATCH)

Process(e) ==
    /\ turn = "process"
    /\ ProcessEvent(e)
    /\ turn' = "take"
    /\ settled' = IF Known(e) /\ EventKind(e) \in {"BookDelta", "TopOfBook"}
                  THEN [settled EXCEPT ![e.header.inst] = Checked(e)]
                  ELSE settled
    /\ UNCHANGED seen

TakeTob ==
    /\ turn = "take"
    /\ TakePending
    /\ turn' = "process"
    /\ seen' = IF tob_changed THEN [seen EXCEPT ![last_tob.inst] = last_tob.bbo] ELSE seen
    /\ UNCHANGED settled

\* micro_price and spread ask for the best bid and, if there is one, for the
\* best ask; both refresh the cache they read.
Query(i) ==
    /\ turn = "process"
    /\ LET bid == Refresh(instruments[i].book, "Bid")
       IN  instruments' = [instruments EXCEPT ![i].book =
               IF bid["Bid"].best = None THEN bid ELSE Refresh(bid, "Ask")]
    /\ UNCHANGED <<tob_changed, last_tob, clientVars>>

\* book hands out the book itself; the client clears a side of it.
ClearBookSide(i, side) ==
    /\ turn = "process"
    /\ instruments' = [instruments EXCEPT ![i].book = ClearSide(@, side)]
    /\ settled' = [settled EXCEPT ![i] = FALSE]
    /\ UNCHANGED <<tob_changed, last_tob, turn, seen>>

Next ==
    \/ \E e \in Inputs : Process(e)
    \/ TakeTob
    \/ \E i \in Insts : Query(i)
    \/ \E i \in Borrowed, s \in Sides : ClearBookSide(i, s)

Spec == Init /\ [][Next]_msVars

-----------------------------------------------------------------------------
(* Properties *)

TypeOK ==
    /\ instruments \in [Insts -> InstrumentState]
    /\ tob_changed \in BOOLEAN
    /\ last_tob \in [inst: {0} \cup Insts, bbo: Bbo, micro: Int]
    /\ turn \in {"process", "take"}
    /\ seen \in [Insts -> Bbo]
    /\ settled \in [Insts -> BOOLEAN]

\* A clean cache of ArrayBook is the true best level of its side, however
\* deltas, clears and queries followed each other: best_bid and best_ask
\* never answer from a stale index, and agree with depth, level_count and
\* total_depth, which read the levels themselves.
CacheCoherent ==
    \A i \in Insts, s \in Sides :
        LET book == instruments[i].book
            best == Best(book, s)
        IN  /\ ~book[s].dirty => IsBest(book, s, book[s].best)
            /\ best = None <=> LevelCount(book, s) = 0
            /\ best # None => /\ best = Head(Depth(book, s, N))
                              /\ LotsAt(book, s, best) = TotalDepth(book, s, 1)

\* A client that calls take_tob after every event knows the best bid and ask
\* of every ready instrument whose last batch has ended and whose book has
\* both sides: no price change is swallowed by check_bbo_price_change, by a
\* snapshot restart, or by another instrument's use of the single slot.
SeenCurrent ==
    turn = "process" =>
        \A i \in Insts :
            LET st  == instruments[i]
                bbo == [s \in Sides |-> Best(st.book, s)]
            IN  st.snapshot_received /\ settled[i] /\ TwoSided(bbo) => seen[i] = bbo

\* The pending TopOfBook shows the best levels that its instrument's book
\* really has, with a micro price between them unless the weighted sums
\* exceed an i64.
TobFaithful ==
    tob_changed =>
        LET book == instruments[last_tob.inst].book
            bbo  == last_tob.bbo
        IN  /\ \A s \in Sides : IsBest(book, s, bbo[s])
            /\ Weighted(book, bbo) <= I64Max /\ Weight(book, bbo) <= I64Max =>
                  /\ last_tob.micro >= Min({bbo[s] : s \in Sides})
                  /\ last_tob.micro <= Max({bbo[s] : s \in Sides})

\* process emits a TopOfBook only when snapshot_received && !in_snapshot:
\* never from a book that is empty or partly replayed.
SnapshotSilent ==
    [][tob_changed' /\ ~tob_changed =>
        LET st == instruments'[last_tob'.inst]
        IN  st.snapshot_received /\ ~st.in_snapshot]_msVars

=============================================================================
