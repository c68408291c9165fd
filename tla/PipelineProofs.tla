--------------------------- MODULE PipelineProofs ---------------------------
(***************************************************************************)
(* Proofs about Pipeline: no event is lost without being counted, every    *)
(* snapshot that gets through ends, and a snapshot repairs every loss      *)
(* before it, for every number of levels, every size of ring and output    *)
(* array and every sequence of messages, readable or not, of drops and of  *)
(* lost links.                                                             *)
(***************************************************************************)
EXTENDS Pipeline, NumberLemmas, SequenceTheorems

-----------------------------------------------------------------------------
(* Events *)

Snap(e) == HasFlags(e.header.flags, IS_SNAPSHOT)
Ends(e) == HasFlags(e.header.flags, LAST_IN_BATCH)

\* The event sets the level i of side s.
Touches(e, s, i) ==
    EventKind(e) = "BookDelta" /\ e.body.payload.side = s /\ e.body.payload.price = i

\* What the decoder emits: changes of levels, and trades, which are never part
\* of a snapshot.
Decoded ==
    {e \in [header: EventHeader, body: Variant("BookDelta", BookDeltaPayload)] :
        e.body.payload.price \in Index}
    \cup
    {e \in [header: EventHeader, body: Variant("Trade", TradePayload)] : ~Snap(e)}

\* What the decoder emits: deltas on the grid, and trades, which are no snapshots.
LEMMA DecodedFacts ==
    ASSUME NEW e \in Decoded
    PROVE  /\ e.header.seq \in Nat /\ e.header.flags \in EventFlags
           /\ EventKind(e) \in {"BookDelta", "Trade"}
           /\ EventKind(e) = "BookDelta" =>
                 /\ e.body.payload.price \in Index /\ e.body.payload.qty \in Nat
                 /\ e.body.payload.side \in Sides
           /\ EventKind(e) = "Trade" => ~Snap(e)
  BY DEF Decoded, EventHeader, Variant, BookDeltaPayload, EventKind

\* A sequence of events in the order of their numbers.
Numbered(es) ==
    \A k, l \in 1 .. Len(es) : k < l => es[k].header.seq < es[l].header.seq

\* The events of a sequence after its first.
LEMMA Popped ==
    ASSUME NEW es \in Seq(Decoded), es # <<>>, Numbered(es)
    PROVE  /\ Head(es) \in Decoded /\ Tail(es) \in Seq(Decoded) /\ Numbered(Tail(es))
           /\ Len(Tail(es)) = Len(es) - 1
           /\ Range(es) = {Head(es)} \cup Range(Tail(es))
           /\ \A x \in Range(Tail(es)) : Head(es).header.seq < x.header.seq
  <1>1. /\ Len(es) \in Nat \ {0} /\ Head(es) = es[1] /\ Tail(es) \in Seq(Decoded)
        /\ Len(Tail(es)) = Len(es) - 1 /\ \A k \in 1 .. Len(Tail(es)) : Tail(es)[k] = es[k + 1]
        /\ DOMAIN es = 1 .. Len(es) /\ DOMAIN Tail(es) = 1 .. Len(Tail(es))
        /\ Head(es) \in Decoded
    BY HeadTailProperties, EmptySeq, LenProperties
  <1>2. Numbered(Tail(es))
    BY <1>1 DEF Numbered
  <1>3. \A x \in Range(Tail(es)) : x \in Range(es) /\ Head(es).header.seq < x.header.seq
    BY <1>1 DEF Numbered, Range
  <1>4. ASSUME NEW x \in Range(es), x # Head(es) PROVE x \in Range(Tail(es))
    <2>1. PICK k \in 1 .. Len(es) : x = es[k]
      BY <1>1 DEF Range
    <2>2. k - 1 \in 1 .. Len(Tail(es)) /\ Tail(es)[k - 1] = x
      BY <1>1, <1>4, <2>1
    <2> QED BY <1>1, <2>2 DEF Range
  <1>5. Head(es) \in Range(es)
    BY <1>1 DEF Range
  <1> QED BY <1>1, <1>2, <1>3, <1>4, <1>5

\* A sequence of events after another one was appended.
LEMMA Pushed ==
    ASSUME NEW es \in Seq(Decoded), Numbered(es), NEW e \in Decoded,
           \A x \in Range(es) : x.header.seq < e.header.seq
    PROVE  /\ Append(es, e) \in Seq(Decoded) /\ Numbered(Append(es, e))
           /\ Len(Append(es, e)) = Len(es) + 1
           /\ Range(Append(es, e)) = Range(es) \cup {e}
  <1> DEFINE a == Append(es, e)  n == Len(es)
  <1>1. /\ a \in Seq(Decoded) /\ Len(a) = n + 1 /\ n \in Nat
        /\ a[n + 1] = e /\ \A k \in 1 .. n : a[k] = es[k]
        /\ DOMAIN es = 1 .. n /\ DOMAIN a = 1 .. n + 1
    BY AppendProperties, LenProperties
  <1> HIDE DEF a, n
  <1>2. \A k \in 1 .. n : es[k] \in Range(es)
    BY <1>1 DEF Range
  <1>3. Range(a) = Range(es) \cup {e}
    <2>1. \A x \in Range(a) : x \in Range(es) \cup {e}
      <3> SUFFICES ASSUME NEW k \in 1 .. n + 1 PROVE a[k] \in Range(es) \cup {e}
        BY <1>1 DEF Range
      <3>1. k = n + 1 \/ k \in 1 .. n
        BY <1>1
      <3> QED BY <3>1, <1>1, <1>2
    <2>2. \A x \in Range(es) : x \in Range(a)
      BY <1>1 DEF Range
    <2>3. e \in Range(a)
      BY <1>1 DEF Range
    <2> QED BY <2>1, <2>2, <2>3
  <1>4. Numbered(a)
    <2> SUFFICES ASSUME NEW k \in 1 .. n + 1, NEW l \in 1 .. n + 1, k < l
                 PROVE  a[k].header.seq < a[l].header.seq
      BY <1>1 DEF Numbered
    <2>1. k \in 1 .. n /\ a[k] = es[k]
      BY <1>1
    <2>2. CASE l \in 1 .. n
      BY <1>1, <2>1, <2>2 DEF Numbered, n
    <2>3. CASE l = n + 1
      BY <1>1, <1>2, <2>1, <2>3
    <2> QED BY <1>1, <2>2, <2>3
  <1> QED BY <1>1, <1>3, <1>4 DEF a, n

-----------------------------------------------------------------------------
(* What the engine does with an event, as far as the levels of its book and *)
(* its snapshot flags go.                                                   *)

\* Refreshing a cache changes no level.
LEMMA RefreshKeepsLevels ==
    ASSUME NEW book \in Book, NEW s \in Sides
    PROVE  /\ Refresh(book, s) \in Book
           /\ \A t \in Sides, i \in Index : LotsAt(Refresh(book, s), t, i) = LotsAt(book, t, i)
  <1>1. CASE book[s].dirty
    <2> DEFINE levels == Occupied(book[s])
               best == Scan(book, s)
               side == [book[s] EXCEPT !.best = best, !.dirty = FALSE]
    <2>1. levels \in SUBSET Index /\ Index \in SUBSET Nat /\ Index = 0 .. N - 1 /\ N - 1 \in Nat
      BY NAssumption DEF Occupied, Index
    <2>2. levels # {} => Min(levels) \in levels /\ Max(levels) \in levels
      BY <2>1, MinMember, MaxMember
    <2>3. best \in Index \cup {None}
      BY <2>1, <2>2 DEF Scan
    <2> HIDE DEF best, levels
    <2>4. book[s] \in BookSide
      BY DEF Book
    <2>5. side \in BookSide /\ side.lots = book[s].lots
      BY <2>3, <2>4 DEF BookSide
    <2>6. Refresh(book, s) = [book EXCEPT ![s] = side]
      BY <1>1 DEF Refresh, best
    <2> HIDE DEF side
    <2>7. /\ Refresh(book, s) \in Book
          /\ \A t \in Sides : Refresh(book, s)[t].lots = book[t].lots
      BY <2>5, <2>6 DEF Book
    <2> QED BY <2>7 DEF LotsAt
  <1>2. CASE ~book[s].dirty
    BY <1>2 DEF Refresh
  <1> QED BY <1>1, <1>2

\* apply_delta at a price on the grid sets that level and no other.
LEMMA DeltaSetsLevel ==
    ASSUME NEW book \in Book, NEW p \in Index, NEW q \in Nat, NEW s \in Sides
    PROVE  /\ ApplyDelta(book, p, q, s) \in Book
           /\ \A t \in Sides, i \in Index :
                 LotsAt(ApplyDelta(book, p, q, s), t, i)
                     = IF t = s /\ i = p THEN q ELSE LotsAt(book, t, i)
  <1> DEFINE lots == [book[s].lots EXCEPT ![p] = q]
             side == [book[s] EXCEPT !.lots = lots, !.dirty = TRUE]
             b == ApplyDelta(book, p, q, s)
  <1>1. book[s] \in BookSide /\ book[s].lots \in [Index -> Nat]
    BY DEF Book, BookSide
  <1>2. /\ lots \in [Index -> Nat]
        /\ \A i \in Index : lots[i] = IF i = p THEN q ELSE book[s].lots[i]
    BY <1>1
  <1>3. b = [book EXCEPT ![s] = side]
    BY NAssumption DEF ApplyDelta, InRange, Index
  <1> HIDE DEF lots
  <1>4. side \in BookSide /\ side.lots = lots
    BY <1>1, <1>2 DEF BookSide
  <1> HIDE DEF side, b
  <1>5. b \in Book /\ b[s] = side /\ \A t \in Sides \ {s} : b[t] = book[t]
    BY <1>3, <1>4 DEF Book
  <1>6. \A t \in Sides, i \in Index :
            LotsAt(b, t, i) = IF t = s /\ i = p THEN q ELSE LotsAt(book, t, i)
    BY <1>2, <1>4, <1>5 DEF LotsAt
  <1> QED BY <1>5, <1>6 DEF b

\* Checking the BBO changes neither the levels nor the snapshot flags.
LEMMA CheckKeepsLevels ==
    ASSUME NEW st \in InstrumentState
    PROVE  LET new == CheckBbo(Inst, st).state
           IN  /\ new \in InstrumentState
               /\ \A t \in Sides, i \in Index : LotsAt(new.book, t, i) = LotsAt(st.book, t, i)
               /\ new.snapshot_received = st.snapshot_received
               /\ new.in_snapshot = st.in_snapshot
  <1> DEFINE half == Refresh(st.book, "Bid")
             book == RefreshBoth(st.book)
             bbo == [s \in Sides |-> book[s].best]
             new == CheckBbo(Inst, st).state
  <1>1. st.book \in Book /\ "Bid" \in Sides /\ "Ask" \in Sides
    BY DEF InstrumentState, Sides
  <1>2. /\ half \in Book
        /\ \A t \in Sides, i \in Index : LotsAt(half, t, i) = LotsAt(st.book, t, i)
    BY <1>1, RefreshKeepsLevels
  <1>3. book = Refresh(half, "Ask")
    BY DEF RefreshBoth
  <1> HIDE DEF half, book
  <1>4. /\ book \in Book
        /\ \A t \in Sides, i \in Index : LotsAt(book, t, i) = LotsAt(half, t, i)
    BY <1>1, <1>2, <1>3, RefreshKeepsLevels
  <1>5. bbo \in Bbo
    BY <1>4 DEF Book, BookSide, Bbo
  <1>6. new = [st EXCEPT !.book = book, !.prev = bbo]
    BY DEF CheckBbo, book
  <1> HIDE DEF bbo, new
  <1>7. /\ new \in InstrumentState /\ new.book = book
        /\ new.snapshot_received = st.snapshot_received
        /\ new.in_snapshot = st.in_snapshot
    BY <1>4, <1>5, <1>6 DEF InstrumentState
  <1> QED BY <1>2, <1>4, <1>7 DEF new

\* A trade leaves the instrument alone.  A change of a level sets it; one that
\* belongs to a snapshot empties all others first.  A snapshot event opens the
\* snapshot, and the end of a batch closes it.
LEMMA Processed ==
    ASSUME NEW st \in InstrumentState, NEW e \in Decoded
    PROVE  LET new == Handled(Inst, st, e).state
           IN  /\ new \in InstrumentState
               /\ \A s \in Sides, i \in Index :
                     LotsAt(new.book, s, i) =
                         IF Touches(e, s, i) THEN e.body.payload.qty
                         ELSE IF Snap(e) THEN 0 ELSE LotsAt(st.book, s, i)
               /\ Snap(e) /\ Ends(e) => new.snapshot_received /\ ~new.in_snapshot
               /\ ~Snap(e) /\ st.snapshot_received /\ ~st.in_snapshot =>
                     new.snapshot_received /\ ~new.in_snapshot
  <1> DEFINE d == e.body.payload
             first == [st EXCEPT !.seq = e.header.seq]
             begun == BeginSnapshot(first, e)
             book == ApplyDelta(begun.book, d.price, d.qty, d.side)
             applied == [begun EXCEPT !.book = book]
             ready == applied.snapshot_received \/ applied.in_snapshot
             done == [applied EXCEPT !.in_snapshot = FALSE, !.snapshot_received = ready]
             new == Handled(Inst, st, e).state
  <1>1. CASE EventKind(e) = "Trade"
    <2>1. new = st
      BY <1>1 DEF Handled, OnTrade
    <2>2. ~Snap(e) /\ \A s \in Sides, i \in Index : ~Touches(e, s, i)
      BY <1>1, DecodedFacts DEF Touches
    <2> QED BY <2>1, <2>2
  <1>2. CASE EventKind(e) = "BookDelta"
    <2>1. d.price \in Index /\ d.qty \in Nat /\ d.side \in Sides /\ e.header.seq \in Nat
      BY <1>2, DecodedFacts
    <2>2. new = EndBatch(Inst, applied, e).state
      BY <1>2 DEF Handled, OnBookDelta
    <2>3. /\ first \in InstrumentState /\ first.book = st.book
          /\ first.snapshot_received = st.snapshot_received
          /\ first.in_snapshot = st.in_snapshot
      BY <2>1 DEF InstrumentState
    <2> HIDE DEF first
    <2>4. /\ begun \in InstrumentState /\ begun.book \in Book
          /\ \A s \in Sides, i \in Index :
                LotsAt(begun.book, s, i) = IF Snap(e) THEN 0 ELSE LotsAt(st.book, s, i)
          /\ Snap(e) => begun.in_snapshot
          /\ ~Snap(e) => /\ begun.snapshot_received = st.snapshot_received
                         /\ begun.in_snapshot = st.in_snapshot
      <3>1. CASE Snap(e)
        <4>1. begun = [first EXCEPT !.book = EmptyBook, !.in_snapshot = TRUE,
                                    !.snapshot_received = FALSE]
          BY <3>1 DEF Snap, BeginSnapshot
        <4>2. /\ EmptyBook \in Book
              /\ \A s \in Sides, i \in Index : LotsAt(EmptyBook, s, i) = 0
          BY DEF EmptyBook, EmptySide, Book, BookSide, LotsAt
        <4>3. begun \in InstrumentState /\ begun.book = EmptyBook /\ begun.in_snapshot = TRUE
          BY <2>3, <4>1, <4>2 DEF InstrumentState
        <4> QED BY <3>1, <4>2, <4>3
      <3>2. CASE ~Snap(e)
        <4>1. begun = first
          BY <3>2 DEF Snap, BeginSnapshot
        <4> QED BY <2>3, <3>2, <4>1 DEF InstrumentState
      <3> QED BY <3>1, <3>2
    <2> HIDE DEF begun
    <2>5. /\ book \in Book
          /\ \A s \in Sides, i \in Index :
                LotsAt(book, s, i) = IF s = d.side /\ i = d.price THEN d.qty
                                     ELSE LotsAt(begun.book, s, i)
      BY SMTT(30), <2>1, <2>4, DeltaSetsLevel
    <2> HIDE DEF book
    <2>6. /\ applied \in InstrumentState /\ applied.book = book
          /\ applied.snapshot_received = begun.snapshot_received
          /\ applied.in_snapshot = begun.in_snapshot
          /\ applied.snapshot_received \in BOOLEAN /\ applied.in_snapshot \in BOOLEAN
      BY <2>4, <2>5 DEF InstrumentState
    <2>7. EndBatch(Inst, applied, e).state =
              IF ~Ends(e) THEN applied
              ELSE IF done.snapshot_received THEN CheckBbo(Inst, done).state ELSE done
      BY DEF EndBatch, Ends
    <2> HIDE DEF applied
    <2>8. ready \in BOOLEAN /\ (ready <=> applied.snapshot_received \/ applied.in_snapshot)
      OBVIOUS
    <2> HIDE DEF ready
    <2>9. /\ done \in InstrumentState /\ done.book = book /\ done.in_snapshot = FALSE
          /\ done.snapshot_received = ready
      BY <2>6, <2>8 DEF InstrumentState
    <2> HIDE DEF done, new
    <2>10. \A s \in Sides, i \in Index :
               LotsAt(book, s, i) = IF Touches(e, s, i) THEN e.body.payload.qty
                                    ELSE IF Snap(e) THEN 0 ELSE LotsAt(st.book, s, i)
      BY <1>2, <2>4, <2>5 DEF Touches
    <2>11. CASE ~Ends(e)
      <3>1. new = applied
        BY <2>2, <2>7, <2>11
      <3> QED BY <2>4, <2>6, <2>10, <2>11, <3>1 DEF new
    <2>12. CASE Ends(e) /\ ~done.snapshot_received
      <3>1. new = done
        BY <2>2, <2>7, <2>12
      <3>2. ~ready
        BY <2>9, <2>12
      <3> QED BY <2>4, <2>6, <2>8, <2>9, <2>10, <3>1, <3>2 DEF new
    <2>13. CASE Ends(e) /\ done.snapshot_received
      <3>1. new = CheckBbo(Inst, done).state
        BY <2>2, <2>7, <2>13
      <3>2. /\ new \in InstrumentState
            /\ \A s \in Sides, i \in Index : LotsAt(new.book, s, i) = LotsAt(done.book, s, i)
            /\ new.snapshot_received = done.snapshot_received
            /\ new.in_snapshot = done.in_snapshot
        BY <2>9, <3>1, CheckKeepsLevels
      <3> QED BY <2>9, <2>10, <2>13, <3>2 DEF new
    <2> QED BY <2>11, <2>12, <2>13
  <1> QED BY <1>1, <1>2, DecodedFacts

-----------------------------------------------------------------------------
(* What the decoder emits *)

\* The loop of decode_book is defined for every number of levels.
LEMMA LoopDefined ==
    ASSUME NEW levels, NEW n \in Nat
    PROVE  \E f : f = [k \in 0 .. n |-> IF k = 0 THEN <<>> ELSE Keep(f[k - 1], levels[k])]
  <1> DEFINE Loop(m, f) ==
                 f = [k \in 0 .. m |-> IF k = 0 THEN <<>> ELSE Keep(f[k - 1], levels[k])]
             bad == {m \in Nat : ~\E f : Loop(m, f)}
  <1> SUFFICES ASSUME bad # {} PROVE FALSE
    OBVIOUS
  <1>1. PICK m \in bad : \A k \in bad : m <= k
    <2>1. bad \in SUBSET Nat
      OBVIOUS
    <2> HIDE DEF bad
    <2> QED BY <2>1, LeastNumber
  <1>2. m # 0
    <2> DEFINE f == [k \in 0 .. 0 |-> <<>>]
    <2>1. Loop(0, f)
      OBVIOUS
    <2> HIDE DEF Loop, f
    <2> QED BY <1>1, <2>1
  <1>3. PICK f : Loop(m - 1, f)
    <2>1. m - 1 \in Nat /\ m - 1 \notin bad
      BY <1>1, <1>2
    <2> HIDE DEF Loop
    <2> QED BY <2>1
  <1> DEFINE g == [k \in 0 .. m |-> IF k = m THEN Keep(f[m - 1], levels[m]) ELSE f[k]]
  <1>4. ASSUME NEW k \in 0 .. m
        PROVE  g[k] = IF k = 0 THEN <<>> ELSE Keep(g[k - 1], levels[k])
    <2>1. CASE k = 0
      BY <1>1, <1>2, <1>3, <2>1
    <2>2. CASE k # 0 /\ k = m
      BY <1>1, <1>2, <2>2
    <2>3. CASE k # 0 /\ k # m
      <3>1. k \in 0 .. m - 1 /\ k - 1 \in 0 .. m - 1 /\ g[k] = f[k] /\ g[k - 1] = f[k - 1]
        BY <1>1, <2>3
      <3> QED BY <1>3, <2>3, <3>1
    <2> QED BY <2>1, <2>2, <2>3
  <1>5. Loop(m, g)
    <2> DEFINE h == [k \in 0 .. m |-> IF k = 0 THEN <<>> ELSE Keep(g[k - 1], levels[k])]
    <2>1. \A k \in 0 .. m : g[k] = h[k]
      BY <1>4
    <2>2. g = h
      BY <2>1
    <2> QED BY <2>2
  <1> HIDE DEF Loop, g
  <1> QED BY <1>1, <1>5

\* Only levels of the message that parse are emitted.
LEMMA EmittedLevels ==
    ASSUME NEW L, NEW levels \in Seq(L)
    PROVE  Emitted(levels) \in Seq({l \in L : Parses(l)})
  <1> DEFINE n == Len(levels)
             kept == CHOOSE f :
                 f = [k \in 0 .. n |-> IF k = 0 THEN <<>> ELSE Keep(f[k - 1], levels[k])]
             P == {l \in L : Parses(l)}
             bad == {k \in 0 .. n : kept[k] \notin Seq(P)}
  <1>1. Emitted(levels) = kept[n]
    BY DEF Emitted
  <1>2. n \in Nat /\ \A k \in 1 .. n : levels[k] \in L
    BY LenProperties, ElementOfSeq
  <1> HIDE DEF n
  <1>3. kept = [k \in 0 .. n |-> IF k = 0 THEN <<>> ELSE Keep(kept[k - 1], levels[k])]
    BY <1>2, LoopDefined
  <1> HIDE DEF kept
  <1>4. bad = {}
    <2> SUFFICES ASSUME bad # {} PROVE FALSE
      OBVIOUS
    <2>1. PICK k \in bad : \A l \in bad : k <= l
      <3>1. bad \in SUBSET Nat
        BY <1>2
      <3> HIDE DEF bad
      <3> QED BY <3>1, LeastNumber
    <2>2. k \in 0 .. n /\ kept[k] \notin Seq(P)
      BY <2>1
    <2>3. k # 0
      <3>1. kept[0] = <<>>
        BY <1>2, <1>3
      <3> QED BY <2>2, <3>1, EmptySeq
    <2>4. kept[k] = Keep(kept[k - 1], levels[k])
      BY <1>2, <1>3, <2>2, <2>3
    <2>5. kept[k - 1] \in Seq(P)
      BY <1>2, <2>1, <2>2, <2>3
    <2>6. Parses(levels[k]) => levels[k] \in P
      BY <1>2, <2>2, <2>3
    <2> HIDE DEF P
    <2> QED BY <2>2, <2>4, <2>5, <2>6, AppendProperties DEF Keep
  <1> QED BY <1>1, <1>2, <1>4

\* The levels the venue announces.
VenueLevels ==
    {l \in [price: Index, qty: Nat, side: Sides] : l.qty = venue[l.side][l.price]}

VenueTypes == venue \in [Sides -> [Index -> Nat]]

\* A "book" message holds levels of the venue's book, and Junk.
LEMMA MessageLevels ==
    ASSUME VenueTypes, NEW levels \in BookMessages
    PROVE  levels \in Seq(VenueLevels \cup {Junk})
  <1> DEFINE L == VenueLevels \cup {Junk}
  <1>1. ASSUME NEW s \in Sides, NEW b \in SetToSeqs(Levels(s)) PROVE b \in Seq(L)
    <2>1. Levels(s) \subseteq VenueLevels
      BY DEF Levels, VenueLevels, VenueTypes
    <2>2. IsFiniteSet(Levels(s))
      <3> DEFINE T == {j \in Index : venue[s][j] > 0}
                 f == [i \in T |-> [price |-> i, qty |-> venue[s][i], side |-> s]]
      <3>1. IsFiniteSet(T)
        <4>1. IsFiniteSet(Index) /\ T \subseteq Index
          BY FS_Interval, NAssumption DEF Index
        <4> QED BY <4>1, FS_Subset
      <3>2. f \in Surjection(T, Levels(s))
        BY DEF Levels, Surjection
      <3> QED BY <3>1, <3>2, FS_Surjection
    <2>3. Cardinality(Levels(s)) \in Nat
      BY <2>2, FS_CardinalityType
    <2>4. b \in [1 .. Cardinality(Levels(s)) -> Levels(s)]
      BY DEF SetToSeqs
    <2>5. b \in Seq(Levels(s))
      BY <2>3, <2>4, SeqDef
    <2> QED BY <2>1, <2>5, SeqDef
  <1>2. Junk \in L
    OBVIOUS
  <1>3. ASSUME NEW s \in Sides, NEW b \in SideLevels(s) PROVE b \in Seq(L)
    <2>1. PICK c \in SetToSeqs(Levels(s)), readable \in [1 .. N -> Readings] :
              b = [k \in DOMAIN c |-> IF readable[k] THEN c[k] ELSE Junk]
      BY DEF SideLevels
    <2>2. c \in Seq(L)
      BY <1>1, <2>1
    <2> HIDE DEF L
    <2>3. Len(c) \in Nat /\ DOMAIN c = 1 .. Len(c) /\ \A k \in 1 .. Len(c) : c[k] \in L
      BY <2>2, LenProperties, ElementOfSeq
    <2>4. b \in [1 .. Len(c) -> L]
      BY <1>2, <2>1, <2>3
    <2> QED BY <2>3, <2>4, SeqDef
  <1>4. PICK b \in SideLevels("Bid"), a \in SideLevels("Ask") : levels = b \o a
    BY DEF BookMessages
  <1>5. b \in Seq(L) /\ a \in Seq(L)
    BY <1>3, <1>4 DEF Sides
  <1> HIDE DEF L
  <1> QED BY <1>4, <1>5, ConcatProperties DEF L

\* The events of a message: numbered on from seq, a snapshot batch has its end,
\* and a level gets the quantity that the venue's book v has there.
Fresh(events, v) ==
    /\ events \in Seq(Decoded)
    /\ \A k \in 1 .. Len(events) :
           /\ events[k].header.seq = seq + k
           /\ Snap(events[k]) =>
                 Snap(events[Len(events)]) /\ Ends(events[Len(events)])
           /\ \A s \in Sides, i \in Index :
                 Touches(events[k], s, i) => events[k].body.payload.qty = v[s][i]

\* A delta that the decoder builds touches exactly the level it is for.
LEMMA DeltaFresh ==
    ASSUME NEW k \in Nat, NEW flags \in EventFlags, NEW action \in UpdateAction,
           NEW p \in Index, NEW q \in Nat, NEW side \in Sides
    PROVE  LET e == Delta(k, flags, [price |-> p, qty |-> q, side |-> side], action)
           IN  /\ e \in Decoded
               /\ e.header.seq = k /\ e.header.flags = flags
               /\ EventKind(e) = "BookDelta" /\ e.body.payload.qty = q
               /\ \A s, i : Touches(e, s, i) <=> s = side /\ i = p
  <1> DEFINE d == [price |-> p, qty |-> q, side |-> side, action |-> action]
             h == [seq |-> k, inst |-> Inst, flags |-> flags]
             e == [header |-> h, body |-> [kind |-> "BookDelta", payload |-> d]]
  <1>1. Delta(k, flags, [price |-> p, qty |-> q, side |-> side], action) = e
    BY DEF Delta, book_delta, HotEventOf, Header
  <1>2. d \in BookDeltaPayload
    BY DEF BookDeltaPayload, Index
  <1>3. h \in EventHeader
    BY DEF EventHeader, Inst
  <1>4. e \in [header: EventHeader, body: Variant("BookDelta", BookDeltaPayload)]
    BY <1>2, <1>3 DEF Variant
  <1>5. e \in Decoded
    BY <1>4 DEF Decoded
  <1> QED BY <1>1, <1>5 DEF Touches, EventKind

\* What decode_book emits is fresh: numbered in order, ended, and what the venue has.
LEMMA BookFresh ==
    ASSUME VenueTypes, seq \in Nat, NEW levels \in BookMessages
    PROVE  Fresh(DecodeBook(levels), venue)
  <1> DEFINE em == Emitted(levels)
             n == Len(em)
             Flags(k) == With(IS_SNAPSHOT, IF k = n THEN LAST_IN_BATCH ELSE EMPTY)
             d == DecodeBook(levels)
  <1>1. em \in Seq(VenueLevels)
    <2>1. em \in Seq({l \in VenueLevels \cup {Junk} : Parses(l)})
      BY MessageLevels, EmittedLevels
    <2>2. {l \in VenueLevels \cup {Junk} : Parses(l)} \subseteq VenueLevels
      BY DEF Parses
    <2> HIDE DEF em
    <2> QED BY <2>1, <2>2, SeqDef
  <1>2. n \in Nat /\ \A k \in 1 .. n : em[k] \in VenueLevels
    BY <1>1, LenProperties, ElementOfSeq
  <1>3. d = [k \in 1 .. n |-> Delta(seq + k, Flags(k), em[k], "New")]
    BY DEF DecodeBook
  <1> HIDE DEF em, n, d
  <1>4. \A k \in 1 .. n : /\ Flags(k) \in EventFlags /\ HasFlags(Flags(k), IS_SNAPSHOT)
                          /\ k = n => HasFlags(Flags(k), LAST_IN_BATCH)
    BY DEF With, HasFlags, EventFlags, EMPTY, IS_SNAPSHOT, LAST_IN_BATCH
  <1> HIDE DEF Flags
  <1>5. ASSUME NEW k \in 1 .. n
        PROVE  /\ d[k] \in Decoded /\ d[k].header.seq = seq + k /\ Snap(d[k])
               /\ k = n => Ends(d[k])
               /\ \A s \in Sides, i \in Index :
                     Touches(d[k], s, i) => d[k].body.payload.qty = venue[s][i]
    <2> DEFINE l == em[k]
    <2>1. /\ l = [price |-> l.price, qty |-> l.qty, side |-> l.side]
          /\ l.price \in Index /\ l.qty \in Nat /\ l.side \in Sides
          /\ l.qty = venue[l.side][l.price]
      BY <1>2 DEF VenueLevels
    <2>2. d[k] = Delta(seq + k, Flags(k), [price |-> l.price, qty |-> l.qty, side |-> l.side], "New")
      BY <1>3, <2>1
    <2>3. seq + k \in Nat /\ "New" \in UpdateAction
      BY <1>2 DEF UpdateAction
    <2> HIDE DEF l
    <2>4. /\ d[k] \in Decoded /\ d[k].header.seq = seq + k /\ d[k].header.flags = Flags(k)
          /\ d[k].body.payload.qty = l.qty
          /\ \A s, i : Touches(d[k], s, i) <=> s = l.side /\ i = l.price
      BY <1>4, <2>1, <2>2, <2>3, DeltaFresh
    <2> QED BY <1>4, <2>1, <2>4 DEF Snap, Ends
  <1>6. Len(d) = n /\ d \in Seq(Decoded)
    <2>1. d \in [1 .. n -> Decoded]
      BY <1>3, <1>5
    <2> QED BY <1>2, <2>1, SeqDef, LenProperties
  <1> QED BY <1>2, <1>5, <1>6 DEF Fresh, d

-----------------------------------------------------------------------------
(* The inductive invariant *)

\* The events on their way to the engine.
Coming == Range(queue) \cup Range(out)

\* An event after number n is on its way that sets the level or clears it.
Covered(n, s, i) ==
    \E y \in Coming : y.header.seq > n /\ (Snap(y) \/ Touches(y, s, i))

Types ==
    /\ VenueTypes
    /\ up \in BOOLEAN
    /\ seq \in Nat /\ drop_count \in Nat
    /\ lastDrop \in Nat /\ lastSeq \in Nat /\ lastSnap \in Nat /\ gap \in Nat
    /\ sent \in Nat /\ visible \in Nat /\ received \in Nat
    /\ queue \in Seq(Decoded) /\ out \in Seq(Decoded)
    /\ state \in InstrumentState

\* Every event numbered is accounted for.
Counts ==
    /\ received <= visible /\ visible <= sent
    /\ Len(queue) = sent - received
    /\ received + Len(queue) + Len(out) + drop_count = seq

\* The events are processed, dropped and on their way in the order of their
\* numbers.
Order ==
    /\ lastSnap <= lastSeq /\ lastSeq <= seq /\ lastDrop <= seq /\ gap <= seq
    /\ Numbered(queue) /\ Numbered(out)
    /\ \A x \in Coming : lastSeq < x.header.seq /\ x.header.seq <= seq
    /\ \A x \in Range(queue), y \in Range(out) : x.header.seq < y.header.seq
    /\ \A y \in Range(out) : lastDrop < y.header.seq
    /\ ~up => gap = seq /\ out = <<>>

\* A snapshot event that does not end its batch is followed by the end of a
\* snapshot, or an event after it was dropped.
BatchesEnd ==
    \A x \in Coming : Snap(x) /\ ~Ends(x) =>
        \/ lastDrop > x.header.seq
        \/ \E y \in Coming : Snap(y) /\ Ends(y) /\ y.header.seq > x.header.seq

\* A snapshot that the engine has begun is complete, or its end is coming.
SnapshotClosing ==
    lastSnap > lastDrop =>
        \/ state.snapshot_received /\ ~state.in_snapshot
        \/ \E y \in Coming : Snap(y) /\ Ends(y)

\* A level on its way that the venue no longer has is overwritten later, or an
\* event after it was dropped.
ComingCurrent ==
    \A x \in Coming, s \in Sides, i \in Index :
        x.header.seq > gap /\ Touches(x, s, i) =>
            \/ x.body.payload.qty \in {0, venue[s][i]}
            \/ lastDrop > x.header.seq
            \/ Covered(x.header.seq, s, i)

\* So is a level of the engine's book, once a snapshot has repaired it.
BookCurrent ==
    Repaired => \A s \in Sides, i \in Index :
                    LotsAt(state.book, s, i) \in {0, venue[s][i]} \/ Covered(0, s, i)

Link ==
    Types /\ Counts /\ Order /\ BatchesEnd /\ SnapshotClosing /\ ComingCurrent /\ BookCurrent

\* A message is decoded.
LEMMA MessageStep ==
    ASSUME Link, out = <<>>, NEW v \in [Sides -> [Index -> Nat]], NEW events,
           Fresh(events, v), venue' = v, out' = events, seq' = seq + Len(events), up' = TRUE,
           \A s \in Sides, i \in Index :
               v[s][i] = venue[s][i] \/ \E k \in 1 .. Len(events) : Touches(events[k], s, i),
           UNCHANGED <<drop_count, lastDrop, gap, queue, ringVars, engineVars>>
    PROVE  Link'
  <1> DEFINE n == Len(events)
  <1>1. /\ events \in Seq(Decoded) /\ n \in Nat /\ DOMAIN events = 1 .. n /\ seq' = seq + n
        /\ \A k \in 1 .. n : events[k] \in Decoded /\ events[k] \in Range(events)
        /\ \A x \in Range(events) : \E k \in 1 .. n : x = events[k]
    BY LenProperties, ElementOfSeq DEF Fresh, Range
  <1>2. /\ UNCHANGED <<drop_count, lastDrop, gap, queue, state, lastSeq, lastSnap>>
        /\ UNCHANGED <<sent, visible, received>>
    BY DEF ringVars, engineVars
  <1>3. Range(out) = {} /\ Len(out) = 0
    BY EmptySeq DEF Range
  <1>4. /\ Coming = Range(queue) /\ Coming' = Range(queue) \cup Range(events)
    BY <1>2, <1>3 DEF Coming
  <1>5. \A x \in Range(queue) : x \in Decoded /\ x.header.seq \in Nat
    <2>1. \A x \in Range(queue) : x \in Decoded
      BY LenProperties, ElementOfSeq DEF Link, Types, Range
    <2> QED BY <2>1, DecodedFacts
  <1>6. \A k \in 1 .. n : /\ events[k].header.seq = seq + k
                          /\ Snap(events[k]) => Snap(events[n]) /\ Ends(events[n])
                          /\ \A s \in Sides, i \in Index :
                                Touches(events[k], s, i) => events[k].body.payload.qty = v[s][i]
    BY DEF Fresh
  <1> HIDE DEF n
  <1>7. Types'
    BY <1>1, <1>2 DEF Link, Types, VenueTypes
  <1>0. /\ seq \in Nat /\ lastSeq \in Nat /\ lastSnap \in Nat /\ lastDrop \in Nat
        /\ gap \in Nat /\ drop_count \in Nat
        /\ received \in Nat /\ visible \in Nat /\ sent \in Nat /\ Len(queue) \in Nat
    BY LenProperties DEF Link, Types
  <1>8. Counts'
    <2>1. Len(out') = n
      BY DEF n
    <2>2. /\ received <= visible /\ visible <= sent /\ Len(queue) = sent - received
          /\ received + Len(queue) + 0 + drop_count = seq
      BY <1>3 DEF Link, Counts
    <2> QED BY <1>0, <1>1, <1>2, <2>1, <2>2 DEF Counts
  <1>9. \A x \in Coming : lastSeq < x.header.seq /\ x.header.seq <= seq
    BY DEF Link, Order
  <1>10. Order'
    <2>1. Numbered(events)
      BY SMTT(30), <1>1, <1>6 DEF Numbered, n, Link, Types
    <2>2. \A y \in Range(events) :
              y.header.seq \in Nat /\ y.header.seq > seq /\ y.header.seq <= seq + n
      <3> SUFFICES ASSUME NEW y \in Range(events)
                   PROVE  /\ y.header.seq \in Nat /\ y.header.seq > seq
                          /\ y.header.seq <= seq + n
        OBVIOUS
      <3>1. PICK k \in 1 .. n : y = events[k]
        BY <1>1
      <3>2. y.header.seq = seq + k
        BY <1>6, <3>1
      <3> QED BY SMTT(30), <1>0, <1>1, <3>2
    <2>3. /\ lastSnap <= lastSeq /\ lastSeq <= seq /\ lastDrop <= seq /\ gap <= seq
          /\ Numbered(queue)
      BY DEF Link, Order
    <2>4. \A x \in Coming' : lastSeq < x.header.seq /\ x.header.seq <= seq + n
      <3>1. \A x \in Range(queue) : lastSeq < x.header.seq /\ x.header.seq <= seq + n
        BY <1>0, <1>1, <1>4, <1>5, <1>9
      <3>2. \A x \in Range(events) : lastSeq < x.header.seq
        BY <1>0, <2>2, <2>3
      <3> QED BY <1>4, <2>2, <3>1, <3>2
    <2>5. \A x \in Range(queue), y \in Range(events) : x.header.seq < y.header.seq
      <3> SUFFICES ASSUME NEW x \in Range(queue), NEW y \in Range(events)
                   PROVE  x.header.seq < y.header.seq
        OBVIOUS
      <3>1. x.header.seq \in Nat /\ x.header.seq <= seq
        BY <1>4, <1>5, <1>9
      <3> QED BY <1>0, <2>2, <3>1
    <2>6. \A y \in Range(events) : lastDrop < y.header.seq
      BY <1>0, <2>2, <2>3
    <2>7. /\ lastSnap' <= lastSeq' /\ lastSeq' <= seq' /\ lastDrop' <= seq' /\ gap' <= seq'
      BY <1>0, <1>1, <1>2, <2>3
    <2> QED BY <1>1, <1>2, <2>1, <2>3, <2>4, <2>5, <2>6, <2>7 DEF Order
  <1>11. BatchesEnd'
    <2> SUFFICES ASSUME NEW x \in Coming', Snap(x), ~Ends(x)
                 PROVE  \/ lastDrop > x.header.seq
                        \/ \E y \in Coming' : Snap(y) /\ Ends(y) /\ y.header.seq > x.header.seq
      BY <1>2 DEF BatchesEnd
    <2>1. CASE x \in Range(queue)
      BY <1>4, <2>1 DEF Link, BatchesEnd
    <2>2. CASE x \in Range(events)
      <3>1. PICK k \in 1 .. n : x = events[k]
        BY <1>1, <2>2
      <3>2. k # n /\ n \in 1 .. n /\ Snap(events[n]) /\ Ends(events[n])
        BY <1>1, <1>6, <3>1
      <3>3. events[n].header.seq > x.header.seq /\ events[n] \in Coming'
        BY <1>1, <1>4, <1>6, <3>1, <3>2 DEF Link, Types
      <3> QED BY <3>2, <3>3
    <2> QED BY <1>4, <2>1, <2>2
  <1>12. SnapshotClosing'
    BY <1>2, <1>4 DEF Link, SnapshotClosing
  <1>13. \A s \in Sides, i \in Index, m \in Nat : Covered(m, s, i) => Covered(m, s, i)'
    BY <1>4 DEF Covered
  <1>14. \A s \in Sides, i \in Index, m \in Nat :
             m <= seq /\ v[s][i] # venue[s][i] => Covered(m, s, i)'
    <2> SUFFICES ASSUME NEW s \in Sides, NEW i \in Index, NEW m \in Nat, m <= seq,
                        v[s][i] # venue[s][i]
                 PROVE  Covered(m, s, i)'
      OBVIOUS
    <2>1. PICK k \in 1 .. n : Touches(events[k], s, i)
      BY DEF n
    <2>2. events[k].header.seq > m /\ events[k] \in Coming'
      <3>1. events[k].header.seq = seq + k /\ events[k] \in Range(events)
        BY <1>1, <1>6
      <3>2. seq + k > m
        BY <1>0, <1>1
      <3> QED BY <1>4, <3>1, <3>2
    <2> QED BY <2>1, <2>2 DEF Covered
  <1>15. ComingCurrent'
    <2> SUFFICES ASSUME NEW x \in Coming', NEW s \in Sides, NEW i \in Index,
                        x.header.seq > gap, Touches(x, s, i)
                 PROVE  \/ x.body.payload.qty \in {0, v[s][i]}
                        \/ lastDrop > x.header.seq
                        \/ Covered(x.header.seq, s, i)'
      BY <1>2 DEF ComingCurrent, Covered
    <2>1. CASE x \in Range(queue)
      <3>1. x.header.seq \in Nat /\ x.header.seq <= seq
        BY <1>4, <1>5, <1>9, <2>1
      <3> QED BY <1>4, <1>13, <1>14, <2>1, <3>1 DEF Link, ComingCurrent
    <2>2. CASE x \in Range(events)
      BY <1>1, <1>6, <2>2
    <2> QED BY <1>4, <2>1, <2>2
  <1>16. BookCurrent'
    <2> SUFFICES ASSUME Repaired, NEW s \in Sides, NEW i \in Index
                 PROVE  LotsAt(state.book, s, i) \in {0, v[s][i]} \/ Covered(0, s, i)'
      BY <1>2 DEF BookCurrent, Repaired, Covered
    <2>1. 0 \in Nat /\ 0 <= seq
      BY DEF Link, Types
    <2> QED BY <1>13, <1>14, <2>1 DEF Link, BookCurrent
  <1> QED BY <1>7, <1>8, <1>10, <1>11, <1>12, <1>15, <1>16 DEF Link

\* The types of the events on their way.
LEMMA ComingFacts ==
    ASSUME Types
    PROVE  \A x \in Coming : x \in Decoded /\ x.header.seq \in Nat
  <1>1. \A x \in Coming : x \in Decoded
    BY LenProperties, ElementOfSeq DEF Types, Coming, Range
  <1> QED BY <1>1, DecodedFacts

\* The oldest event is pushed, or counted and dropped.
LEMMA PushStep ==
    ASSUME Link, PushOut
    PROVE  Link'
  <1> DEFINE h == Head(out)
  <1>1. /\ out # <<>> /\ out' = Tail(out)
        /\ UNCHANGED <<venue, up, seq, gap, state, lastSeq, lastSnap>>
        /\ UNCHANGED <<visible, received>>
    BY DEF PushOut, engineVars, Ring!Push, Ring!PushFull
  <1>2. /\ h \in Decoded /\ out' \in Seq(Decoded) /\ Numbered(out') /\ Len(out') = Len(out) - 1
        /\ Range(out) = {h} \cup Range(out')
        /\ \A x \in Range(out') : h.header.seq < x.header.seq
    BY <1>1, Popped DEF Link, Types, Order
  <1>3. /\ seq \in Nat /\ lastSeq \in Nat /\ lastSnap \in Nat /\ lastDrop \in Nat
        /\ gap \in Nat /\ drop_count \in Nat /\ h.header.seq \in Nat
        /\ received \in Nat /\ visible \in Nat /\ sent \in Nat
        /\ Len(queue) \in Nat /\ Len(out) \in Nat
    BY <1>2, LenProperties, DecodedFacts DEF Link, Types
  <1>4. \A x \in Coming : x \in Decoded /\ x.header.seq \in Nat
    BY ComingFacts DEF Link
  <1>5. /\ lastSnap <= lastSeq /\ lastSeq <= seq /\ lastDrop <= seq /\ gap <= seq
        /\ Numbered(queue)
        /\ \A x \in Coming : lastSeq < x.header.seq /\ x.header.seq <= seq
        /\ \A x \in Range(queue), y \in Range(out) : x.header.seq < y.header.seq
        /\ \A y \in Range(out) : lastDrop < y.header.seq
        /\ up
    BY <1>1 DEF Link, Order
  <1>6. /\ received <= visible /\ visible <= sent /\ Len(queue) = sent - received
        /\ received + Len(queue) + Len(out) + drop_count = seq
    BY DEF Link, Counts
  <1>7. h \in Coming /\ h \in Range(out) /\ Range(out') \subseteq Coming
    BY <1>2 DEF Coming
  <1> HIDE DEF h
  <1>8. CASE /\ sent' = sent + 1 /\ queue' = Append(queue, h)
             /\ UNCHANGED <<drop_count, lastDrop>>
    <2>1. /\ queue' \in Seq(Decoded) /\ Numbered(queue') /\ Len(queue') = Len(queue) + 1
          /\ Range(queue') = Range(queue) \cup {h}
      BY <1>2, <1>5, <1>7, <1>8, Pushed DEF Link, Types
    <2>2. Coming' = Coming
      BY <1>2, <2>1 DEF Coming
    <2>3. Types'
      BY <1>1, <1>2, <1>3, <1>8, <2>1 DEF Link, Types, VenueTypes
    <2>4. Counts'
      <3>1. received + (Len(queue) + 1) + (Len(out) - 1) + drop_count = seq
        BY <1>3, <1>6
      <3> QED BY <1>1, <1>2, <1>3, <1>6, <1>8, <2>1, <3>1 DEF Counts
    <2>5. Order'
      <3>1. \A x \in Range(queue'), y \in Range(out') : x.header.seq < y.header.seq
        BY <1>2, <1>5, <2>1
      <3> QED BY <1>1, <1>2, <1>5, <1>8, <2>1, <2>2, <3>1 DEF Order
    <2>6. BatchesEnd' /\ SnapshotClosing'
      BY <1>1, <1>8, <2>2 DEF Link, BatchesEnd, SnapshotClosing
    <2>7. ComingCurrent' /\ BookCurrent'
      BY <1>1, <1>8, <2>2 DEF Link, ComingCurrent, BookCurrent, Repaired, Covered
    <2> QED BY <2>3, <2>4, <2>5, <2>6, <2>7 DEF Link
  <1>9. CASE /\ sent' = sent /\ queue' = queue /\ drop_count' = drop_count + 1
             /\ lastDrop' = h.header.seq
    <2>1. Coming' = Range(queue) \cup Range(out') /\ Coming' \subseteq Coming
      BY <1>2, <1>9 DEF Coming
    <2>2. \A x \in Range(queue) : x.header.seq < lastDrop'
      BY <1>5, <1>7, <1>9
    <2>3. \A x \in Range(out') : x \in Range(out) /\ x.header.seq > lastDrop'
                                 /\ ~ (lastDrop > x.header.seq)
      BY <1>2, <1>3, <1>4, <1>5, <1>7, <1>9
    <2>4. \A y \in Coming, x \in Range(out') : y.header.seq > x.header.seq => y \in Coming'
      <3> SUFFICES ASSUME NEW y \in Coming, NEW x \in Range(out'), y.header.seq > x.header.seq
                   PROVE  y \in Coming'
        OBVIOUS
      <3>1. /\ x.header.seq \in Nat /\ y.header.seq \in Nat /\ x \in Range(out)
            /\ h.header.seq < x.header.seq
        BY <1>2, <1>4, <1>7, <2>3
      <3>2. y # h
        BY <1>3, <3>1
      <3> QED BY <1>2, <2>1, <3>2 DEF Coming
    <2>5. ~ (lastSnap' > lastDrop')
      <3>1. lastSeq < h.header.seq
        BY <1>5, <1>7
      <3> QED BY <1>1, <1>3, <1>5, <1>9, <3>1
    <2>6. Types'
      BY <1>1, <1>2, <1>3, <1>9 DEF Link, Types, VenueTypes
    <2>7. Counts'
      <3>1. received + Len(queue) + (Len(out) - 1) + (drop_count + 1) = seq
        BY <1>3, <1>6
      <3> QED BY <1>1, <1>2, <1>6, <1>9, <3>1 DEF Counts
    <2>8. Order'
      <3>1. \A x \in Range(queue'), y \in Range(out') : x.header.seq < y.header.seq
        BY <1>5, <1>9, <2>3
      <3>2. lastDrop' <= seq'
        BY <1>1, <1>5, <1>7, <1>9
      <3>3. \A y \in Range(out') : lastDrop' < y.header.seq
        BY <1>2, <1>9
      <3> QED BY <1>1, <1>2, <1>5, <1>9, <2>1, <3>1, <3>2, <3>3 DEF Order
    <2>9. BatchesEnd'
      <3> SUFFICES ASSUME NEW x \in Coming', Snap(x), ~Ends(x)
                   PROVE  \/ lastDrop' > x.header.seq
                          \/ \E y \in Coming' : Snap(y) /\ Ends(y) /\ y.header.seq > x.header.seq
        BY DEF BatchesEnd
      <3>1. CASE x \in Range(queue)
        BY <1>3, <1>4, <1>9, <2>1, <2>2, <3>1
      <3>2. CASE x \in Range(out')
        <4>1. PICK y \in Coming : Snap(y) /\ Ends(y) /\ y.header.seq > x.header.seq
          BY <2>1, <2>3, <3>2 DEF Link, BatchesEnd
        <4> QED BY <2>4, <3>2, <4>1
      <3> QED BY <2>1, <3>1, <3>2
    <2>10. SnapshotClosing' /\ BookCurrent'
      BY <2>5 DEF SnapshotClosing, BookCurrent, Repaired
    <2>11. ComingCurrent'
      <3> SUFFICES ASSUME NEW x \in Coming', NEW s \in Sides, NEW i \in Index,
                          x.header.seq > gap, Touches(x, s, i)
                   PROVE  \/ x.body.payload.qty \in {0, venue[s][i]}
                          \/ lastDrop' > x.header.seq
                          \/ Covered(x.header.seq, s, i)'
        BY <1>1 DEF ComingCurrent, Covered
      <3>1. CASE x \in Range(queue)
        BY <1>3, <1>4, <1>9, <2>1, <2>2, <3>1
      <3>2. CASE x \in Range(out')
        <4>1. x.body.payload.qty \in {0, venue[s][i]} \/ Covered(x.header.seq, s, i)
          BY <2>1, <2>3, <3>2 DEF Link, ComingCurrent
        <4> QED BY <2>4, <3>2, <4>1 DEF Covered
      <3> QED BY <2>1, <3>1, <3>2
    <2> QED BY <2>6, <2>7, <2>8, <2>9, <2>10, <2>11 DEF Link
  <1> QED BY <1>8, <1>9 DEF PushOut, Ring!Push, Ring!PushFull, h

\* The oldest event in the ring is processed.
LEMMA ReceiveStep ==
    ASSUME Link, Receive
    PROVE  Link'
  <1> DEFINE e == Head(queue)
  <1>1. /\ received + 1 <= visible /\ received' = received + 1
        /\ UNCHANGED <<sent, visible, venue, up, seq, out, drop_count, lastDrop, gap>>
        /\ queue' = Tail(queue) /\ state' = Handled(Inst, state, e).state
        /\ lastSeq' = e.header.seq
        /\ lastSnap' = IF Snap(e) THEN e.header.seq ELSE lastSnap
    BY DEF Receive, Ring!Pop, feedVars, Snap
  <1>2. /\ received \in Nat /\ visible \in Nat /\ sent \in Nat /\ drop_count \in Nat
        /\ seq \in Nat /\ lastSeq \in Nat /\ lastSnap \in Nat /\ lastDrop \in Nat /\ gap \in Nat
        /\ Len(queue) \in Nat /\ Len(out) \in Nat
    BY LenProperties DEF Link, Types
  <1>3. /\ received <= visible /\ visible <= sent /\ Len(queue) = sent - received
        /\ received + Len(queue) + Len(out) + drop_count = seq
    BY DEF Link, Counts
  <1>4. queue # <<>>
    BY <1>1, <1>2, <1>3, EmptySeq
  <1>5. /\ e \in Decoded /\ queue' \in Seq(Decoded) /\ Numbered(queue')
        /\ Len(queue') = Len(queue) - 1
        /\ Range(queue) = {e} \cup Range(queue')
        /\ \A x \in Range(queue') : e.header.seq < x.header.seq
    BY <1>1, <1>4, Popped DEF Link, Types, Order
  <1>6. e.header.seq \in Nat /\ \A x \in Coming : x \in Decoded /\ x.header.seq \in Nat
    BY <1>5, DecodedFacts, ComingFacts DEF Link
  <1>7. /\ lastSnap <= lastSeq /\ lastSeq <= seq /\ lastDrop <= seq /\ gap <= seq
        /\ \A x \in Coming : lastSeq < x.header.seq /\ x.header.seq <= seq
        /\ \A x \in Range(queue), y \in Range(out) : x.header.seq < y.header.seq
    BY DEF Link, Order
  <1>8. e \in Coming /\ e \in Range(queue) /\ Coming = {e} \cup Coming'
    BY <1>1, <1>5 DEF Coming
  <1>9. /\ state' \in InstrumentState
        /\ \A s \in Sides, i \in Index :
              LotsAt(state'.book, s, i) =
                  IF Touches(e, s, i) THEN e.body.payload.qty
                  ELSE IF Snap(e) THEN 0 ELSE LotsAt(state.book, s, i)
        /\ Snap(e) /\ Ends(e) => state'.snapshot_received /\ ~state'.in_snapshot
        /\ ~Snap(e) /\ state.snapshot_received /\ ~state.in_snapshot =>
              state'.snapshot_received /\ ~state'.in_snapshot
    BY <1>1, <1>5, Processed DEF Link, Types
  <1> HIDE DEF e
  <1>10. \A x \in Coming' : x \in Coming /\ e.header.seq < x.header.seq
    <2>1. \A x \in Range(out) : e.header.seq < x.header.seq
      BY <1>7, <1>8
    <2> QED BY <1>1, <1>5, <1>8, <2>1 DEF Coming
  <1>11. lastSeq < e.header.seq /\ e.header.seq <= seq
    BY <1>7, <1>8
  \* Nothing that is later than an event on its way is processed now.
  <1>12. \A x \in Coming, y \in Coming : y.header.seq > x.header.seq => y \in Coming'
    <2> SUFFICES ASSUME NEW x \in Coming, NEW y \in Coming, y.header.seq > x.header.seq, y = e
                 PROVE  FALSE
      BY <1>8
    <2>1. x = e \/ e.header.seq < x.header.seq
      BY <1>8, <1>10
    <2> QED BY <1>6, <2>1
  <1>13. Types'
    BY <1>1, <1>2, <1>5, <1>6, <1>9 DEF Link, Types, VenueTypes
  <1>14. Counts'
    <2>1. /\ Len(queue) - 1 = sent - (received + 1)
          /\ (received + 1) + (Len(queue) - 1) + Len(out) + drop_count = seq
      BY <1>2, <1>3
    <2> QED BY <1>1, <1>2, <1>3, <1>5, <2>1 DEF Counts
  <1>15. Order'
    <2>1. lastSnap' <= lastSeq' /\ lastSeq' <= seq'
      BY <1>1, <1>2, <1>6, <1>7, <1>11
    <2>2. \A x \in Coming' : lastSeq' < x.header.seq /\ x.header.seq <= seq'
      BY <1>1, <1>7, <1>10
    <2>3. \A x \in Range(queue'), y \in Range(out') : x.header.seq < y.header.seq
      BY <1>1, <1>5, <1>7
    <2> QED BY <1>1, <1>5, <2>1, <2>2, <2>3 DEF Link, Order
  <1>16. BatchesEnd'
    BY <1>1, <1>10, <1>12 DEF Link, BatchesEnd
  <1>17. SnapshotClosing'
    <2> SUFFICES ASSUME lastSnap' > lastDrop
                 PROVE  \/ state'.snapshot_received /\ ~state'.in_snapshot
                        \/ \E y \in Coming' : Snap(y) /\ Ends(y)
      BY <1>1 DEF SnapshotClosing
    <2>1. CASE Snap(e) /\ Ends(e)
      BY <1>9, <2>1
    <2>2. CASE Snap(e) /\ ~Ends(e)
      <3>1. ~ (lastDrop > e.header.seq)
        BY <1>1, <1>2, <1>6, <2>2
      <3> QED BY <1>8, <1>12, <2>2, <3>1 DEF Link, BatchesEnd
    <2>3. CASE ~Snap(e)
      <3>1. lastSnap > lastDrop
        BY <1>1, <2>3
      <3> QED BY <1>8, <1>9, <2>3, <3>1 DEF Link, SnapshotClosing
    <2> QED BY <2>1, <2>2, <2>3
  <1>18. \A x \in Coming, s \in Sides, i \in Index :
             Covered(x.header.seq, s, i) => Covered(x.header.seq, s, i)' /\ Covered(0, s, i)'
    <2> SUFFICES ASSUME NEW x \in Coming, NEW s \in Sides, NEW i \in Index, NEW y \in Coming,
                        y.header.seq > x.header.seq, Snap(y) \/ Touches(y, s, i)
                 PROVE  y \in Coming' /\ y.header.seq > 0
      BY DEF Covered
    <2> QED BY <1>6, <1>12
  <1>19. ComingCurrent'
    <2> SUFFICES ASSUME NEW x \in Coming', NEW s \in Sides, NEW i \in Index,
                        x.header.seq > gap, Touches(x, s, i)
                 PROVE  \/ x.body.payload.qty \in {0, venue[s][i]}
                        \/ lastDrop > x.header.seq
                        \/ Covered(x.header.seq, s, i)'
      BY <1>1 DEF ComingCurrent, Covered
    <2> QED BY <1>10, <1>18 DEF Link, ComingCurrent
  <1>20. BookCurrent'
    <2> SUFFICES ASSUME lastSnap' > gap, lastSnap' > lastDrop, NEW s \in Sides, NEW i \in Index
                 PROVE  LotsAt(state'.book, s, i) \in {0, venue[s][i]} \/ Covered(0, s, i)'
      BY <1>1 DEF BookCurrent, Repaired, Covered
    <2>1. CASE Touches(e, s, i)
      <3>1. e.header.seq > gap /\ ~ (lastDrop > e.header.seq)
        BY <1>1, <1>2, <1>6, <1>7, <1>11
      <3>2. e.body.payload.qty \in {0, venue[s][i]} \/ Covered(e.header.seq, s, i)
        BY <1>8, <2>1, <3>1 DEF Link, ComingCurrent
      <3> QED BY <1>8, <1>9, <1>18, <2>1, <3>2
    <2>2. CASE ~Touches(e, s, i) /\ Snap(e)
      BY <1>9, <2>2
    <2>3. CASE ~Touches(e, s, i) /\ ~Snap(e)
      <3>1. Repaired
        BY <1>1, <2>3 DEF Repaired
      <3>2. Covered(0, s, i) => Covered(0, s, i)'
        BY <1>8, <2>3 DEF Covered
      <3> QED BY <1>9, <2>3, <3>1, <3>2 DEF Link, BookCurrent
    <2> QED BY <2>1, <2>2, <2>3
  <1> QED BY <1>13, <1>14, <1>15, <1>16, <1>17, <1>19, <1>20 DEF Link

\* A change is missed: nothing on its way and nothing in the engine's book is
\* known to be current.
LEMMA MissedStep ==
    ASSUME Link, out = <<>>, venue' \in [Sides -> [Index -> Nat]], up' \in BOOLEAN, gap' = seq,
           UNCHANGED <<seq, out, drop_count, lastDrop, queue, ringVars, engineVars>>
    PROVE  Link'
  <1>1. /\ UNCHANGED <<seq, out, drop_count, lastDrop, queue, state, lastSeq, lastSnap>>
        /\ UNCHANGED <<sent, visible, received>>
    BY DEF ringVars, engineVars
  <1>2. Coming' = Coming
    BY <1>1 DEF Coming
  <1>3. /\ seq \in Nat /\ lastSnap \in Nat /\ lastSeq \in Nat /\ lastSnap <= lastSeq
        /\ lastSeq <= seq
        /\ \A x \in Coming : x.header.seq \in Nat /\ x.header.seq <= seq
    BY ComingFacts DEF Link, Types, Order
  <1>4. Types' /\ Counts'
    BY <1>1 DEF Link, Types, VenueTypes, Counts
  <1>5. Order'
    BY <1>1, <1>2, <1>3 DEF Link, Order
  <1>6. BatchesEnd' /\ SnapshotClosing'
    BY <1>1, <1>2 DEF Link, BatchesEnd, SnapshotClosing
  <1>7. ComingCurrent' /\ BookCurrent'
    BY <1>1, <1>2, <1>3 DEF ComingCurrent, BookCurrent, Repaired
  <1> QED BY <1>4, <1>5, <1>6, <1>7 DEF Link

\* Losing the link, and a change of the venue while it is down, preserve the
\* invariant.
LEMMA OfflineStep ==
    ASSUME Link, Disconnect \/ MissedChange
    PROVE  Link'
  <1>1. /\ UNCHANGED <<seq, out, drop_count, lastDrop, queue, ringVars, engineVars>>
        /\ up' \in BOOLEAN /\ gap' = seq /\ out = <<>>
        /\ venue' \in [Sides -> [Index -> Nat]]
    <2>1. CASE Disconnect
      BY <2>1 DEF Disconnect, Link, Types, VenueTypes
    <2>2. CASE MissedChange
      <3>1. PICK s \in Sides, i \in Index, q \in Lots : venue' = [venue EXCEPT ![s][i] = q]
        BY <2>2 DEF MissedChange
      <3>2. q \in Nat /\ venue \in [Sides -> [Index -> Nat]]
        BY MaxLotsAssumption DEF Lots, Link, Types, VenueTypes
      <3>3. venue' \in [Sides -> [Index -> Nat]]
        BY <3>1, <3>2
      <3>4. ~up /\ up' = up /\ gap' = gap
        BY <2>2 DEF MissedChange
      <3> QED BY <2>2, <3>3, <3>4 DEF MissedChange, Link, Types, Order
    <2> QED BY <2>1, <2>2
  <1> QED BY <1>1, MissedStep

\* The ring showing its indices to the other side preserves the invariant.
LEMMA PropagateStep ==
    ASSUME Link, RingPropagates
    PROVE  Link'
  <1>1. /\ visible' \in visible .. sent /\ sent' = sent /\ received' = received
        /\ UNCHANGED <<venue, up, seq, out, drop_count, lastDrop, gap, queue>>
        /\ UNCHANGED <<state, lastSeq, lastSnap>>
    BY DEF RingPropagates, Ring!Propagate, feedVars, engineVars
  <1>2. Coming' = Coming
    BY <1>1 DEF Coming
  <1>3. Types' /\ Counts'
    BY <1>1 DEF Link, Types, VenueTypes, Counts
  <1>4. Order' /\ BatchesEnd' /\ SnapshotClosing'
    BY <1>1, <1>2 DEF Link, Order, BatchesEnd, SnapshotClosing
  <1>5. ComingCurrent' /\ BookCurrent'
    BY <1>1, <1>2 DEF Link, ComingCurrent, BookCurrent, Repaired, Covered
  <1> QED BY <1>3, <1>4, <1>5 DEF Link

\* A book message, and a new connection, preserve the invariant.
LEMMA BookStep ==
    ASSUME Link, OnBook \/ Connect
    PROVE  Link'
  <1>1. VenueTypes /\ seq \in Nat /\ venue \in [Sides -> [Index -> Nat]]
    BY DEF Link, Types, VenueTypes
  <1>2. PICK levels \in BookMessages :
            /\ out' = DecodeBook(levels) /\ seq' = seq + Len(DecodeBook(levels))
            /\ out = <<>> /\ up' = TRUE /\ venue' = venue
            /\ UNCHANGED <<drop_count, lastDrop, gap, queue, ringVars, engineVars>>
    <2>1. CASE OnBook
      BY <2>1 DEF OnBook, Callback, Link, Types
    <2>2. CASE Connect
      BY <2>2 DEF Connect, Link, Order
    <2> QED BY <2>1, <2>2
  <1>3. Fresh(DecodeBook(levels), venue)
    BY <1>1, BookFresh
  <1> QED BY <1>1, <1>2, <1>3, MessageStep

\* A price change preserves the invariant.
LEMMA PriceChangeStep ==
    ASSUME Link, OnPriceChange
    PROVE  Link'
  <1>1. VenueTypes /\ seq \in Nat /\ venue \in [Sides -> [Index -> Nat]] /\ up \in BOOLEAN
    BY DEF Link, Types, VenueTypes
  <1>2. PICK s \in Sides, i \in Index, q \in Lots, readable \in Readings :
            /\ venue' = [venue EXCEPT ![s][i] = q]
            /\ gap' = IF readable THEN gap ELSE seq
            /\ Callback(DecodePriceChange([price |-> i, qty |-> q, side |-> s], readable))
    BY DEF OnPriceChange
  <1> DEFINE e == Delta(seq + 1, LAST_IN_BATCH, [price |-> i, qty |-> q, side |-> s], "Change")
             v == [venue EXCEPT ![s][i] = q]
  <1>3. q \in Nat /\ seq + 1 \in Nat /\ LAST_IN_BATCH \in EventFlags /\ "Change" \in UpdateAction
    BY <1>1, MaxLotsAssumption DEF Lots, EventFlags, UpdateAction
  <1>4. /\ e \in Decoded /\ e.header.seq = seq + 1 /\ e.header.flags = LAST_IN_BATCH
        /\ e.body.payload.qty = q
        /\ \A t, j : Touches(e, t, j) <=> t = s /\ j = i
    BY <1>3, DeltaFresh
  <1>5. /\ v \in [Sides -> [Index -> Nat]] /\ v[s][i] = q
        /\ \A t \in Sides, j \in Index : ~ (t = s /\ j = i) => v[t][j] = venue[t][j]
    BY <1>1, <1>3
  <1> DEFINE events == DecodePriceChange([price |-> i, qty |-> q, side |-> s], readable)
  <1>6. /\ out' = events /\ seq' = seq + Len(events) /\ out = <<>> /\ up' = TRUE /\ venue' = v
        /\ gap' = IF readable THEN gap ELSE seq
        /\ UNCHANGED <<drop_count, lastDrop, queue, ringVars, engineVars>>
        /\ events = IF readable THEN <<e>> ELSE <<>>
    BY <1>1, <1>2 DEF Callback, DecodePriceChange
  <1> HIDE DEF e, v, events
  <1>7. ~Snap(e)
    BY <1>4 DEF Snap, HasFlags, IS_SNAPSHOT, LAST_IN_BATCH
  <1>8. <<e>> \in Seq(Decoded) /\ Len(<<e>>) = 1 /\ <<e>>[1] = e
    BY <1>4
  <1>9. Fresh(<<e>>, v)
    BY <1>4, <1>5, <1>7, <1>8 DEF Fresh
  <1>10. \A t \in Sides, j \in Index :
             v[t][j] = venue[t][j] \/ \E k \in 1 .. Len(<<e>>) : Touches(<<e>>[k], t, j)
    BY <1>4, <1>5, <1>8
  <1>11. CASE readable
    BY <1>5, <1>6, <1>9, <1>10, <1>11, MessageStep
  <1>12. CASE ~readable
    <2>1. out' = <<>> /\ seq' = seq /\ gap' = seq
      BY <1>1, <1>6, <1>12, EmptySeq
    <2> QED BY <1>5, <1>6, <2>1, MissedStep
  <1> QED BY <1>11, <1>12

\* A trade preserves the invariant.
LEMMA TradeStep ==
    ASSUME Link, OnLastTrade
    PROVE  Link'
  <1> DEFINE p == [price |-> 0, qty |-> 1, aggressor |-> "Bid"]
             h == [seq |-> seq + 1, inst |-> Inst, flags |-> LAST_IN_BATCH]
             e == [header |-> h, body |-> [kind |-> "Trade", payload |-> p]]
  <1>1. VenueTypes /\ seq \in Nat /\ venue \in [Sides -> [Index -> Nat]] /\ up \in BOOLEAN
    BY DEF Link, Types, VenueTypes
  <1>2. PICK readable \in Readings : Callback(DecodeTrade(readable)) /\ UNCHANGED <<venue, gap>>
    BY DEF OnLastTrade
  <1> DEFINE events == DecodeTrade(readable)
  <1>0. events = IF readable THEN <<e>> ELSE <<>>
    BY DEF DecodeTrade, trade, HotEventOf, Header
  <1>3. p \in TradePayload
    BY DEF TradePayload, Sides
  <1>4. h \in EventHeader
    BY <1>1 DEF EventHeader, EventFlags, Inst
  <1>5. ~Snap(e) /\ EventKind(e) = "Trade" /\ e.header.seq = seq + 1
    BY DEF Snap, HasFlags, IS_SNAPSHOT, LAST_IN_BATCH, EventKind
  <1>6. e \in [header: EventHeader, body: Variant("Trade", TradePayload)]
    BY <1>3, <1>4 DEF Variant
  <1>7. e \in Decoded
    BY <1>5, <1>6 DEF Decoded
  <1> HIDE DEF e, events
  <1>8. <<e>> \in Seq(Decoded) /\ Len(<<e>>) = 1 /\ <<e>>[1] = e
    BY <1>7
  <1>9. Fresh(events, venue)
    <2>1. Fresh(<<e>>, venue)
      BY <1>5, <1>8 DEF Fresh, Touches
    <2>2. Fresh(<<>>, venue)
      BY EmptySeq DEF Fresh
    <2> QED BY <1>0, <2>1, <2>2
  <1>10. /\ out' = events /\ seq' = seq + Len(events) /\ out = <<>> /\ up' = TRUE
         /\ venue' = venue
         /\ UNCHANGED <<drop_count, lastDrop, gap, queue, ringVars, engineVars>>
    BY <1>1, <1>2 DEF Callback, events
  <1> QED BY <1>1, <1>9, <1>10, MessageStep

\* Every step of the pipeline preserves the invariant.
LEMMA LinkStep == Link /\ [Next]_vars => Link'
  <1> SUFFICES ASSUME Link, [Next]_vars PROVE Link'
    OBVIOUS
  <1>1. CASE UNCHANGED vars
    <2>1. /\ UNCHANGED <<venue, up, seq, out, drop_count, lastDrop, gap, queue>>
          /\ UNCHANGED <<state, lastSeq, lastSnap, sent, visible, received>>
      BY <1>1 DEF vars, feedVars, engineVars, ringVars
    <2>2. Coming' = Coming
      BY <2>1 DEF Coming
    <2>3. Types' /\ Counts' /\ Order' /\ BatchesEnd' /\ SnapshotClosing'
      BY <2>1, <2>2
         DEF Link, Types, VenueTypes, Counts, Order, BatchesEnd, SnapshotClosing
    <2>4. ComingCurrent' /\ BookCurrent'
      BY <2>1, <2>2 DEF Link, ComingCurrent, BookCurrent, Repaired, Covered
    <2> QED BY <2>3, <2>4 DEF Link
  <1>2. CASE Next
    BY <1>2, BookStep, PriceChangeStep, TradeStep, PushStep, OfflineStep, PropagateStep,
       ReceiveStep DEF Next
  <1> QED BY <1>1, <1>2

\* The pipeline starts with the invariant.
LEMMA FirstLink == Init => Link
  <1> SUFFICES ASSUME Init PROVE Link
    OBVIOUS
  <1>1. /\ venue = [s \in Sides |-> [i \in Index |-> 0]] /\ up = FALSE /\ seq = 0 /\ out = <<>>
        /\ drop_count = 0 /\ lastDrop = 0 /\ gap = 0 /\ queue = <<>>
        /\ state = EmptyInstrument /\ lastSeq = 0 /\ lastSnap = 0
        /\ sent = 0 /\ visible = 0 /\ received = 0
    BY DEF Init, Ring!Init
  <1>2. EmptyInstrument \in InstrumentState
    <2>1. EmptyBook \in Book
      BY DEF EmptyBook, EmptySide, Book, BookSide
    <2>2. NoBbo \in Bbo
      BY DEF NoBbo, Bbo
    <2> QED BY <2>1, <2>2 DEF EmptyInstrument, InstrumentState
  <1>3. <<>> \in Seq(Decoded) /\ Len(<<>>) = 0 /\ Range(<<>>) = {} /\ Numbered(<<>>)
    BY EmptySeq DEF Range, Numbered
  <1>4. Coming = {}
    BY <1>1, <1>3 DEF Coming
  <1>5. Types
    BY <1>1, <1>2, <1>3 DEF Types, VenueTypes
  <1>6. Counts /\ Order
    BY <1>1, <1>3, <1>4 DEF Counts, Order
  <1> QED BY <1>1, <1>4, <1>5, <1>6
          DEF Link, BatchesEnd, SnapshotClosing, ComingCurrent, BookCurrent, Repaired

\* The invariant implies the three properties.
LEMMA LinkSound == Link => NothingLostSilently /\ SnapshotEnds /\ NoPhantomLevels
  <1> SUFFICES ASSUME Link PROVE NothingLostSilently /\ SnapshotEnds /\ NoPhantomLevels
    OBVIOUS
  <1>1. NothingLostSilently
    <2> DEFINE all == queue \o out
               m == Len(queue)
               n == Len(out)
               coming == [k \in 1 .. Len(all) |-> all[k].header.seq]
    <2>1. /\ queue \in Seq(Decoded) /\ out \in Seq(Decoded) /\ m \in Nat /\ n \in Nat
          /\ DOMAIN queue = 1 .. m /\ DOMAIN out = 1 .. n
      BY LenProperties DEF Link, Types
    <2>2. /\ Len(all) = m + n
          /\ \A k \in 1 .. m + n : all[k] = IF k <= m THEN queue[k] ELSE out[k - m]
      BY <2>1, ConcatProperties
    <2>3. /\ \A k \in 1 .. m : queue[k] \in Range(queue) /\ queue[k] \in Coming
          /\ \A k \in 1 .. n : out[k] \in Range(out) /\ out[k] \in Coming
      BY <2>1 DEF Range, Coming
    <2>4. /\ \A x \in Coming : lastSeq < x.header.seq /\ x.header.seq <= seq
          /\ \A x \in Range(queue), y \in Range(out) : x.header.seq < y.header.seq
          /\ \A k, l \in 1 .. m : k < l => queue[k].header.seq < queue[l].header.seq
          /\ \A k, l \in 1 .. n : k < l => out[k].header.seq < out[l].header.seq
      BY DEF Link, Order, Numbered
    <2> HIDE DEF all, m, n
    <2>5. ASSUME NEW k \in 1 .. m + n
          PROVE  lastSeq < all[k].header.seq /\ all[k].header.seq <= seq
      <3>1. CASE k <= m
        BY <2>1, <2>2, <2>3, <2>4, <3>1
      <3>2. CASE ~ (k <= m)
        <4>1. k - m \in 1 .. n /\ all[k] = out[k - m]
          BY <2>1, <2>2, <3>2
        <4> QED BY <2>3, <2>4, <4>1
      <3> QED BY <3>1, <3>2
    <2>6. ASSUME NEW k \in 1 .. m + n, NEW l \in 1 .. m + n, k < l
          PROVE  all[k].header.seq < all[l].header.seq
      <3>1. CASE l <= m
        <4>1. k \in 1 .. m /\ l \in 1 .. m /\ all[k] = queue[k] /\ all[l] = queue[l]
          BY <2>1, <2>2, <2>6, <3>1
        <4> QED BY <2>4, <2>6, <4>1
      <3>2. CASE k <= m /\ ~ (l <= m)
        <4>1. k \in 1 .. m /\ l - m \in 1 .. n /\ all[k] = queue[k] /\ all[l] = out[l - m]
          BY <2>1, <2>2, <3>2
        <4> QED BY <2>3, <2>4, <4>1
      <3>3. CASE ~ (k <= m)
        <4>1. /\ k - m \in 1 .. n /\ l - m \in 1 .. n /\ k - m < l - m
              /\ all[k] = out[k - m] /\ all[l] = out[l - m]
          BY <2>1, <2>2, <2>6, <3>3
        <4> QED BY <2>4, <4>1
      <3> QED BY <2>1, <3>1, <3>2, <3>3
    <2>7. /\ DOMAIN coming = 1 .. m + n
          /\ \A k \in 1 .. m + n : coming[k] = all[k].header.seq
      BY <2>1, <2>2
    <2> HIDE DEF coming
    <2>8. \A k \in DOMAIN coming :
              /\ lastSeq < coming[k] /\ coming[k] <= seq
              /\ \A l \in DOMAIN coming : k < l => coming[k] < coming[l]
      BY <2>5, <2>6, <2>7
    <2> QED BY <2>8 DEF NothingLostSilently, Link, Counts, coming, all
  <1>2. Drained => Coming = {}
    BY EmptySeq DEF Drained, Coming, Range
  <1>3. SnapshotEnds
    BY <1>2 DEF SnapshotEnds, Repaired, Link, SnapshotClosing
  <1>4. NoPhantomLevels
    BY <1>2 DEF NoPhantomLevels, Link, BookCurrent, Covered
  <1> QED BY <1>1, <1>3, <1>4

\* Every event the decoder numbered is processed, on its way, or dropped and
\* counted, and they reach the engine in order: for every size of the ring and
\* every interleaving of the two threads.
THEOREM NoSilentLoss == Spec => []NothingLostSilently
  BY FirstLink, LinkStep, LinkSound, PTL DEF Spec

\* A snapshot of which an event got through after the last drop is completed
\* by the engine, for every number of levels, however many of them do not parse
\* or do not fit into the decoder's output.
THEOREM SnapshotsEnd == Spec => []SnapshotEnds
  BY FirstLink, LinkStep, LinkSound, PTL DEF Spec

\* After a snapshot event has got through, no level that the venue does not
\* have survives in the engine's book, whatever was dropped before it, missed
\* while the link was down or announced in a message that could not be read, as
\* long as no later change is missed.
THEOREM SnapshotRepairs == Spec => []NoPhantomLevels
  BY FirstLink, LinkStep, LinkSound, PTL DEF Spec

=============================================================================
