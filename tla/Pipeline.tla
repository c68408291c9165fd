------------------------------ MODULE Pipeline ------------------------------
(***************************************************************************)
(* The market data path of one Polymarket instrument:                      *)
(*                                                                         *)
(*   venue -> feed thread (decoder, callback) -> SPSC ring -> engine       *)
(*                                                                         *)
(* The decoder is crates/polymarket/src/market/decoder.rs, the callback    *)
(* that pushes its events spawn.rs, the ring the channel BoundedFifo that  *)
(* SpscRing implements, the engine MarketEngine; the TopOfBook slot of the *)
(* engine is MarketState's concern and left out here.                      *)
(*                                                                         *)
(* The venue and the socket are external: venue is the book as of the last *)
(* message read, messages arrive in order while the link is up, every      *)
(* subscription starts with a "book" message, and nothing arrives while    *)
(* the link is down.  A message may fail to decode: its JSON, its token,   *)
(* a price, a size or a side.  The decoder then emits nothing for it,      *)
(* leaves seq alone and counts nothing; in a "book" message it skips the   *)
(* level, here the level Junk.                                             *)
(***************************************************************************)
EXTENDS MarketEngine

CONSTANTS Capacity,  \* usable capacity of the ring
          OutLen,    \* length of the decoder's output array (64)
          Readings,  \* what decoding a message or a level may come to: TRUE or FALSE
          MaxSeq     \* bound: events decoded

ASSUME PipelineAssumption ==
    /\ Capacity \in Nat \ {0} /\ OutLen \in Nat \ {0} /\ MaxSeq \in Nat
    /\ Readings \subseteq BOOLEAN

VARIABLES
    venue,     \* the venue's book: per side and level its quantity
    up,        \* the socket is connected and subscribed
    seq,       \* decoder.seq
    out,       \* decoded events that the callback has not pushed yet
    drop_count,
    queue,     \* events in the ring, oldest first
    state,     \* the engine's InstrumentState
    lastDrop,  \* the last event dropped (history)
    lastSeq,   \* the last event the engine processed (history)
    lastSnap,  \* the last snapshot event it processed (history)
    gap,       \* seq when a change was last missed: the link was lost, or the
               \* decoder could not read it (history)
    sent, visible, received, freed, pushed, got   \* the ring, see BoundedFifo

Ring == INSTANCE BoundedFifo

ringVars == <<sent, visible, received, freed, pushed, got>>
engineVars == <<state, lastSeq, lastSnap>>
feedVars == <<venue, up, seq, out, drop_count, lastDrop, gap>>
vars == <<feedVars, queue, ringVars, engineVars>>

Inst == 1      \* the instrument of this feed

Init ==
    /\ Ring!Init
    /\ venue = [s \in Sides |-> [i \in Index |-> 0]]
    /\ up = FALSE /\ seq = 0 /\ out = <<>>
    /\ drop_count = 0 /\ lastDrop = 0 /\ gap = 0
    /\ queue = <<>>
    /\ state = EmptyInstrument /\ lastSeq = 0 /\ lastSnap = 0

-----------------------------------------------------------------------------
(* The decoder *)

Delta(k, flags, level, action) ==
    book_delta(k, Inst, flags, [price |-> level.price, qty |-> level.qty,
                                side |-> level.side, action |-> action])

Junk == [price |-> None, qty |-> 0, side |-> "Bid"]

Levels(side) == {[price |-> i, qty |-> venue[side][i], side |-> side] :
                    i \in {j \in Index : venue[side][j] > 0}}

\* The levels of one side in a "book" message: in some order, any of them in a
\* form that does not parse.
SideLevels(side) ==
    {[k \in DOMAIN levels |-> IF readable[k] THEN levels[k] ELSE Junk] :
        levels \in SetToSeqs(Levels(side)), readable \in [1 .. N -> Readings]}

\* A "book" message: bids, then asks.  One whose JSON or token fails has the
\* effect of one of which no level parses.
BookMessages == {bids \o asks : bids \in SideLevels("Bid"), asks \in SideLevels("Ask")}

Parses(level) == level # Junk

\* The body of the loop over the levels: it skips one that does not parse and
\* stops when out is full.
Keep(kept, level) ==
    IF Len(kept) < OutLen /\ Parses(level) THEN Append(kept, level) ELSE kept

\* The levels that become events; kept[k] is what the loop has after k levels.
Emitted(levels) ==
    LET kept[k \in 0 .. Len(levels)] ==
            IF k = 0 THEN <<>> ELSE Keep(kept[k - 1], levels[k])
    IN  kept[Len(levels)]

\* A slip in decode_book: LAST_IN_BATCH goes by the number of levels in the
\* message instead of the number of events.
DecodeBookRawCount(levels) ==
    LET emitted == Emitted(levels)
    IN  [k \in 1 .. Len(emitted) |->
            Delta(seq + k,
                  With(IS_SNAPSHOT, IF k = Len(levels) THEN LAST_IN_BATCH ELSE EMPTY),
                  emitted[k], "New")]

\* decode_book: every level carries IS_SNAPSHOT, the last event emitted
\* carries LAST_IN_BATCH as well.
DecodeBook(levels) ==
    LET emitted == Emitted(levels)
    IN  [k \in 1 .. Len(emitted) |->
            Delta(seq + k,
                  With(IS_SNAPSHOT, IF k = Len(emitted) THEN LAST_IN_BATCH ELSE EMPTY),
                  emitted[k], "New")]

\* decode_price_change: no event when the JSON, the token, the price, the size
\* or the side fails.
DecodePriceChange(level, readable) ==
    IF readable THEN <<Delta(seq + 1, LAST_IN_BATCH, level, "Change")>> ELSE <<>>

\* decode_trade; what the trade says is kept only in last_trade.
DecodeTrade(readable) ==
    IF readable
    THEN <<trade(seq + 1, Inst, LAST_IN_BATCH, [price |-> 0, qty |-> 1, aggressor |-> "Bid"])>>
    ELSE <<>>

-----------------------------------------------------------------------------
(* The feed thread.  It reads the next message only when the callback has  *)
(* pushed all events of the previous one.                                  *)

\* The callback decodes a message.
Callback(events) ==
    /\ up /\ out = <<>>
    /\ seq + Len(events) <= MaxSeq
    /\ out' = events
    /\ seq' = seq + Len(events)
    /\ UNCHANGED <<up, drop_count, lastDrop, queue, ringVars, engineVars>>

OnBook ==
    \E levels \in BookMessages : Callback(DecodeBook(levels)) /\ UNCHANGED <<venue, gap>>

\* The venue announces the new quantity of a level.  A message that cannot be
\* read changes nothing but the venue: the change is missed.
OnPriceChange ==
    \E s \in Sides, i \in Index, q \in Lots, readable \in Readings :
        /\ venue' = [venue EXCEPT ![s][i] = q]
        /\ gap' = IF readable THEN gap ELSE seq
        /\ Callback(DecodePriceChange([price |-> i, qty |-> q, side |-> s], readable))

OnLastTrade ==
    \E readable \in Readings : Callback(DecodeTrade(readable)) /\ UNCHANGED <<venue, gap>>

\* A slip in the callback: it gives up on the first event that does not fit.
PushOutStops ==
    /\ out # <<>>
    /\ \/ /\ Ring!Push(1)
          /\ queue' = Append(queue, Head(out))
          /\ out' = Tail(out)
          /\ UNCHANGED <<drop_count, lastDrop>>
       \/ /\ Ring!PushFull
          /\ drop_count' = drop_count + 1
          /\ lastDrop' = Head(out).header.seq
          /\ out' = <<>>
          /\ UNCHANGED queue
    /\ UNCHANGED <<venue, up, seq, gap, engineVars>>

\* The callback pushes the next event; one that does not fit is counted and
\* dropped.
PushOut ==
    /\ out # <<>>
    /\ out' = Tail(out)
    /\ \/ /\ Ring!Push(1)
          /\ queue' = Append(queue, Head(out))
          /\ UNCHANGED <<drop_count, lastDrop>>
       \/ /\ Ring!PushFull
          /\ drop_count' = drop_count + 1
          /\ lastDrop' = Head(out).header.seq
          /\ UNCHANGED queue
    /\ UNCHANGED <<venue, up, seq, gap, engineVars>>

\* The link is lost between two messages; changes go unseen until the feed
\* thread has connected and subscribed again, and the venue answers that
\* with its current book.
Disconnect ==
    /\ up /\ out = <<>>
    /\ up' = FALSE
    /\ gap' = seq
    /\ UNCHANGED <<venue, seq, out, drop_count, lastDrop, queue, ringVars, engineVars>>

MissedChange ==
    /\ ~up
    /\ \E s \in Sides, i \in Index, q \in Lots : venue' = [venue EXCEPT ![s][i] = q]
    /\ UNCHANGED <<up, seq, out, drop_count, lastDrop, gap, queue, ringVars, engineVars>>

Connect ==
    /\ ~up
    /\ up' = TRUE
    /\ \E levels \in BookMessages :
           /\ seq + Len(DecodeBook(levels)) <= MaxSeq
           /\ out' = DecodeBook(levels)
           /\ seq' = seq + Len(DecodeBook(levels))
    /\ UNCHANGED <<venue, drop_count, lastDrop, gap, queue, ringVars, engineVars>>

-----------------------------------------------------------------------------
(* The ring and the strategy thread *)

RingPropagates ==
    /\ Ring!Propagate
    /\ <<visible, freed>>' # <<visible, freed>>
    /\ UNCHANGED <<feedVars, queue, engineVars>>

\* The strategy thread pops an event and hands it to its engine.
Receive ==
    /\ Ring!Pop(1)
    /\ queue' = Tail(queue)
    /\ LET e == Head(queue)
       IN  /\ state' = Handled(Inst, state, e).state
           /\ lastSeq' = e.header.seq
           /\ lastSnap' = IF HasFlags(e.header.flags, IS_SNAPSHOT)
                          THEN e.header.seq ELSE lastSnap
    /\ UNCHANGED feedVars

Next ==
    \/ OnBook \/ OnPriceChange \/ OnLastTrade \/ PushOut
    \/ Disconnect \/ MissedChange \/ Connect
    \/ RingPropagates \/ Receive

Spec == Init /\ [][Next]_vars

-----------------------------------------------------------------------------
(* Properties *)

\* Every event the decoder numbered was processed, is on its way, or was
\* dropped and counted, and they reach the engine once and in the decoder's
\* order: a gap in SeqNum is always a counted drop.  (A message that cannot be
\* read has no number; that it was missed shows nowhere.)
NothingLostSilently ==
    LET coming == [k \in 1 .. Len(queue \o out) |-> (queue \o out)[k].header.seq]
    IN  /\ received + Len(queue) + Len(out) + drop_count = seq
        /\ Len(queue) = sent - received
        /\ \A k \in DOMAIN coming :
               /\ lastSeq < coming[k] /\ coming[k] <= seq
               /\ \A l \in DOMAIN coming : k < l => coming[k] < coming[l]

Drained == out = <<>> /\ queue = <<>>

\* The engine has processed a snapshot event, and since that event was decoded
\* no event was dropped and no change was missed, offline or unreadable.
Repaired == lastSnap > gap /\ lastSnap > lastDrop

\* However many levels did not parse or did not fit, a snapshot that was
\* delivered ends: the instrument becomes ready and leaves snapshot mode.
SnapshotEnds == Drained /\ Repaired => state.snapshot_received /\ ~state.in_snapshot

\* A snapshot repairs every earlier loss: once one of its events got through,
\* no level of the engine's book is left over from before, whichever events
\* were dropped, wherever in a batch, whatever was missed offline, and
\* whichever changes, removals included, could not be read.  A change missed
\* later is out of its reach: that level stays wrong up to the next snapshot.
NoPhantomLevels ==
    Drained /\ Repaired /\ up =>
        \A s \in Sides, i \in Index : LotsAt(state.book, s, i) \in {0, venue[s][i]}

\* After a snapshot that was read (Readings = {TRUE}) and delivered in full the
\* engine's book is the venue's book, as "IS_SNAPSHOT on first delta in batch: clear book" of
\* engine.rs and "full state replay" of flags.rs say.
SnapshotReplayed ==
    Drained /\ Repaired /\ up /\ drop_count = 0 =>
        \A s \in Sides, i \in Index : LotsAt(state.book, s, i) = venue[s][i]

=============================================================================
