--------------------------- MODULE BinanceDecoder ---------------------------
(***************************************************************************)
(* crates/binance: the bookTicker decoder (decoder.rs) and the callback    *)
(* that pushes what it decodes (spawn.rs), on the stream that              *)
(* crates/transport/src/binance/reference.rs asks for.                     *)
(*                                                                         *)
(* A symbol is a model value, and so is a name that is too long.  The JSON *)
(* of a frame is its fields; a number that does not parse or convert is    *)
(* Bad, another one is its raw value.  The i-th mapping maps its symbol to *)
(* instrument i, which has a tick and a lot of its own.  The venue and the *)
(* queue are external.                                                     *)
(***************************************************************************)
EXTENDS Events, Sequences, FiniteSetsExt

CONSTANTS MaxSymbols,   \* MAX_BINANCE_SYMBOLS
          SymbolNames,  \* symbols of at most MAX_SYMBOL_LEN bytes
          LongName,     \* a longer one
          TickSize,     \* metas[i].tick_size
          LotSize,      \* metas[i].lot_size
          Numbers,      \* the prices and sizes that a frame may hold
          Bad,          \* a number that parse_decimal_bytes refuses
          QueueCap,     \* bound: the queue that push fills
          MaxFrames     \* bound: frames received

\* Bid price and size are in b and B, ask price and size in a and A.
Fields == {"b", "a", "B", "A"}

\* InstrumentMeta::new refuses a tick or a lot of zero.
ASSUME BinanceAssumption ==
    /\ MaxSymbols \in Nat /\ QueueCap \in Nat /\ MaxFrames \in Nat
    /\ LongName \notin SymbolNames
    /\ TickSize \in [1 .. MaxSymbols -> Nat \ {0}] /\ LotSize \in [1 .. MaxSymbols -> Nat \ {0}]
    /\ Bad \notin Nat /\ Numbers \subseteq [Fields -> Nat \cup {Bad}]

VARIABLES
    mappings,         \* the decoder's symbols; <<>> until new succeeds
    combined_stream,
    seq,
    subscribed,       \* BinanceReferenceConfig::symbols; <<>> until spawned
    drop_count,
    pushed,           \* the queue: events, each with its frame (history)
    popped,           \* events taken from the queue
    good,             \* frames that say something of a mapped symbol so far (history)
    frames            \* event_count

PriceOf == [s \in Sides |-> IF s = "Bid" THEN "b" ELSE "a"]
SizeOf == [s \in Sides |-> IF s = "Bid" THEN "B" ELSE "A"]

binanceVars ==
    <<mappings, combined_stream, seq, subscribed, drop_count, pushed, popped, good, frames>>

BinanceInit ==
    /\ mappings = <<>> /\ combined_stream = FALSE /\ seq = 0
    /\ subscribed = <<>>
    /\ drop_count = 0 /\ pushed = <<>> /\ popped = 0 /\ good = 0 /\ frames = 0

-----------------------------------------------------------------------------
(* BinanceDecoder *)

\* DecoderError: EmptyMappings, TooManySymbols, SymbolTooLong
DecoderError(symbols) ==
    \/ symbols = <<>> \/ Len(symbols) > MaxSymbols
    \/ \E i \in DOMAIN symbols : symbols[i] = LongName

NewDecoder(symbols) ==
    /\ mappings = <<>> /\ ~DecoderError(symbols)
    /\ mappings' = symbols
    /\ combined_stream' = (Len(symbols) > 1)
    /\ UNCHANGED <<seq, subscribed, drop_count, pushed, popped, good, frames>>

\* find_symbol: the first mapping of the symbol.
FindSymbol(s) == {i \in DOMAIN mappings : mappings[i] = s}

\* price_to_ticks, qty_to_lots with the meta of the instrument
InTicks(idx, x) == x \div TickSize[idx]
InLots(idx, x) == x \div LotSize[idx]

\* decode yields no event, or the one that is pushed.
Decodes(f) ==
    /\ f.wrapped = combined_stream
    /\ FindSymbol(f.symbol) # {}
    /\ \A k \in Fields : f.number[k] # Bad

TopOfBook(f) ==
    LET idx == Min(FindSymbol(f.symbol))
    IN  top_of_book(seq + 1, idx, EMPTY,
                    [price |-> [s \in Sides |-> InTicks(idx, f.number[PriceOf[s]])],
                     qty   |-> [s \in Sides |-> InLots(idx, f.number[SizeOf[s]])]])

\* The transport callback of build_callback, which counts every frame.
OnFrame(f) ==
    /\ frames' = frames + 1
    /\ \/ ~Decodes(f) /\ UNCHANGED <<seq, pushed, drop_count>>
       \/ /\ Decodes(f) /\ Len(pushed) < QueueCap
          /\ seq' = seq + 1 /\ pushed' = Append(pushed, [event |-> TopOfBook(f), frame |-> f])
          /\ UNCHANGED drop_count
       \/ /\ Decodes(f) /\ Len(pushed) = QueueCap
          /\ seq' = seq + 1 /\ drop_count' = drop_count + 1
          /\ UNCHANGED pushed

-----------------------------------------------------------------------------
(* spawn_binance_feed *)

\* A slip in spawn_binance_feed: the decoder keeps the mode that new chose.
SpawnBinanceFeedUnsynced(symbols) ==
    /\ mappings # <<>> /\ subscribed = <<>> /\ symbols # <<>>
    /\ subscribed' = symbols
    /\ UNCHANGED <<mappings, combined_stream, seq, drop_count, pushed, popped, good, frames>>

\* An empty list of symbols is refused.
SpawnBinanceFeed(symbols) ==
    /\ mappings # <<>> /\ subscribed = <<>> /\ symbols # <<>>
    /\ subscribed' = symbols
    /\ combined_stream' = (Len(symbols) > 1)
    /\ UNCHANGED <<mappings, seq, drop_count, pushed, popped, good, frames>>

\* The venue sends a frame of a subscribed symbol, wrapped on the combined
\* stream, which book_ticker_url asks for unless there is one symbol.
VenueSends(symbol, number) ==
    /\ frames < MaxFrames /\ \E i \in DOMAIN subscribed : subscribed[i] = symbol
    /\ LET f == [wrapped |-> Len(subscribed) # 1, symbol |-> symbol, number |-> number]
       IN  /\ OnFrame(f)
           /\ good' = IF FindSymbol(symbol) # {} /\ \A k \in Fields : number[k] # Bad
                      THEN good + 1 ELSE good
    /\ UNCHANGED <<mappings, combined_stream, subscribed, popped>>

EnginePopsTob ==
    /\ pushed # <<>>
    /\ pushed' = Tail(pushed) /\ popped' = popped + 1
    /\ UNCHANGED <<mappings, combined_stream, seq, subscribed, drop_count, good, frames>>

SymbolLists(names, n) == UNION {[1 .. k -> names] : k \in 0 .. n}

BinanceNext ==
    \/ \E m \in SymbolLists(SymbolNames \cup {LongName}, MaxSymbols + 1) : NewDecoder(m)
    \/ \E m \in SymbolLists(SymbolNames, MaxSymbols) : SpawnBinanceFeed(m)
    \/ \E s \in SymbolNames, n \in Numbers : VenueSends(s, n)
    \/ EnginePopsTob

-----------------------------------------------------------------------------
(* Properties *)

\* Whatever the mappings and the symbols subscribed to, one or several, in
\* any order, with repetitions or unknown to the decoder: every readable frame
\* of a mapped symbol becomes an event, which is in the queue, was popped or is
\* counted in drop_count; the events left in the queue have rising numbers and
\* say what their own frame said, each side its own, of the instrument of its
\* symbol and in the ticks and lots of that instrument.
TobAccounted ==
    /\ seq = good /\ good = popped + Len(pushed) + drop_count
    /\ \A i \in DOMAIN pushed :
          LET e == pushed[i].event
              f == pushed[i].frame
          IN  /\ e.header.seq > IF i = 1 THEN popped ELSE pushed[i - 1].event.header.seq
              /\ mappings[e.header.inst] = f.symbol
              /\ e.body.payload.price["Bid"] = f.number["b"] \div TickSize[e.header.inst]
              /\ e.body.payload.qty["Bid"] = f.number["B"] \div LotSize[e.header.inst]
              /\ e.body.payload.price["Ask"] = f.number["a"] \div TickSize[e.header.inst]
              /\ e.body.payload.qty["Ask"] = f.number["A"] \div LotSize[e.header.inst]

=============================================================================
