------------------------------ MODULE Registry ------------------------------
(***************************************************************************)
(* crates/registry/src/lib.rs: InstrumentRegistry, the map from venue      *)
(* identifiers to stable instrument ids, through which every decoded       *)
(* message finds its instrument.  Polymarket tokens rotate: each           *)
(* instrument has a current and a next market window, and each window a    *)
(* token of its own.                                                       *)
(*                                                                         *)
(* A HashMap is a function whose value is NONE (or None) at a missing key. *)
(* A call that returns an error before it has changed anything is a        *)
(* stuttering step and is left out: the action's guard is the negation of  *)
(* the error's condition.                                                  *)
(***************************************************************************)
EXTENDS Integers

CONSTANTS Markets,     \* (base, timeframe) of prediction pairs
          References,  \* keys of all other instruments
          Symbols,     \* Binance symbols
          Tokens,      \* Polymarket token ids
          MaxId,       \* u32::MAX: the largest instrument id
          FreshTokens, \* callers never bind a token that another window holds
          None         \* Option::None

VARIABLES
    by_id,                  \* id -> InstrumentRecord
    by_key,                 \* InstrumentKey -> id
    by_binance_symbol,      \* symbol -> id
    by_polymarket_token_id, \* token -> id
    next_id

indexes == <<by_key, by_binance_symbol>>
vars == <<by_id, indexes, by_polymarket_token_id, next_id>>

NONE == 0                   \* InstrumentId::NONE
Ids == 1 .. MaxId

\* InstrumentKey: the two outcomes of a market, and the references.
Keys == (Markets \X {"Up", "Down"}) \cup References

ASSUME MaxIdAssumption == MaxId \in Nat \ {0}
ASSUME FreshAssumption == FreshTokens \in BOOLEAN
ASSUME NoneAssumption == None \notin Keys \cup Symbols \cup Tokens

\* InstrumentRecord with its bindings; key = None where no record exists.
Record ==
    [key: Keys \cup {None}, symbol: Symbols \cup {None}, polymarket: BOOLEAN,
     current: Tokens \cup {None}, next: Tokens \cup {None}]
NoRecord ==
    [key |-> None, symbol |-> None, polymarket |-> FALSE, current |-> None, next |-> None]
NewRecord(key, symbol, polymarket) ==
    [key |-> key, symbol |-> symbol, polymarket |-> polymarket, current |-> None, next |-> None]

Init ==
    /\ by_id = [i \in Ids |-> NoRecord]
    /\ by_key = [k \in Keys |-> NONE]
    /\ by_binance_symbol = [s \in Symbols |-> NONE]
    /\ by_polymarket_token_id = [t \in Tokens |-> NONE]
    /\ next_id = 1

-----------------------------------------------------------------------------
(* Registering instruments *)

\* Slips in alloc_id: after the last id the first one is given out again, or
\* the counter leaves the range of ids.
FollowingRecycles(id) == IF id = MaxId THEN 1 ELSE id + 1
FollowingOverflows(id) == id + 1

\* next_id.wrapping_add(1); 0 says that the ids are used up.
Following(id) == (id + 1) % (MaxId + 1)

Taken(symbol) == symbol # None /\ by_binance_symbol[symbol] # NONE

\* by_binance_symbol with a symbol, if there is one, bound to an id.
Bound(symbol, id) == [s \in Symbols |-> IF s = symbol THEN id ELSE by_binance_symbol[s]]

\* A slip in insert: a symbol that is taken is bound again.
InsertRebindsSymbol(key, symbol, polymarket) ==
    /\ by_key[key] = NONE /\ next_id # 0
    /\ next_id' = Following(next_id)
    /\ by_binance_symbol' = Bound(symbol, next_id)
    /\ by_key' = [by_key EXCEPT ![key] = next_id]
    /\ by_id' = [by_id EXCEPT ![next_id] = NewRecord(key, symbol, polymarket)]
    /\ UNCHANGED by_polymarket_token_id

\* insert: the id is allocated before the symbol is checked, so a duplicate
\* symbol costs an id.
Insert(key, symbol, polymarket) ==
    /\ by_key[key] = NONE /\ next_id # 0
    /\ next_id' = Following(next_id)
    /\ \/ /\ Taken(symbol)
          /\ UNCHANGED <<by_id, indexes>>
       \/ /\ ~Taken(symbol)
          /\ by_binance_symbol' = Bound(symbol, next_id)
          /\ by_key' = [by_key EXCEPT ![key] = next_id]
          /\ by_id' = [by_id EXCEPT ![next_id] = NewRecord(key, symbol, polymarket)]
    /\ UNCHANGED by_polymarket_token_id

\* insert_prediction_pair: both keys and the symbol are checked, then the two
\* instruments are inserted.  The second insert can still fail, for want of an
\* id; the first one then stays.
InsertPair(m, symbol) ==
    LET up   == next_id
        down == Following(next_id)
    IN  /\ up # 0
        /\ by_key[<<m, "Up">>] = NONE /\ by_key[<<m, "Down">>] = NONE /\ ~Taken(symbol)
        /\ by_binance_symbol' = Bound(symbol, up)
        /\ \/ /\ down = 0
              /\ next_id' = 0
              /\ by_key' = [by_key EXCEPT ![<<m, "Up">>] = up]
              /\ by_id' = [by_id EXCEPT ![up] = NewRecord(<<m, "Up">>, symbol, TRUE)]
           \/ /\ down # 0
              /\ next_id' = Following(down)
              /\ by_key' = [by_key EXCEPT ![<<m, "Up">>] = up, ![<<m, "Down">>] = down]
              /\ by_id' = [by_id EXCEPT ![up] = NewRecord(<<m, "Up">>, symbol, TRUE),
                                        ![down] = NewRecord(<<m, "Down">>, None, TRUE)]
        /\ UNCHANGED by_polymarket_token_id

-----------------------------------------------------------------------------
(* Rotating market windows *)

\* The reverse index without a token, if there is one.
Without(index, token) == [t \in Tokens |-> IF t = token THEN NONE ELSE index[t]]

\* No window other than this instrument's own slot holds the token.
Fresh(id, token, slot) ==
    /\ slot = "next" => by_id[id].current # token
    /\ slot = "current" => by_id[id].next # token
    /\ \A i \in Ids \ {id} : token \notin {by_id[i].current, by_id[i].next}

BindCurrent(id, token) ==
    /\ by_id[id].polymarket
    /\ FreshTokens => Fresh(id, token, "current")
    /\ by_polymarket_token_id' =
           [Without(by_polymarket_token_id, by_id[id].current) EXCEPT ![token] = id]
    /\ by_id' = [by_id EXCEPT ![id].current = token]
    /\ UNCHANGED <<indexes, next_id>>

BindNext(id, token) ==
    /\ by_id[id].polymarket
    /\ FreshTokens => Fresh(id, token, "next")
    /\ by_polymarket_token_id' =
           [Without(by_polymarket_token_id, by_id[id].next) EXCEPT ![token] = id]
    /\ by_id' = [by_id EXCEPT ![id].next = token]
    /\ UNCHANGED <<indexes, next_id>>

\* A slip in promote_polymarket_next: the expired token stays in the index.
PromoteKeepsOld(id) ==
    /\ by_id[id].polymarket /\ by_id[id].next # None
    /\ by_id' = [by_id EXCEPT ![id] = [@ EXCEPT !.current = by_id[id].next, !.next = None]]
    /\ UNCHANGED <<indexes, by_polymarket_token_id, next_id>>

Promote(id) ==
    /\ by_id[id].polymarket /\ by_id[id].next # None
    /\ by_polymarket_token_id' = Without(by_polymarket_token_id, by_id[id].current)
    /\ by_id' = [by_id EXCEPT ![id] = [@ EXCEPT !.current = by_id[id].next, !.next = None]]
    /\ UNCHANGED <<indexes, next_id>>

Unbind(id) ==
    /\ by_id[id].polymarket
    /\ by_polymarket_token_id' =
           Without(Without(by_polymarket_token_id, by_id[id].current), by_id[id].next)
    /\ by_id' = [by_id EXCEPT ![id] = [@ EXCEPT !.current = None, !.next = None]]
    /\ UNCHANGED <<indexes, next_id>>

Next ==
    \/ \E key \in Keys, symbol \in Symbols \cup {None}, polymarket \in BOOLEAN :
           Insert(key, symbol, polymarket)
    \/ \E m \in Markets, symbol \in Symbols \cup {None} : InsertPair(m, symbol)
    \/ \E id \in Ids, token \in Tokens : BindCurrent(id, token) \/ BindNext(id, token)
    \/ \E id \in Ids : Promote(id) \/ Unbind(id)

Spec == Init /\ [][Next]_vars

-----------------------------------------------------------------------------
(* Properties *)

TypeOK ==
    /\ by_id \in [Ids -> Record]
    /\ by_key \in [Keys -> Ids \cup {NONE}]
    /\ by_binance_symbol \in [Symbols -> Ids \cup {NONE}]
    /\ by_polymarket_token_id \in [Tokens -> Ids \cup {NONE}]
    /\ next_id \in Ids \cup {0}

\* The key and symbol indexes and the records agree in both directions: no
\* failed or repeated registration leaves an entry that leads to another
\* instrument or to none.
KeysExact ==
    \A i \in Ids :
        /\ \A k \in Keys : by_key[k] = i <=> by_id[i].key = k
        /\ \A s \in Symbols : by_binance_symbol[s] = i <=> by_id[i].symbol = s

\* by_polymarket_token_id resolves exactly the tokens of the windows bound
\* now, each to the instrument that holds it: after any rotation the decoder
\* neither drops the messages of a live window nor books those of an expired
\* one.
TokensExact ==
    \A i \in Ids, t \in Tokens :
        by_polymarket_token_id[t] = i <=> t \in {by_id[i].current, by_id[i].next}

\* "IDs are monotonic, never recycled": an instrument keeps its id, key and
\* symbol for ever, across rotations and when the ids run out.
StableIdentity ==
    [][\A i \in Ids : by_id[i].key # None =>
           /\ by_id'[i].key = by_id[i].key
           /\ by_id'[i].symbol = by_id[i].symbol]_vars

-----------------------------------------------------------------------------
(* The inductive invariant behind them *)

\* Ids from next_id on are unused; once next_id is 0, none is left to give out.
Unused == next_id # 0 => \A i \in Ids : i >= next_id => by_id[i] = NoRecord

\* The two windows of an instrument differ.
Windows == \A i \in Ids : by_id[i].current = by_id[i].next => by_id[i].current = None

IInv == TypeOK /\ KeysExact /\ TokensExact /\ Unused /\ Windows

=============================================================================
