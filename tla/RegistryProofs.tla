--------------------------- MODULE RegistryProofs ---------------------------
(***************************************************************************)
(* The registry's indexes are exact for any sets of instruments, symbols   *)
(* and tokens, and however many ids there are.                             *)
(*                                                                         *)
(* KeysExact is inductive together with the types and Unused: the id that  *)
(* insert takes belongs to no record yet.  TokensExact needs two more      *)
(* facts: a caller binds only tokens that no other window holds            *)
(* (FreshTokens), and the two windows of an instrument differ, without     *)
(* which promoting the next one would unlink the token it has just made    *)
(* current.                                                                *)
(***************************************************************************)
EXTENDS Registry, TLAPS

\* What registration relies on and preserves, whatever tokens are bound.
RInv == TypeOK /\ KeysExact /\ Unused

\* What the rotation of windows relies on and preserves.
TInv == TokensExact /\ Windows

\* The type of a new record, and what a record without a key looks like.
LEMMA Records ==
    /\ NoRecord \in Record /\ NoRecord.key = None /\ NoRecord.symbol = None
    /\ NoRecord.current = None /\ NoRecord.next = None
    /\ \A k \in Keys, s \in Symbols \cup {None}, p \in BOOLEAN :
           /\ NewRecord(k, s, p) \in Record
           /\ NewRecord(k, s, p).key = k /\ NewRecord(k, s, p).symbol = s
           /\ NewRecord(k, s, p).current = None /\ NewRecord(k, s, p).next = None
  BY DEF NoRecord, Record, NewRecord

\* alloc_id: the id after an id is one of the following ones, or 0.
LEMMA Allocation ==
    ASSUME NEW id \in Ids
    PROVE  /\ Following(id) \in Ids \cup {0}
           /\ Following(id) # 0 => Following(id) = id + 1
  BY MaxIdAssumption DEF Following, Ids

\* insert of one instrument under the id next_id keeps the indexes exact.
LEMMA InsertKeeps ==
    ASSUME RInv, NEW key \in Keys, NEW symbol \in Symbols \cup {None},
           NEW polymarket \in BOOLEAN, Insert(key, symbol, polymarket)
    PROVE  RInv'
<1> USE NoneAssumption
<1>a. next_id \in Ids /\ next_id # NONE
  BY MaxIdAssumption DEF RInv, TypeOK, Insert, Ids, NONE
<1>b. by_id[next_id] = NoRecord
  BY <1>a, MaxIdAssumption DEF RInv, Unused, Ids
<1>1. CASE Taken(symbol)
  <2>1. UNCHANGED <<by_id, by_key, by_binance_symbol, by_polymarket_token_id>>
    BY <1>1 DEF Insert, indexes
  <2>2. next_id' = Following(next_id)
    BY DEF Insert
  <2>3. TypeOK'
    BY <1>a, <2>1, <2>2, Allocation DEF RInv, TypeOK
  <2>4. Unused'
    BY <1>a, <2>1, <2>2, Allocation, MaxIdAssumption DEF RInv, Unused, Ids
  <2> QED
    BY <2>1, <2>3, <2>4 DEF RInv, KeysExact
<1>2. CASE ~Taken(symbol)
  <2>1. /\ next_id' = Following(next_id)
        /\ by_binance_symbol' = Bound(symbol, next_id)
        /\ by_key' = [by_key EXCEPT ![key] = next_id]
        /\ by_id' = [by_id EXCEPT ![next_id] = NewRecord(key, symbol, polymarket)]
        /\ by_key[key] = NONE
        /\ UNCHANGED by_polymarket_token_id
    BY <1>2 DEF Insert
  <2>2. TypeOK'
    BY <1>a, <2>1, Allocation, Records DEF RInv, TypeOK, Bound
  <2>3. Unused'
    BY <1>a, <2>1, Allocation, MaxIdAssumption DEF RInv, Unused, Ids, TypeOK
  <2>4. KeysExact'
    <3> SUFFICES ASSUME NEW i \in Ids
                 PROVE  /\ \A k \in Keys : by_key'[k] = i <=> by_id'[i].key = k
                        /\ \A s \in Symbols : by_binance_symbol'[s] = i <=> by_id'[i].symbol = s
      BY DEF KeysExact
    <3>1. ASSUME NEW k \in Keys PROVE by_key'[k] = i <=> by_id'[i].key = k
      BY <1>a, <1>b, <2>1, Records DEF RInv, KeysExact, TypeOK, NONE, Ids
    <3>2. ASSUME NEW s \in Symbols PROVE by_binance_symbol'[s] = i <=> by_id'[i].symbol = s
      BY <1>2, <1>a, <1>b, <2>1, Records DEF RInv, KeysExact, TypeOK, NONE, Ids, Bound, Taken
    <3> QED
      BY <3>1, <3>2
  <2> QED
    BY <2>2, <2>3, <2>4 DEF RInv
<1> QED
  BY <1>1, <1>2

\* insert_prediction_pair keeps them exact too, also when only its first half
\* succeeds.
LEMMA InsertPairKeeps ==
    ASSUME RInv, NEW m \in Markets, NEW symbol \in Symbols \cup {None}, InsertPair(m, symbol)
    PROVE  RInv'
<1> USE NoneAssumption
<1> DEFINE up == <<m, "Up">>
           down == <<m, "Down">>
           second == Following(next_id)
<1>0. up \in Keys /\ down \in Keys /\ up # down
  BY DEF Keys
<1> HIDE DEF up, down
<1>a. next_id \in Ids /\ next_id # NONE
  BY MaxIdAssumption DEF RInv, TypeOK, InsertPair, Ids, NONE
<1>b. by_id[next_id] = NoRecord
  BY <1>a, MaxIdAssumption DEF RInv, Unused, Ids
<1>c. /\ by_key[up] = NONE /\ by_key[down] = NONE /\ ~Taken(symbol)
      /\ by_binance_symbol' = Bound(symbol, next_id)
      /\ UNCHANGED by_polymarket_token_id
  BY DEF InsertPair, up, down
<1>d. ASSUME NEW i \in Ids, NEW s \in Symbols, by_id'[i].symbol =
                 IF i = next_id THEN symbol ELSE by_id[i].symbol
      PROVE  by_binance_symbol'[s] = i <=> by_id'[i].symbol = s
  BY <1>a, <1>b, <1>c, <1>d, Records DEF RInv, KeysExact, TypeOK, NONE, Ids, Bound, Taken
<1>1. CASE second = 0
  <2>1. /\ next_id' = 0
        /\ by_key' = [by_key EXCEPT ![up] = next_id]
        /\ by_id' = [by_id EXCEPT ![next_id] = NewRecord(up, symbol, TRUE)]
    BY <1>1 DEF InsertPair, up
  <2>2. TypeOK'
    BY <1>0, <1>a, <1>c, <2>1, Records DEF RInv, TypeOK, Bound
  <2>3. Unused'
    BY <2>1 DEF Unused
  <2>a. \A k \in Keys : by_key'[k] = IF k = up THEN next_id ELSE by_key[k]
    BY <1>0, <2>1 DEF RInv, TypeOK
  <2>b. \A i \in Ids : by_id'[i].key = IF i = next_id THEN up ELSE by_id[i].key
    BY <1>0, <1>a, <2>1, Records DEF RInv, TypeOK
  <2>4. ASSUME NEW i \in Ids, NEW k \in Keys PROVE by_key'[k] = i <=> by_id'[i].key = k
    BY <1>0, <1>a, <1>b, <1>c, <2>a, <2>b, Records DEF RInv, KeysExact, NONE, Ids
  <2>5. ASSUME NEW i \in Ids
        PROVE  by_id'[i].symbol = IF i = next_id THEN symbol ELSE by_id[i].symbol
    BY ZenonT(30), <1>0, <1>a, <2>1, Records DEF RInv, TypeOK
  <2>6. KeysExact'
    BY <1>d, <2>4, <2>5 DEF KeysExact
  <2> QED
    BY <2>2, <2>3, <2>6 DEF RInv
<1>2. CASE second # 0
  <2>1. /\ next_id' = Following(second)
        /\ by_key' = [by_key EXCEPT ![up] = next_id, ![down] = second]
        /\ by_id' = [by_id EXCEPT ![next_id] = NewRecord(up, symbol, TRUE),
                                  ![second] = NewRecord(down, None, TRUE)]
    BY <1>2 DEF InsertPair, up, down
  <2>2. /\ second \in Ids /\ second = next_id + 1 /\ second # next_id
        /\ by_id[second] = NoRecord
    BY <1>a, <1>2, Allocation, MaxIdAssumption DEF RInv, Unused, Ids
  <2> HIDE DEF second
  <2>a. \A k \in Keys : by_key'[k] = IF k = up THEN next_id
                                    ELSE IF k = down THEN second ELSE by_key[k]
    BY <1>0, <2>1 DEF RInv, TypeOK
  <2>b. \A i \in Ids : by_id'[i] = IF i = next_id THEN NewRecord(up, symbol, TRUE)
                                  ELSE IF i = second THEN NewRecord(down, None, TRUE)
                                  ELSE by_id[i]
    BY <1>a, <2>1, <2>2 DEF RInv, TypeOK
  <2>c. /\ next_id' \in Ids \cup {0}
        /\ next_id' # 0 => next_id' = next_id + 2
    BY <1>a, <2>1, <2>2, Allocation DEF Ids
  <2>3. TypeOK'
    <3>1. by_id' \in [Ids -> Record]
      BY <1>0, <1>a, <2>1, <2>2, Records DEF RInv, TypeOK
    <3>2. by_key' \in [Keys -> Ids \cup {NONE}]
      BY <1>0, <1>a, <2>1, <2>2 DEF RInv, TypeOK
    <3>3. by_binance_symbol' \in [Symbols -> Ids \cup {NONE}]
      BY <1>a, <1>c DEF RInv, TypeOK, Bound
    <3> QED
      BY <1>c, <2>c, <3>1, <3>2, <3>3 DEF RInv, TypeOK
  <2>4. Unused'
    <3> SUFFICES ASSUME next_id' # 0, NEW i \in Ids, i >= next_id'
                 PROVE  by_id'[i] = NoRecord
      BY DEF Unused
    <3>1. i >= next_id /\ i # next_id /\ i # second
      BY <1>a, <2>2, <2>c DEF Ids
    <3> QED
      BY <1>a, <2>b, <3>1 DEF RInv, Unused, NONE
  <2>d. \A i \in Ids : by_id'[i].key = IF i = next_id THEN up
                                      ELSE IF i = second THEN down ELSE by_id[i].key
    BY <2>b DEF NewRecord
  <2>e. \A k \in Keys : by_id[next_id].key # k /\ by_id[second].key # k
    BY <1>b, <2>2, Records
  <2>5. ASSUME NEW i \in Ids, NEW k \in Keys PROVE by_key'[k] = i <=> by_id'[i].key = k
    BY <1>0, <1>a, <1>b, <1>c, <2>a, <2>d, <2>e, <2>2 DEF RInv, KeysExact, NONE, Ids
  <2>6. ASSUME NEW i \in Ids
        PROVE  by_id'[i].symbol = IF i = next_id THEN symbol ELSE by_id[i].symbol
    BY <2>b, <2>2 DEF NewRecord, NoRecord
  <2>7. KeysExact'
    BY <1>d, <2>5, <2>6 DEF KeysExact
  <2> QED
    BY <2>3, <2>4, <2>7 DEF RInv
<1> QED
  BY <1>1, <1>2

\* A step that gives the instrument id the windows c and n, and changes the
\* token index.
Rebinds(id, c, n) ==
    /\ by_id[id].polymarket
    /\ by_id' = [by_id EXCEPT ![id] = [@ EXCEPT !.current = c, !.next = n]]
    /\ by_polymarket_token_id' \in [Tokens -> Ids \cup {NONE}]
    /\ UNCHANGED <<by_key, by_binance_symbol, next_id>>

\* Such a step keeps registration intact and changes nothing else.
LEMMA WindowStep ==
    ASSUME RInv, NEW id \in Ids, NEW c \in Tokens \cup {None}, NEW n \in Tokens \cup {None},
           Rebinds(id, c, n)
    PROVE  /\ RInv'
           /\ \A i \in Ids : /\ by_id'[i].key = by_id[i].key
                             /\ by_id'[i].symbol = by_id[i].symbol
                             /\ by_id'[i].current = IF i = id THEN c ELSE by_id[i].current
                             /\ by_id'[i].next = IF i = id THEN n ELSE by_id[i].next
<1>1. \A i \in Ids : by_id'[i] = IF i = id THEN [by_id[id] EXCEPT !.current = c, !.next = n]
                                 ELSE by_id[i]
  BY DEF RInv, TypeOK, Rebinds
<1>2. by_id[id] \in Record
  BY DEF RInv, TypeOK
<1>3. [by_id[id] EXCEPT !.current = c, !.next = n] \in Record
  BY <1>2 DEF Record
<1>4. TypeOK'
  BY <1>3 DEF RInv, TypeOK, Rebinds
<1>5. \A i \in Ids : /\ by_id'[i].key = by_id[i].key
                     /\ by_id'[i].symbol = by_id[i].symbol
                     /\ by_id'[i].current = IF i = id THEN c ELSE by_id[i].current
                     /\ by_id'[i].next = IF i = id THEN n ELSE by_id[i].next
  <2> DEFINE r == [by_id[id] EXCEPT !.current = c, !.next = n]
  <2>1. /\ r.key = by_id[id].key /\ r.symbol = by_id[id].symbol
        /\ r.current = c /\ r.next = n
    BY <1>2 DEF Record
  <2>2. \A i \in Ids : by_id'[i] = IF i = id THEN r ELSE by_id[i]
    BY <1>1
  <2> HIDE DEF r
  <2> QED
    BY <2>1, <2>2
<1>6. by_id[id] # NoRecord
  <2>1. NoRecord.polymarket = FALSE
    BY DEF NoRecord
  <2> QED
    BY <2>1 DEF Rebinds
<1>7. Unused'
  BY <1>1, <1>6 DEF RInv, Unused, Rebinds
<1>8. KeysExact'
  BY <1>5 DEF RInv, KeysExact, Rebinds
<1> QED
  BY <1>4, <1>5, <1>7, <1>8 DEF RInv

\* The four operations that rotate windows, as such steps.
LEMMA Rotations ==
    ASSUME RInv, NEW id \in Ids
    PROVE  /\ \A token \in Tokens : BindCurrent(id, token) =>
                 /\ by_id' = [by_id EXCEPT ![id] = [@ EXCEPT !.current = token, !.next = by_id[id].next]]
                 /\ by_polymarket_token_id' = [t \in Tokens |->
                        IF t = token THEN id ELSE IF t = by_id[id].current THEN NONE
                        ELSE by_polymarket_token_id[t]]
           /\ \A token \in Tokens : BindNext(id, token) =>
                 /\ by_id' = [by_id EXCEPT ![id] = [@ EXCEPT !.current = by_id[id].current, !.next = token]]
                 /\ by_polymarket_token_id' = [t \in Tokens |->
                        IF t = token THEN id ELSE IF t = by_id[id].next THEN NONE
                        ELSE by_polymarket_token_id[t]]
           /\ Promote(id) => by_polymarket_token_id' = [t \in Tokens |->
                        IF t = by_id[id].current THEN NONE ELSE by_polymarket_token_id[t]]
           /\ Unbind(id) => by_polymarket_token_id' = [t \in Tokens |->
                        IF t \in {by_id[id].current, by_id[id].next} THEN NONE
                        ELSE by_polymarket_token_id[t]]
<1>1. by_id[id] \in Record /\ by_id \in [Ids -> Record]
  BY DEF RInv, TypeOK
<1>2. ASSUME NEW token \in Tokens, BindCurrent(id, token)
      PROVE  by_id' = [by_id EXCEPT ![id] = [@ EXCEPT !.current = token, !.next = by_id[id].next]]
  <2>1. [by_id[id] EXCEPT !.current = token] =
        [by_id[id] EXCEPT !.current = token, !.next = by_id[id].next]
    BY <1>1 DEF Record
  <2> QED
    BY <1>2, <2>1 DEF BindCurrent
<1>3. ASSUME NEW token \in Tokens, BindNext(id, token)
      PROVE  by_id' = [by_id EXCEPT ![id] = [@ EXCEPT !.current = by_id[id].current, !.next = token]]
  <2>1. [by_id[id] EXCEPT !.next = token] =
        [by_id[id] EXCEPT !.current = by_id[id].current, !.next = token]
    BY <1>1 DEF Record
  <2> QED
    BY <1>3, <2>1 DEF BindNext
<1>4. ASSUME NEW token \in Tokens, NEW old
      PROVE  [Without(by_polymarket_token_id, old) EXCEPT ![token] = id] =
             [t \in Tokens |-> IF t = token THEN id ELSE IF t = old THEN NONE
                               ELSE by_polymarket_token_id[t]]
  BY DEF Without
<1>5. Promote(id) => by_polymarket_token_id' = [t \in Tokens |->
                        IF t = by_id[id].current THEN NONE ELSE by_polymarket_token_id[t]]
  BY DEF Promote, Without
<1>6. Unbind(id) => by_polymarket_token_id' = [t \in Tokens |->
                        IF t \in {by_id[id].current, by_id[id].next} THEN NONE
                        ELSE by_polymarket_token_id[t]]
  BY DEF Unbind, Without
<1>7. ASSUME NEW token \in Tokens, BindCurrent(id, token)
      PROVE  by_polymarket_token_id' = [t \in Tokens |->
                 IF t = token THEN id ELSE IF t = by_id[id].current THEN NONE
                 ELSE by_polymarket_token_id[t]]
  BY <1>4, <1>7, Zenon DEF BindCurrent
<1>8. ASSUME NEW token \in Tokens, BindNext(id, token)
      PROVE  by_polymarket_token_id' = [t \in Tokens |->
                 IF t = token THEN id ELSE IF t = by_id[id].next THEN NONE
                 ELSE by_polymarket_token_id[t]]
  BY <1>4, <1>8, Zenon DEF BindNext
<1> QED
  BY <1>2, <1>3, <1>5, <1>6, <1>7, <1>8, Zenon

\* Rotating the windows of an instrument keeps its identity, and keeps the
\* token index exact if callers bind fresh tokens only.
LEMMA RotationKeeps ==
    ASSUME RInv, NEW id \in Ids, NEW token,
           \/ token \in Tokens /\ (BindCurrent(id, token) \/ BindNext(id, token))
           \/ Promote(id) \/ Unbind(id)
    PROVE  /\ RInv'
           /\ \A i \in Ids : by_id'[i].key = by_id[i].key /\ by_id'[i].symbol = by_id[i].symbol
           /\ FreshTokens /\ TInv => TInv'
<1> USE NoneAssumption
<1> DEFINE cur == by_id[id].current
           nxt == by_id[id].next
           index == by_polymarket_token_id
           Holds(i, t) == t \in {by_id[i].current, by_id[i].next}
<1>a. /\ id # NONE /\ cur \in Tokens \cup {None} /\ nxt \in Tokens \cup {None}
      /\ index \in [Tokens -> Ids \cup {NONE}]
  BY DEF RInv, TypeOK, Record, Ids, NONE
<1>b. UNCHANGED <<by_key, by_binance_symbol, next_id>> /\ by_id[id].polymarket
  BY DEF BindCurrent, BindNext, Promote, Unbind, indexes
<1>c. ASSUME NEW i \in Ids, TInv
      PROVE  /\ \A t \in Tokens : index[t] = i <=> Holds(i, t)
             /\ by_id[i].current = by_id[i].next => by_id[i].current = None
  BY <1>c DEF TInv, TokensExact, Windows
<1>1. CASE token \in Tokens /\ BindCurrent(id, token)
  <2>1. /\ by_id' = [by_id EXCEPT ![id] = [@ EXCEPT !.current = token, !.next = nxt]]
        /\ index' = [t \in Tokens |-> IF t = token THEN id ELSE IF t = cur THEN NONE ELSE index[t]]
    BY <1>1, Rotations, Zenon
  <2>2. index' \in [Tokens -> Ids \cup {NONE}]
    BY <1>1, <1>a, <2>1
  <2>3. /\ RInv'
        /\ \A i \in Ids : /\ by_id'[i].key = by_id[i].key
                          /\ by_id'[i].symbol = by_id[i].symbol
                          /\ by_id'[i].current = IF i = id THEN token ELSE by_id[i].current
                          /\ by_id'[i].next = IF i = id THEN nxt ELSE by_id[i].next
    <3>1. Rebinds(id, token, nxt)
      BY <1>b, <2>1, <2>2, Zenon DEF Rebinds
    <3> QED
      BY <1>1, <1>a, <3>1, WindowStep
  <2>4. ASSUME FreshTokens, TInv PROVE TInv'
    <3>1. Fresh(id, token, "current")
      BY <1>1, <2>4 DEF BindCurrent
    <3>2. nxt # token /\ \A i \in Ids \ {id} : ~Holds(i, token)
      BY <3>1 DEF Fresh
    <3>3. TokensExact'
      <4> SUFFICES ASSUME NEW i \in Ids, NEW t \in Tokens
                   PROVE  index'[t] = i <=> t \in {by_id'[i].current, by_id'[i].next}
        BY DEF TokensExact
      <4> QED
        BY <1>1, <1>a, <1>c, <2>1, <2>3, <2>4, <3>2 DEF Ids, NONE
    <3>4. Windows'
      BY <1>1, <1>c, <2>3, <2>4, <3>2 DEF Windows
    <3> QED
      BY <3>3, <3>4 DEF TInv
  <2> QED
    BY <2>3, <2>4
<1>2. CASE token \in Tokens /\ BindNext(id, token)
  <2>1. /\ by_id' = [by_id EXCEPT ![id] = [@ EXCEPT !.current = cur, !.next = token]]
        /\ index' = [t \in Tokens |-> IF t = token THEN id ELSE IF t = nxt THEN NONE ELSE index[t]]
    BY <1>2, Rotations, Zenon
  <2>2. index' \in [Tokens -> Ids \cup {NONE}]
    BY <1>2, <1>a, <2>1
  <2>3. /\ RInv'
        /\ \A i \in Ids : /\ by_id'[i].key = by_id[i].key
                          /\ by_id'[i].symbol = by_id[i].symbol
                          /\ by_id'[i].current = IF i = id THEN cur ELSE by_id[i].current
                          /\ by_id'[i].next = IF i = id THEN token ELSE by_id[i].next
    <3>1. Rebinds(id, cur, token)
      BY <1>b, <2>1, <2>2, Zenon DEF Rebinds
    <3> QED
      BY <1>2, <1>a, <3>1, WindowStep
  <2>4. ASSUME FreshTokens, TInv PROVE TInv'
    <3>1. Fresh(id, token, "next")
      BY <1>2, <2>4 DEF BindNext
    <3>2. cur # token /\ \A i \in Ids \ {id} : ~Holds(i, token)
      BY <3>1 DEF Fresh
    <3>3. TokensExact'
      <4> SUFFICES ASSUME NEW i \in Ids, NEW t \in Tokens
                   PROVE  index'[t] = i <=> t \in {by_id'[i].current, by_id'[i].next}
        BY DEF TokensExact
      <4> QED
        BY <1>2, <1>a, <1>c, <2>1, <2>3, <2>4, <3>2 DEF Ids, NONE
    <3>4. Windows'
      BY <1>2, <1>c, <2>3, <2>4, <3>2 DEF Windows
    <3> QED
      BY <3>3, <3>4 DEF TInv
  <2> QED
    BY <2>3, <2>4
<1>3. CASE Promote(id)
  <2>1. /\ by_id' = [by_id EXCEPT ![id] = [@ EXCEPT !.current = nxt, !.next = None]]
        /\ index' = [t \in Tokens |-> IF t = cur THEN NONE ELSE index[t]]
        /\ nxt # None
    BY <1>3, Rotations DEF Promote
  <2>2. index' \in [Tokens -> Ids \cup {NONE}]
    BY <1>a, <2>1
  <2>3. /\ RInv'
        /\ \A i \in Ids : /\ by_id'[i].key = by_id[i].key
                          /\ by_id'[i].symbol = by_id[i].symbol
                          /\ by_id'[i].current = IF i = id THEN nxt ELSE by_id[i].current
                          /\ by_id'[i].next = IF i = id THEN None ELSE by_id[i].next
    <3>1. Rebinds(id, nxt, None)
      BY <1>b, <2>1, <2>2, Zenon DEF Rebinds
    <3> QED
      BY <1>a, <3>1, WindowStep
  <2>4. ASSUME TInv PROVE TInv'
    <3>1. TokensExact'
      <4> SUFFICES ASSUME NEW i \in Ids, NEW t \in Tokens
                   PROVE  index'[t] = i <=> t \in {by_id'[i].current, by_id'[i].next}
        BY DEF TokensExact
      <4> QED
        BY <1>a, <1>c, <2>1, <2>3, <2>4 DEF Ids, NONE
    <3>2. Windows'
      BY <1>c, <2>1, <2>3, <2>4 DEF Windows
    <3> QED
      BY <3>1, <3>2 DEF TInv
  <2> QED
    BY <2>3, <2>4
<1>4. CASE Unbind(id)
  <2>1. /\ by_id' = [by_id EXCEPT ![id] = [@ EXCEPT !.current = None, !.next = None]]
        /\ index' = [t \in Tokens |-> IF t \in {cur, nxt} THEN NONE ELSE index[t]]
    BY <1>4, Rotations DEF Unbind
  <2>2. index' \in [Tokens -> Ids \cup {NONE}]
    BY <1>a, <2>1
  <2>3. /\ RInv'
        /\ \A i \in Ids : /\ by_id'[i].key = by_id[i].key
                          /\ by_id'[i].symbol = by_id[i].symbol
                          /\ by_id'[i].current = IF i = id THEN None ELSE by_id[i].current
                          /\ by_id'[i].next = IF i = id THEN None ELSE by_id[i].next
    <3>1. Rebinds(id, None, None)
      BY <1>b, <2>1, <2>2, Zenon DEF Rebinds
    <3> QED
      BY <1>a, <3>1, WindowStep
  <2>4. ASSUME TInv PROVE TInv'
    <3>1. TokensExact'
      <4> SUFFICES ASSUME NEW i \in Ids, NEW t \in Tokens
                   PROVE  index'[t] = i <=> t \in {by_id'[i].current, by_id'[i].next}
        BY DEF TokensExact
      <4> QED
        BY <1>a, <1>c, <2>1, <2>3, <2>4 DEF Ids, NONE
    <3>2. Windows'
      BY <1>c, <2>3, <2>4 DEF Windows
    <3> QED
      BY <3>1, <3>2 DEF TInv
  <2> QED
    BY <2>3, <2>4
<1> QED
  BY <1>1, <1>2, <1>3, <1>4

\* The registry's initial state: nothing is registered or indexed.
LEMMA RegistryStarts == Init => RInv /\ TInv
<1> SUFFICES ASSUME Init PROVE RInv /\ TInv
  OBVIOUS
<1> USE NoneAssumption
<1>1. \A i \in Ids : by_id[i] = NoRecord
  BY DEF Init
<1>2. TypeOK
  BY Records, MaxIdAssumption DEF Init, TypeOK, Ids
<1>3. KeysExact /\ Unused
  BY <1>1, Records DEF Init, KeysExact, Unused, Ids, NONE
<1>4. TokensExact /\ Windows
  BY <1>1, Records DEF Init, TokensExact, Windows, Ids, NONE
<1> QED
  BY <1>2, <1>3, <1>4 DEF RInv, TInv

\* Every operation keeps the registry's identities and indexes intact.
LEMMA RegistryStep ==
    ASSUME RInv, [Next]_vars
    PROVE  /\ RInv'
           /\ \A i \in Ids : by_id[i].key # None =>
                  by_id'[i].key = by_id[i].key /\ by_id'[i].symbol = by_id[i].symbol
           /\ FreshTokens /\ TInv => TInv'
<1> USE NoneAssumption
<1>a. ASSUME next_id # 0 PROVE next_id \in Ids /\ by_id[next_id] = NoRecord
  BY <1>a, MaxIdAssumption DEF RInv, TypeOK, Unused, Ids
<1>1. ASSUME NEW key \in Keys, NEW symbol \in Symbols \cup {None}, NEW polymarket \in BOOLEAN,
             Insert(key, symbol, polymarket)
      PROVE  /\ \A i \in Ids : by_id'[i] # by_id[i] =>
                    by_id[i] = NoRecord /\ by_id'[i].current = None /\ by_id'[i].next = None
             /\ UNCHANGED by_polymarket_token_id
  <2>1. by_id' = by_id \/ by_id' = [by_id EXCEPT ![next_id] = NewRecord(key, symbol, polymarket)]
    BY <1>1 DEF Insert
  <2>2. next_id # 0 /\ UNCHANGED by_polymarket_token_id
    BY <1>1 DEF Insert
  <2> QED
    BY <1>a, <2>1, <2>2 DEF RInv, TypeOK, NewRecord
<1>2. ASSUME NEW m \in Markets, NEW symbol \in Symbols \cup {None}, InsertPair(m, symbol)
      PROVE  /\ \A i \in Ids : by_id'[i] # by_id[i] =>
                    by_id[i] = NoRecord /\ by_id'[i].current = None /\ by_id'[i].next = None
             /\ UNCHANGED by_polymarket_token_id
  <2>1. next_id # 0 /\ UNCHANGED by_polymarket_token_id
    BY <1>2 DEF InsertPair
  <2>2. \/ by_id' = [by_id EXCEPT ![next_id] = NewRecord(<<m, "Up">>, symbol, TRUE)]
        \/ /\ Following(next_id) # 0
           /\ by_id' = [by_id EXCEPT ![next_id] = NewRecord(<<m, "Up">>, symbol, TRUE),
                                     ![Following(next_id)] = NewRecord(<<m, "Down">>, None, TRUE)]
    BY <1>2 DEF InsertPair
  <2>3. Following(next_id) # 0 => Following(next_id) \in Ids /\ by_id[Following(next_id)] = NoRecord
    BY <1>a, <2>1, Allocation DEF RInv, Unused, Ids
  <2> QED
    BY <1>a, <2>1, <2>2, <2>3 DEF RInv, TypeOK, NewRecord
<1>3. ASSUME RInv',
             \A i \in Ids : by_id'[i] # by_id[i] =>
                 by_id[i] = NoRecord /\ by_id'[i].current = None /\ by_id'[i].next = None,
             UNCHANGED by_polymarket_token_id
      PROVE  /\ \A i \in Ids : by_id[i].key # None =>
                    by_id'[i].key = by_id[i].key /\ by_id'[i].symbol = by_id[i].symbol
             /\ FreshTokens /\ TInv => TInv'
  BY <1>3, Records DEF TInv, TokensExact, Windows
<1>4. CASE \E key \in Keys, symbol \in Symbols \cup {None}, polymarket \in BOOLEAN :
               Insert(key, symbol, polymarket)
  BY <1>1, <1>3, <1>4, InsertKeeps
<1>5. CASE \E m \in Markets, symbol \in Symbols \cup {None} : InsertPair(m, symbol)
  BY <1>2, <1>3, <1>5, InsertPairKeeps
<1>6. CASE \E id \in Ids, token \in Tokens : BindCurrent(id, token) \/ BindNext(id, token)
  BY <1>6, RotationKeeps
<1>7. CASE \E id \in Ids : Promote(id) \/ Unbind(id)
  BY <1>7, RotationKeeps
<1>8. CASE UNCHANGED vars
  BY <1>8 DEF vars, indexes, RInv, TInv, TypeOK, KeysExact, Unused, TokensExact, Windows
<1> QED
  BY <1>4, <1>5, <1>6, <1>7, <1>8 DEF Next

\* Every record, index and counter of the registry has its type, whatever
\* tokens are bound.
THEOREM RegistryTypes == Spec => []TypeOK
<1>1. RInv => TypeOK
  BY DEF RInv
<1> QED
  BY <1>1, RegistryStarts, RegistryStep, PTL DEF Spec

\* The key and symbol indexes agree with the records for ever, also through
\* pairs of which only one half fitted.
THEOREM KeyIndexesExact == Spec => []KeysExact
<1>1. RInv => KeysExact
  BY DEF RInv
<1> QED
  BY <1>1, RegistryStarts, RegistryStep, PTL DEF Spec

\* An instrument keeps its id, key and symbol for ever: alloc_id never gives
\* an id out twice, and rotation touches windows only.
THEOREM IdentityIsStable == Spec => StableIdentity
<1>1. RInv /\ [Next]_vars =>
          [\A i \in Ids : by_id[i].key # None =>
               /\ by_id'[i].key = by_id[i].key
               /\ by_id'[i].symbol = by_id[i].symbol]_vars
  BY RegistryStep
<1> QED
  BY <1>1, RegistryStarts, RegistryStep, PTL DEF Spec, StableIdentity

\* If callers bind only tokens that no other window holds, the token index
\* resolves exactly the tokens of the windows bound now.
THEOREM TokenIndexExact == ASSUME FreshTokens PROVE Spec => []TokensExact
<1>1. RInv /\ TInv => TokensExact
  BY DEF TInv
<1>2. RInv /\ TInv /\ [Next]_vars => (RInv /\ TInv)'
  BY RegistryStep
<1> QED
  BY <1>1, <1>2, RegistryStarts, PTL DEF Spec

=============================================================================
