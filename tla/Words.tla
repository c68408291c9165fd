------------------------------- MODULE Words --------------------------------
(***************************************************************************)
(* The routines of crates/platform that work on the bits of machine words: *)
(* the constant time types (constant_time/), the bit tricks (bithacks.rs)  *)
(* and the copy kernels (intrinsics/copy_dispatch.rs).  A Ct<T> is its     *)
(* word, a CTBool the word 0 or 1.                                         *)
(***************************************************************************)
EXTENDS Limbs, Sequences
LOCAL INSTANCE Bitwise
LOCAL INSTANCE SequencesExt
LOCAL INSTANCE FiniteSetsExt

CONSTANT MaxSize   \* bound: bytes of a type that is copied

-----------------------------------------------------------------------------
(* ct_routines.rs: wrapping arithmetic; shifts take their count modulo W. *)

SubW(x, y) == AsWord(x - y)
NegW(x) == AsWord(-x)
NotW(x) == Base - 1 - x
ShlW(x, k) == AsWord(x * 2^(k % W))
ShrW(x, k) == x \div 2^(k % W)

IsMsbSet(x) == ShrW(x, W - 1)
CtNot(b) == b ^^ 1
IsNonZero(x) == IsMsbSet(x | NegW(x))
IsZero(x) == CtNot(IsNonZero(x))
CtNe(x, y) == IsMsbSet((x ^^ y) | NegW(x ^^ y))
CtEq(x, y) == CtNot(CtNe(x, y))

CtLt(x, y) == IsMsbSet(x ^^ ((x ^^ y) | (SubW(x, y) ^^ y)))
CtLe(x, y) == CtNot(CtLt(y, x))
CNeg(x, ctl) == AddW(x ^^ NegW(ctl), ctl)

(* multiplexers.rs *)

\* mux: the formula of the portable build; the cmovz of x86_64 is MuxAsm.
Mux(ctl, x, y) == y ^^ (NegW(ctl) & (x ^^ y))
MuxAsm(ctl, x, y) == IF ctl = 0 THEN y ELSE x
CCopy(ctl, x, y) == Mux(ctl, y, x)

\* secret_lookup: every entry is read, and kept where the index matches.
SecretLookup(table, index) ==
    FoldLeft(LAMBDA val, i : CCopy(CtEq(AsWord(i - 1), index), val, table[i]),
             0, [i \in 1 .. Len(table) |-> i])

-----------------------------------------------------------------------------
(* ct_division.rs *)

\* One round of div2n1n, for the bit k of the quotient.
DivStep(s, k, d) ==
    LET w   == ShlW(s.hi, W - k) | ShrW(s.lo, k)
        ctl == CtNot(CtLt(w, d)) | IsNonZero(ShrW(s.hi, k))
    IN  [hi |-> Mux(ctl, ShrW(SubW(w, d), W - k), s.hi),
         lo |-> Mux(ctl, SubW(s.lo, ShlW(d, k)), s.lo),
         q  |-> s.q | ShlW(ctl, k)]

\* div2n1n: n_hi * 2^W + n_lo by d; a high word equal to d counts as 0.
Div2n1n(n_hi, n_lo, d) ==
    LET start == [hi |-> Mux(CtEq(n_hi, d), 0, n_hi), lo |-> n_lo, q |-> 0]
        s     == FoldLeft(LAMBDA acc, k : DivStep(acc, W - k, d), start,
                          [k \in 1 .. W - 1 |-> k])
        carry == CtNot(CtLt(s.lo, d)) | IsNonZero(s.hi)
    IN  [quot |-> s.q | carry, rem |-> Mux(carry, SubW(s.lo, d), s.lo)]

-----------------------------------------------------------------------------
(* bithacks.rs, on usize *)

IsPowerOfTwo(n) == \E k \in 0 .. W - 1 : n = 2^k

\* 0 where the answer does not fit: the release build.
NextPowerOfTwo(n) ==
    IF n > 2^(W - 1) THEN 0 ELSE 2^(Min({k \in 0 .. W - 1 : 2^k >= n}))

LeadingZeros(n) == Cardinality({k \in 0 .. W - 1 : n < 2^k})
Log2Floor(n) == (W - 1) - LeadingZeros(n)
TrailingZeros(n) == Cardinality({k \in 1 .. W : n % 2^k = 0})
RoundUp(value, alignment) == AsWord(value + alignment - 1) & NotW(alignment - 1)
CeilDiv(a, b) == (a + b - 1) \div b

-----------------------------------------------------------------------------
(***************************************************************************)
(* copy_dispatch.rs: the bytes that CopyDispatcher<T, n>::copy moves, as   *)
(* the set of offsets it writes; n is size_of::<T>().  A chunk is 16       *)
(* bytes.  copy_bucket copies base bytes in chunks, then n - base bytes,   *)
(* a difference of two usize, of which 8 bits are enough here.             *)
(***************************************************************************)
AsUsize(x) == x % 2^8
Chunk == 16
CopyExact(chunks) == 0 .. Chunk * chunks - 1
CopyBucket(base, n) ==
    CopyExact(base \div Chunk) \cup base .. base + AsUsize(n - base) - 1

CopyDispatch(n) ==
    CASE n <= 8                  -> 0 .. n - 1
      [] n \in {16, 32, 48, 64}  -> CopyExact(n \div Chunk)
      [] 8 < n /\ n < 32 /\ n # 16  -> CopyBucket(16, n)
      [] 32 < n /\ n < 48        -> CopyBucket(32, n)
      [] 48 < n /\ n < 64        -> CopyBucket(48, n)
      [] OTHER                   -> 0 .. n - 1

-----------------------------------------------------------------------------
CallCopy(n) == operands' = [kind |-> "copy", n |-> n]

WordsNext ==
    \/ LimbsNext
    \/ operands = NoOperands /\ \E n \in 1 .. MaxSize : CallCopy(n)
WordsSpec == LimbsInit /\ [][WordsNext]_operands

-----------------------------------------------------------------------------
(* Properties *)

\* The branch-free comparisons, selections and the 2-by-1 division, built from
\* wrapping arithmetic and the top bit, agree with <, =, IF and \div.
ConstantTime ==
    operands.kind = "words" =>
        LET x == operands.x
            y == operands.y
            z == operands.z
            Is(b, cond) == b = IF cond THEN 1 ELSE 0
            div == Div2n1n(x, y, z)
        IN  /\ Is(CtLt(x, y), x < y) /\ Is(CtLe(x, y), x <= y)
            /\ Is(CtEq(x, y), x = y) /\ Is(CtNe(x, y), x # y) /\ Is(IsZero(x), x = 0)
            /\ CNeg(x, 0) = x /\ AddW(CNeg(x, 1), x) = 0
            /\ \A b \in {0, 1} : Mux(b, x, y) = MuxAsm(b, x, y)
            /\ SecretLookup(<<x, y>>, z) = IF z = 0 THEN x ELSE IF z = 1 THEN y ELSE 0
            /\ z >= Base \div 2 /\ x < z =>
                  div.quot * z + div.rem = x * Base + y /\ div.rem < z
            /\ z >= Base \div 2 /\ x = z => div = Div2n1n(0, y, z)

\* The bit tricks: the next multiple and the next power of two are the least
\* ones, and the position of the first and of the last bit.
BitHacks ==
    operands.kind = "words" =>
        LET x == operands.x
            y == operands.y
        IN  /\ (IsPowerOfTwo(y) /\ x + y <= Base - 1) =>
                  RoundUp(x, y) % y = 0 /\ RoundUp(x, y) \in x .. x + y - 1
            /\ x > 0 => 2^Log2Floor(x) <= x /\ x < 2^(Log2Floor(x) + 1)
            /\ x > 0 => x % 2^TrailingZeros(x) = 0 /\ (x \div 2^TrailingZeros(x)) % 2 = 1
            /\ NextPowerOfTwo(x) # 0 => IsPowerOfTwo(NextPowerOfTwo(x)) /\ NextPowerOfTwo(x) >= x
                                        /\ (x > 1 => NextPowerOfTwo(x) < 2 * x)

\* The routines on machine words are exact for all operands: ConstantTime,
\* BitHacks and LimbsExact.
WordsExact == ConstantTime /\ BitHacks /\ LimbsExact

\* "Copy one value of type T": the copy kernel chosen for a size writes the
\* bytes of the value, each of them and no other.
CopyMovesTheValue == operands.kind = "copy" => CopyDispatch(operands.n) = 0 .. operands.n - 1

=============================================================================
