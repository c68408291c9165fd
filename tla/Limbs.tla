------------------------------- MODULE Limbs --------------------------------
(***************************************************************************)
(* The routines of crates/platform/src/intrinsics on the limbs of wide     *)
(* integers: carries, borrows and wide products.  A word has W bits; u32   *)
(* and u64 have the same code.  A state is one call's operands, and the    *)
(* property compares the routines with what they should return.            *)
(***************************************************************************)
EXTENDS Integers

CONSTANT W       \* T::BITS, a power of two

ASSUME WidthAssumption == W \in Nat \ {0}

VARIABLE operands  \* of the call

Pow2[k \in Nat] == IF k = 0 THEN 1 ELSE 2 * Pow2[k - 1]

Base == Pow2[W]
Word == 0 .. Base - 1
AsWord(x) == x % Base

\* wrapping_add
AddW(x, y) == AsWord(x + y)

(* addcarry_subborrow.rs and extended_prec.rs: results are <<high, low>>. *)

AddC(x, y, carry) == <<(x + y + carry) \div Base, AsWord(x + y + carry)>>

\* The difference in a double word; its high word is all ones on a borrow.
SubB(x, y, borrow) ==
    LET wide == (x - y - borrow) % (Base * Base)
    IN  <<(wide \div Base) % 2, AsWord(wide)>>

WideMul(x, y) == <<(x * y) \div Base, AsWord(x * y)>>
MulAdd1(x, y, c) == <<(x * y + c) \div Base, AsWord(x * y + c)>>
MulAdd2(x, y, c1, c2) == <<(x * y + c1 + c2) \div Base, AsWord(x * y + c1 + c2)>>

AsSigned(x) == IF x >= Base \div 2 THEN x - Base ELSE x
SMul(x, y) ==
    LET wide == AsSigned(x) * AsSigned(y)
    IN  <<AsWord(wide \div Base), AsWord(wide)>>

\* mul_acc: (t, u, v) += a * b, the accumulator with its high limb first.
MulAcc(t, u, v, a, b) ==
    LET uv == WideMul(a, b)
        lo == AddC(v, uv[2], 0)
        hi == AddC(u, uv[1], lo[1])
    IN  <<AddW(t, hi[1]), hi[2], lo[2]>>

\* A slip in mul_double_acc: the carry out of the doubling is lost.
MulDoubleAccNoCarry(t, u, v, a, b) ==
    LET uv == WideMul(a, b)
        d_lo == AddC(uv[2], uv[2], 0)
        d_hi == AddC(uv[1], uv[1], d_lo[1])
        lo   == AddC(v, d_lo[2], 0)
        hi   == AddC(u, d_hi[2], lo[1])
    IN  <<AddW(t, hi[1]), hi[2], lo[2]>>

\* mul_double_acc: (t, u, v) += 2 * a * b, by doubling the product.
MulDoubleAcc(t, u, v, a, b) ==
    LET uv == WideMul(a, b)
        d_lo == AddC(uv[2], uv[2], 0)
        d_hi == AddC(uv[1], uv[1], d_lo[1])
        lo   == AddC(v, d_lo[2], 0)
        hi   == AddC(u, d_hi[2], lo[1])
    IN  <<AddW(AddW(t, d_hi[1]), hi[1]), hi[2], lo[2]>>

-----------------------------------------------------------------------------
NoOperands == [kind |-> "none"]

CallWords(x, y, z) == operands' = [kind |-> "words", x |-> x, y |-> y, z |-> z]

LimbsInit == operands = NoOperands
LimbsNext ==
    /\ operands = NoOperands
    /\ \E x \in Word, y \in Word, z \in Word : CallWords(x, y, z)
LimbsSpec == LimbsInit /\ [][LimbsNext]_operands

-----------------------------------------------------------------------------
(* Properties *)

\* Carries and borrows between limbs: the high and low words together are the
\* exact sum, difference or product, and the three-limb accumulators add the
\* product (twice) modulo three words.
LimbsExact ==
    operands.kind = "words" =>
        LET x == operands.x
            y == operands.y
            z == operands.z
            top == Base - 1
            Cube == Base * Base * Base
            Both(r) == r[1] * Base + r[2]
            Three(t) == (t[1] * Base + t[2]) * Base + t[3]
        IN  /\ \A c \in {0, 1} :
                  /\ Both(AddC(x, y, c)) = x + y + c
                  /\ SubB(x, y, c)[2] - Base * SubB(x, y, c)[1] = x - y - c
            /\ Both(MulAdd1(x, y, z)) = x * y + z /\ Both(MulAdd2(x, y, z, top)) = x * y + z + top
            /\ \A r \in {MulAdd1(x, top, y), MulAdd2(x, y, z, top)} : r[1] \in Word
            /\ Both(SMul(x, y)) = (AsSigned(x) * AsSigned(y)) % (Base * Base)
            /\ \A t \in {0, top}, b \in {x, top} :
                  /\ Three(MulAcc(t, x, y, z, b)) = (Three(<<t, x, y>>) + z * b) % Cube
                  /\ Three(MulDoubleAcc(t, x, y, z, b)) = (Three(<<t, x, y>>) + 2 * z * b) % Cube

=============================================================================
