------------------------------ MODULE Numeric -------------------------------
(***************************************************************************)
(* The value types of crates/types on top of FixedI64, and the calls of    *)
(* the pure routines that TLC enumerates: a state is one call's operands,  *)
(* and the properties compare the routines with what they should return.   *)
(***************************************************************************)
EXTENDS Integers, Sequences, FiniteSets, Functions

CONSTANTS Bits,        \* i64::BITS, small
          MaxPlaces,   \* 18: decimal places that fit
          UsdcPlaces,  \* 6: the D of UsdcAmount and Probability
          BtcPlaces,   \* 8: the D of BtcQty
          Magnitudes,  \* of the second operands of the binary operations
          Alphabet,    \* characters of the texts that are parsed
          MaxText      \* bound: their length

VARIABLE arg           \* the operands of the call

Fixed(D) == INSTANCE FixedI64
UsdcAmount == INSTANCE FixedI64 WITH D <- UsdcPlaces
BtcQty == INSTANCE FixedI64 WITH D <- BtcPlaces
Places == {0, UsdcPlaces, BtcPlaces}

\* Ticks, Lots and SignedLots are i64 without a scale.
Ticks == INSTANCE FixedI64 WITH D <- 0
Lots == INSTANCE FixedI64 WITH D <- 0
SignedLots == INSTANCE FixedI64 WITH D <- 0

\* The word has two halves; POW10_I64 ends with the last power that fits.
ASSUME NumericAssumption ==
    /\ Bits \in Nat \ {0} /\ Bits % 2 = 0
    /\ MaxPlaces \in Nat
    /\ Ticks!Pow10[MaxPlaces] <= Ticks!MAX /\ -Ticks!MIN < Ticks!Pow10[MaxPlaces + 1]
    /\ UsdcPlaces \in 0 .. MaxPlaces /\ BtcPlaces \in 0 .. MaxPlaces
    /\ MaxText \in Nat

-----------------------------------------------------------------------------
(* probability.rs *)

NewProbability(raw) ==
    IF raw < 0 \/ raw > UsdcAmount!SCALE THEN UsdcAmount!None ELSE UsdcAmount!Some(raw)
Complement(p) == UsdcAmount!SCALE - p

(* instrument.rs: tick_size and lot_size are positive *)

NewInstrumentMeta(tick_size, lot_size) == tick_size > 0 /\ lot_size > 0
PriceToTicks(price, tick_size) == Ticks!Quot(price, tick_size)
TicksToPrice(ticks, tick_size) == UsdcAmount!CheckedMulInt(tick_size, ticks)

QtyToLots(qty, lot_size) == Lots!Quot(qty, lot_size)
LotsToQty(lots, lot_size) == UsdcAmount!CheckedMulInt(lot_size, lots)

-----------------------------------------------------------------------------
Texts == UNION {[1 .. n -> Alphabet] : n \in 0 .. MaxText}

Operands == (Magnitudes \cup {-m : m \in Magnitudes}) \cap Ticks!Raw

NoCall == [kind |-> "none"]

CallFixed(x, y) == arg' = [kind |-> "fixed", x |-> x, y |-> y]
CallParse(s) == arg' = [kind |-> "parse", s |-> s]

NumericInit == arg = NoCall
NumericNext ==
    /\ arg = NoCall
    /\ \/ \E x \in Ticks!Raw, y \in Operands : CallFixed(x, y)
       \/ \E s \in Texts : CallParse(s)
NumericSpec == NumericInit /\ [][NumericNext]_arg

-----------------------------------------------------------------------------
(* Reference definitions *)

Magnitude(x) == IF x < 0 THEN -x ELSE x

\* n / d over all integers, cut off towards zero or to the nearest integer, a
\* tie going away from zero.
SignOf(n, d) == IF (n < 0) = (d < 0) THEN 1 ELSE -1
Truncated(n, d) == SignOf(n, d) * (Magnitude(n) \div Magnitude(d))
Nearest(n, d) == SignOf(n, d) * ((2 * Magnitude(n) + Magnitude(d)) \div (2 * Magnitude(d)))

\* The Option that holds the integer q, None if it is not an i64.
Only(q) == {q} \cap Ticks!Raw

\* Decimal texts: an optional sign, digits and at most one dot.
Body(s) == IF s # <<>> /\ s[1] \in {"-", "+"} THEN Tail(s) ELSE s
DotsOf(b) == {i \in DOMAIN b : b[i] = "."}
DigitsIn(b) == {i \in DOMAIN b : Ticks!IsDigit(b[i])}
WellFormed(b) ==
    /\ DOMAIN b = DotsOf(b) \cup DigitsIn(b)
    /\ Cardinality(DotsOf(b)) <= 1 /\ DigitsIn(b) # {}
FractionDigits(b) == Cardinality({i \in DigitsIn(b) : \E j \in DotsOf(b) : j < i})
Unscaled(s) ==
    LET b == Body(s)
        weight(i) == Ticks!Pow10[Cardinality({j \in DigitsIn(b) : j > i})]
        worth == [i \in DigitsIn(b) |-> Ticks!DigitValue(b[i]) * weight(i)]
        size == SumFunction(worth)
    IN  IF s[1] = "-" THEN -size ELSE size

-----------------------------------------------------------------------------
(* Properties *)

\* Multiplication and division go through a hand-written division of double
\* words and a bias for rounding; for every operand the result is the product
\* (quotient) cut off or rounded as documented, and None exactly when that
\* does not fit the word; the saturating product ends at the right limit.
\* The one case that panics is checked_div_int of MIN by -1.
MulDivExact ==
    arg.kind = "fixed" =>
        \A D \in Places :
            LET x == arg.x
                y == arg.y
                scale == Ticks!Pow10[D]
            IN  /\ Fixed(D)!CheckedMulTrunc(x, y) = Only(Truncated(x * y, scale))
                /\ Fixed(D)!CheckedMulRound(x, y) = Only(Nearest(x * y, scale))
                /\ y # 0 =>
                     /\ Fixed(D)!CheckedDivTrunc(x, y) = Only(Truncated(x * scale, y))
                     /\ Fixed(D)!CheckedDivRound(x, y) = Only(Nearest(x * scale, y))
                /\ Fixed(D)!CheckedMulTrunc(x, y) = {} =>
                     Fixed(D)!SaturatingMulTrunc(x, y) = IF x * y > 0 THEN Ticks!MAX ELSE Ticks!MIN
                /\ Fixed(D)!DivIntPanics(x, y) <=> x = Ticks!MIN /\ y = -1

\* Changes of scale never lose more than they say: a truncated, rounded or
\* exact rescale is that of the rational value, None exactly when it does not
\* fit or is not exact.  A price in ticks, or a quantity in lots, converts
\* back without overflow to within one tick (lot) of it, towards zero.
ConversionsBounded ==
    arg.kind = "fixed" =>
        LET x == arg.x
            y == arg.y
        IN  /\ \A D \in Places, E \in Places :
                 LET up == x * Ticks!Pow10[E]
                     down == Ticks!Pow10[D]
                 IN  /\ Fixed(D)!RescaleTrunc(x, E) = Only(Truncated(up, down))
                     /\ Fixed(D)!RescaleRound(x, E) = Only(Nearest(up, down))
                     /\ Fixed(D)!CheckedRescaleExact(x, E) =
                            IF up % down = 0 THEN Only(up \div down) ELSE {}
            /\ NewInstrumentMeta(y, y) =>
                 LET Near(back) == \E b \in back : /\ b * x >= 0 /\ Magnitude(b) <= Magnitude(x)
                                                   /\ Magnitude(x - b) < y
                 IN  /\ Near(TicksToPrice(PriceToTicks(x, y), y))
                     /\ Near(LotsToQty(QtyToLots(x, y), y))
            /\ \A p \in NewProbability(x) :
                 NewProbability(Complement(p)) = {Complement(p)} /\ Complement(Complement(p)) = p

\* The single-pass parser accepts exactly the decimal texts whose value fits
\* and has no more than D fractional digits, MIN included, and returns that
\* value; and it reads back what Display writes.
ParseFaithful ==
    /\ arg.kind = "parse" =>
         \A D \in Places :
             LET p == Fixed(D)!ParseDecimal(arg.s)
                 b == Body(arg.s)
                 fits == /\ WellFormed(b) /\ FractionDigits(b) <= D
                         /\ Unscaled(arg.s) * Ticks!Pow10[D - FractionDigits(b)] \in Ticks!Raw
             IN  /\ (p.err = "Ok") <=> fits
                 /\ fits => p.value = Unscaled(arg.s) * Ticks!Pow10[D - FractionDigits(b)]
                 /\ (WellFormed(b) /\ p.err = "ExcessPrecision") => FractionDigits(b) > D
                 /\ WellFormed(b) => p.err # "InvalidFormat"
    /\ arg.kind = "fixed" =>
         \A D \in Places :
             Fixed(D)!ParseDecimal(Fixed(D)!Display(arg.x)) = [err |-> "Ok", value |-> arg.x]

=============================================================================
