------------------------------ MODULE FixedI64 ------------------------------
(***************************************************************************)
(* crates/fixed: FixedI64<D>, a decimal with D places held as a scaled     *)
(* i64.  A value is its raw integer; the word has Bits bits, so that TLC   *)
(* reaches every overflow.  An Option is a set of at most one element.     *)
(***************************************************************************)
EXTENDS Integers, Sequences

CONSTANTS Bits,       \* i64::BITS; an even number
          MaxPlaces,  \* 18: the last index of POW10_I64
          D           \* decimal places, at most MaxPlaces

Pow2[k \in Nat] == IF k = 0 THEN 1 ELSE 2 * Pow2[k - 1]

Modulus == Pow2[Bits]
MIN == -Pow2[Bits - 1]
MAX == Pow2[Bits - 1] - 1
Raw == MIN .. MAX

\* POW10_I64, pow10_i64
Pow10[k \in Nat] == IF k = 0 THEN 1 ELSE 10 * Pow10[k - 1]

SCALE == Pow10[D]

None == {}
Some(x) == {x}

\* A value computed in i128 (or by a checked_ operation) and narrowed to i64.
Narrow(x) == IF x \in Raw THEN Some(x) ELSE None
Clamp(x) == IF x > MAX THEN MAX ELSE IF x < MIN THEN MIN ELSE x
Wrapped(x) == ((x - MIN) % Modulus) + MIN

AbsOf(x) == IF x < 0 THEN -x ELSE x

\* The operator / of Rust: truncation towards zero.
Quot(n, d) == IF (n < 0) = (d < 0) THEN AbsOf(n) \div AbsOf(d) ELSE -(AbsOf(n) \div AbsOf(d))

FromInt(v) == Narrow(v * SCALE)

-----------------------------------------------------------------------------
(* arithmetic.rs *)

CheckedAdd(x, y) == Narrow(x + y)
CheckedSub(x, y) == Narrow(x - y)
CheckedNeg(x) == Narrow(-x)
CheckedAbs(x) == Narrow(AbsOf(x))
SaturatingAdd(x, y) == Clamp(x + y)
SaturatingSub(x, y) == Clamp(x - y)
SaturatingAbs(x) == Clamp(AbsOf(x))
WrappingAdd(x, y) == Wrapped(x + y)
WrappingSub(x, y) == Wrapped(x - y)
WrappingNeg(x) == Wrapped(-x)

-----------------------------------------------------------------------------
(* mul_div.rs *)

(***************************************************************************)
(* div_u128_by_u64: hi * 2^64 + lo divided by d, long division with the    *)
(* low word in two halves; the quotient as two words, and the remainder.   *)
(***************************************************************************)
DivHalves(hi, lo, d) ==
    LET half == Pow2[Bits \div 2]
        mid  == (hi % d) * half + (lo \div half)
        low  == (mid % d) * half + (lo % half)
    IN  [q_hi |-> hi \div d,
         q_lo |-> (((mid \div d) * half) % Modulus) + (low \div d),
         rem  |-> low % d]

\* A slip in div_wide_by_const: the carry of the low word is not added.
DivWideNoCarry(wide, d) ==
    LET hi       == wide \div Modulus
        lo       == wide % Modulus
        negative == hi < 0
        abs_lo   == IF negative THEN (-lo) % Modulus ELSE lo
        abs_hi   == IF negative THEN -hi - 1 ELSE hi
        q        == DivHalves(abs_hi, abs_lo, d)
        quot     == q.q_hi * Modulus + q.q_lo
    IN  IF negative THEN -quot ELSE quot

(***************************************************************************)
(* div_wide_by_const on the two words of a product: the absolute value is  *)
(* taken by two's complement on the words, with the carry of the low one.  *)
(***************************************************************************)
DivWide(wide, d) ==
    LET hi       == wide \div Modulus
        lo       == wide % Modulus
        negative == hi < 0
        abs_lo   == IF negative THEN (-lo) % Modulus ELSE lo
        abs_hi   == IF negative THEN -hi - 1 + (IF lo = 0 THEN 1 ELSE 0) ELSE hi
        q        == DivHalves(abs_hi, abs_lo, d)
        quot     == q.q_hi * Modulus + q.q_lo
    IN  IF negative THEN -quot ELSE quot

\* Half of the divisor, away from zero, before a truncating division.
Biased(n, d) == IF n >= 0 THEN n + (AbsOf(d) \div 2) ELSE n - (AbsOf(d) \div 2)

CheckedMulTrunc(x, y) == Narrow(DivWide(x * y, SCALE))
CheckedMulRound(x, y) == Narrow(DivWide(Biased(x * y, SCALE), SCALE))

SaturatingMulTrunc(x, y) ==
    IF CheckedMulTrunc(x, y) # None THEN CHOOSE v \in CheckedMulTrunc(x, y) : TRUE
    ELSE IF (x >= 0) = (y >= 0) THEN MAX ELSE MIN

CheckedDivTrunc(x, y) == IF y = 0 THEN None ELSE Narrow(Quot(x * SCALE, y))
CheckedDivRound(x, y) == IF y = 0 THEN None ELSE Narrow(Quot(Biased(x * SCALE, y), y))

CheckedMulInt(x, n) == Narrow(x * n)
SaturatingMulInt(x, n) == Clamp(x * n)

\* MIN / -1 panics: an i64 division that overflows does so in every build.
DivIntPanics(x, n) == n # 0 /\ Quot(x, n) \notin Raw
CheckedDivInt(x, n) == IF n = 0 THEN None ELSE Some(Quot(x, n))

-----------------------------------------------------------------------------
(* convert.rs: to D2 decimal places *)

\* The widening branch, the same in all three functions.
Widened(x, D2) == Narrow(x * Pow10[D2 - D])

RescaleTrunc(x, D2) ==
    IF D2 = D THEN Some(x)
    ELSE IF D2 > D THEN Widened(x, D2) ELSE Narrow(Quot(x, Pow10[D - D2]))

\* A slip in rescale_round: the bias has the same sign for every value.
RescaleRoundUpward(x, D2) ==
    IF D2 >= D THEN Widened(x, D2)
    ELSE Narrow(Quot(x + (Pow10[D - D2] \div 2), Pow10[D - D2]))

RescaleRound(x, D2) ==
    IF D2 = D THEN Some(x)
    ELSE IF D2 > D THEN Widened(x, D2)
    ELSE Narrow(Quot(Biased(x, Pow10[D - D2]), Pow10[D - D2]))

CheckedRescaleExact(x, D2) ==
    IF D2 = D THEN Some(x)
    ELSE IF D2 > D THEN Widened(x, D2)
    ELSE IF AbsOf(x) % Pow10[D - D2] # 0 THEN None
    ELSE Narrow(Quot(x, Pow10[D - D2]))

-----------------------------------------------------------------------------
(* parse.rs and fmt.rs, on sequences of characters *)

Digits == <<"0", "1", "2", "3", "4", "5", "6", "7", "8", "9">>
IsDigit(c) == \E k \in 1 .. 10 : Digits[k] = c
DigitValue(c) == (CHOOSE k \in 1 .. 10 : Digits[k] = c) - 1

\* 19: the decimal digits of MAX, one more than always fit in the word.
MaxDigits == MaxPlaces + 1

\* Accumulator; err is the error that stopped the scan.
Start == [mantissa |-> 0, total_digits |-> 0, frac_digits |-> 0,
          saw_dot |-> FALSE, saw_any_digit |-> FALSE, err |-> "Ok"]

\* A slip in feed: a zero before the first other digit is not counted.
FeedDigitSkipsZeros(acc, digit) ==
    LET next == acc.mantissa * 10 - digit
    IN  IF digit = 0 /\ acc.mantissa = 0 THEN [acc EXCEPT !.saw_any_digit = TRUE]
        ELSE IF acc.total_digits + 1 > MaxDigits
                \/ (acc.total_digits + 1 = MaxDigits /\ next \notin Raw)
        THEN [acc EXCEPT !.err = "Overflow"]
        ELSE [acc EXCEPT !.mantissa = next,
                         !.total_digits = @ + 1,
                         !.frac_digits = IF acc.saw_dot THEN @ + 1 ELSE @,
                         !.saw_any_digit = TRUE]

\* A digit, in negative space.  Only the last digit that can fit is checked.
FeedDigit(acc, digit) ==
    LET seen == [acc EXCEPT !.frac_digits = IF acc.saw_dot THEN @ + 1 ELSE @,
                            !.saw_any_digit = TRUE]
        next == acc.mantissa * 10 - digit
    IN  IF digit = 0 /\ acc.mantissa = 0 THEN seen
        ELSE IF acc.total_digits + 1 > MaxDigits
                \/ (acc.total_digits + 1 = MaxDigits /\ next \notin Raw)
        THEN [acc EXCEPT !.err = "Overflow"]
        ELSE [seen EXCEPT !.mantissa = Wrapped(next), !.total_digits = @ + 1]

Feed(acc, c) ==
    IF acc.err # "Ok" THEN acc
    ELSE IF IsDigit(c) THEN FeedDigit(acc, DigitValue(c))
    ELSE IF c = "." /\ ~acc.saw_dot THEN [acc EXCEPT !.saw_dot = TRUE]
    ELSE [acc EXCEPT !.err = "InvalidFormat"]

\* The accumulator after the loop over the bytes of body.
Scan(body) ==
    LET acc[i \in 0 .. Len(body)] == IF i = 0 THEN Start ELSE Feed(acc[i - 1], body[i])
    IN  acc[Len(body)]

\* parse_decimal_bytes: an error, or "Ok" with the value.
ParseDecimal(bytes) ==
    LET Fail(e)  == [err |-> e, value |-> 0]
        prefixed == bytes # <<>> /\ bytes[1] \in {"-", "+"}
        negative == bytes # <<>> /\ bytes[1] = "-"
        body     == IF prefixed THEN Tail(bytes) ELSE bytes
        acc      == Scan(body)
        signed   == IF negative THEN acc.mantissa ELSE -acc.mantissa
        scaled   == signed * Pow10[D - acc.frac_digits]
    IN  IF body = <<>> THEN Fail("InvalidFormat")
        ELSE IF acc.err # "Ok" THEN Fail(acc.err)
        ELSE IF ~acc.saw_any_digit THEN Fail("InvalidFormat")
        ELSE IF acc.frac_digits > D THEN Fail("ExcessPrecision")
        ELSE IF signed \notin Raw \/ scaled \notin Raw THEN Fail("Overflow")
        ELSE [err |-> "Ok", value |-> scaled]

\* The digits of n \in Nat, at least width of them.
DigitsOf(n, width) ==
    LET count == CHOOSE k \in 1 .. MaxDigits :
                     /\ n < Pow10[k] /\ k >= width
                     /\ (k > 1 /\ k > width) => n >= Pow10[k - 1]
    IN  [i \in 1 .. count |-> Digits[((n \div Pow10[count - i]) % 10) + 1]]

\* Display
Display(x) ==
    LET sign == IF x < 0 THEN <<"-">> ELSE <<>>
    IN  IF D = 0 THEN sign \o DigitsOf(AbsOf(x), 1)
        ELSE sign \o DigitsOf(AbsOf(x) \div SCALE, 1) \o <<".">>
                  \o DigitsOf(AbsOf(x) % SCALE, D)

=============================================================================
