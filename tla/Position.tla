------------------------------ MODULE Position ------------------------------
(***************************************************************************)
(* crates/strategy/src/position.rs: the signed inventory of one            *)
(* instrument, with the volume-weighted average entry price and the        *)
(* realized PnL.  Prices and PnL are the raw i64 of FixedI64<6>; a checked *)
(* operation that leaves that range falls back as the code does.           *)
(*                                                                         *)
(* fill_count is left out: nothing reads it.                               *)
(***************************************************************************)
EXTENDS Integers

CONSTANT I64Max       \* i64::MAX

ASSUME I64Assumption == I64Max \in Nat

VARIABLES
    qty, avg_entry, realized_pnl,  \* Position
    cash,      \* money received less money paid for the fills so far (history)
    rounding,  \* bound on what the divisions of the VWAP have cut off (history)
    exact      \* no checked operation has overflowed so far (history)

positionVars == <<qty, avg_entry, realized_pnl, cash, rounding, exact>>

PositionInit ==
    /\ qty = 0 /\ avg_entry = 0 /\ realized_pnl = 0
    /\ cash = 0 /\ rounding = 0 /\ exact = TRUE

Abs(x) == IF x < 0 THEN -x ELSE x
Signum(x) == IF x < 0 THEN -1 ELSE IF x = 0 THEN 0 ELSE 1

\* Lots bought (Bid) or sold (Ask) as a signed quantity.
Signed(side, lots) == IF side = "Bid" THEN lots ELSE -lots

Fits(x) == -I64Max - 1 <= x /\ x <= I64Max

\* checked_*(...).unwrap_or(ZERO)
OrZero(x) == IF Fits(x) THEN x ELSE 0

-----------------------------------------------------------------------------
(* on_fill *)

\* The fill adds to the position, or opens one.
Increasing(delta) == qty = 0 \/ Signum(qty) = Signum(delta)

Cost(delta, price) == OrZero(avg_entry * Abs(qty)) + OrZero(price * Abs(delta))

\* The new average entry price, truncated; a division by zero gives ZERO.
Vwap(delta, price) ==
    IF qty + delta = 0 THEN 0 ELSE OrZero(Cost(delta, price)) \div Abs(qty + delta)

\* The lots of the old position that a fill against it closes.
Closed(delta) == IF Abs(delta) <= Abs(qty) THEN Abs(delta) ELSE Abs(qty)

FillPnl(delta, price) ==
    OrZero(OrZero(OrZero(price - avg_entry) * Signum(qty)) * Closed(delta))

\* The operations of a fill that can overflow.
FillFits(delta, price) ==
    IF Increasing(delta)
    THEN /\ Fits(avg_entry * Abs(qty)) /\ Fits(price * Abs(delta))
         /\ Fits(Cost(delta, price))
    ELSE /\ Fits(price - avg_entry) /\ Fits((price - avg_entry) * Signum(qty))
         /\ Fits((price - avg_entry) * Signum(qty) * Closed(delta))
         /\ Fits(realized_pnl + FillPnl(delta, price))

Realize(delta, price) ==
    realized_pnl' = IF Fits(realized_pnl + FillPnl(delta, price))
                    THEN realized_pnl + FillPnl(delta, price)
                    ELSE realized_pnl

\* A slip in on_fill: a fill that flips the position keeps the old entry price.
OnFillFlipKeepsEntry(side, lots, price) ==
    LET delta == Signed(side, lots)
    IN  /\ qty' = qty + delta
        /\ avg_entry' = IF qty + delta = 0 THEN 0
                        ELSE IF Increasing(delta) THEN Vwap(delta, price)
                        ELSE avg_entry
        /\ IF Increasing(delta) THEN UNCHANGED realized_pnl ELSE Realize(delta, price)
        /\ cash' = cash - delta * price
        /\ rounding' = IF Increasing(delta) THEN rounding + Abs(qty + delta) - 1 ELSE rounding
        /\ exact' = (exact /\ FillFits(delta, price))

OnFill(side, lots, price) ==
    LET delta   == Signed(side, lots)
        flipped == qty + delta # 0 /\ Signum(qty + delta) # Signum(qty)
    IN  /\ qty' = qty + delta
        /\ avg_entry' = IF qty + delta = 0 THEN 0
                        ELSE IF Increasing(delta) THEN Vwap(delta, price)
                        ELSE IF flipped THEN price ELSE avg_entry
        /\ IF Increasing(delta) THEN UNCHANGED realized_pnl ELSE Realize(delta, price)
        /\ cash' = cash - delta * price
        /\ rounding' = IF Increasing(delta) THEN rounding + Abs(qty + delta) - 1 ELSE rounding
        /\ exact' = (exact /\ FillFits(delta, price))

-----------------------------------------------------------------------------
(* Properties *)

PositionTypeOK ==
    /\ qty \in Int /\ avg_entry \in 0 .. I64Max
    /\ realized_pnl \in -I64Max - 1 .. I64Max
    /\ cash \in Int /\ rounding \in Nat /\ exact \in BOOLEAN
    /\ qty = 0 => avg_entry = 0

\* Money is conserved: through any series of increases, reductions and flips,
\* long or short, the realized PnL is the cash flow of the fills plus the
\* cost of what is still held, but for less than one price unit per lot lost
\* in each VWAP division, as long as no amount overflows.
PnlConserved ==
    exact => Abs(realized_pnl - (cash + qty * avg_entry)) <= rounding

=============================================================================
