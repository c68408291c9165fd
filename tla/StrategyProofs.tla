--------------------------- MODULE StrategyProofs ---------------------------
(***************************************************************************)
(* What a strategy reads of its own orders is right: position, tracker and *)
(* exposure (Orders), then the queue estimate (QueueEstimator).            *)
(*                                                                         *)
(* The position's accounts balance for every number of orders, every size  *)
(* and price, and in whatever order the reports arrive.  PnlConserved is   *)
(* inductive together with the types of the position and of the reports    *)
(* under way: a fill has at least one lot and a price that fits.  An       *)
(* increase loses less than one unit per lot to the division, a reduction  *)
(* moves its share of the cost from the position to the realized PnL, and  *)
(* a flip does that with all of it and opens at the fill's price.          *)
(*                                                                         *)
(* The tracker is exact and the exposure sound whenever the reports of one *)
(* order arrive in order.  The invariant (Books) says what is in the queue *)
(* of an order's reports (Trail), that a slot is behind the venue by just  *)
(* those reports (Tracked), and that the sums of both sides differ by the  *)
(* slack of the orders (Balance), each of which is no less than zero.      *)
(*                                                                         *)
(* The queue estimate drifts by no more than the lots cancelled.  The      *)
(* invariant (QueueInv) says that our orders stand in the queue of their   *)
(* level without overlap (Lines) and that each slot follows its order      *)
(* (Follows).  The arithmetic of on_level_change (CancelLotsBounds) rests  *)
(* on facts about powers, by induction on the exponent.                    *)
(***************************************************************************)
EXTENDS Orders, QueueEstimator, NumberLemmas, SequenceTheorems


FillReport == [kind: {"Fill"}, lots: Nat \ {0}, price: 0 .. I64Max, left: Nat]
OtherReport == [kind: {"Ack", "Reject", "Cancelled"}, lots: {0}, price: {0}, left: Nat]

\* What is under way between the venue and the strategy.
Traffic ==
    /\ venue \in [OrderIds -> [status: {"unsent", "sent", "resting", "done"},
                               side: Sides, left: 0 .. MaxQty]]
    /\ reports \in [OrderIds -> Seq(FillReport \cup OtherReport)]

Accounts == PositionTypeOK /\ PnlConserved

-----------------------------------------------------------------------------
(* Arithmetic *)

\* Adding to a position: the signed remainder of the division is the only
\* change of the balance.
LEMMA IncreaseBalance ==
    ASSUME NEW q \in Int, NEW a \in Nat, NEW d \in Int, NEW p \in Nat, NEW v \in Nat,
           NEW r \in Int, NEW m \in Int,
           Signum(q) = Signum(d) \/ q = 0, d # 0,
           Abs(q + d) * v <= a * Abs(q) + p * Abs(d),
           a * Abs(q) + p * Abs(d) <= Abs(q + d) * v + Abs(q + d) - 1
    PROVE  Abs(r - (m - d * p + (q + d) * v))
             <= Abs(r - (m + q * a)) + Abs(q + d) - 1
  <1> DEFINE A == a * q  B == p * d  C == (q + d) * v
  <1>1. A \in Int /\ B \in Int /\ C \in Int
    BY SMT
  <1>2. q * a = A /\ d * p = B
    BY SMT
  <1>3. CASE d > 0
    <2>1. q >= 0 /\ Abs(q) = q /\ Abs(d) = d /\ Abs(q + d) = q + d
      BY <1>3 DEF Signum, Abs
    <2>2. C <= A + B /\ A + B <= C + q + d - 1
      BY <2>1
    <2> HIDE DEF A, B, C
    <2>3. Abs(r - (m - B + C)) <= Abs(r - (m + A)) + (q + d) - 1
      BY <1>1, <2>1, <2>2, SMT DEF Abs
    <2> QED BY <2>1, <2>3, <1>2 DEF C
  <1>4. CASE d < 0
    <2>1. q <= 0 /\ Abs(q) = -q /\ Abs(d) = -d /\ Abs(q + d) = -(q + d)
      BY <1>4 DEF Signum, Abs
    <2>2. a * (-q) = -A /\ p * (-d) = -B /\ (-(q + d)) * v = -C
      BY SMT
    <2>3. -C <= -A - B /\ -A - B <= -C - (q + d) - 1
      BY <2>1, <2>2
    <2> HIDE DEF A, B, C
    <2>4. Abs(r - (m - B + C)) <= Abs(r - (m + A)) + (-(q + d)) - 1
      BY <1>1, <2>1, <2>3, SMT DEF Abs
    <2> QED BY <2>1, <2>4, <1>2 DEF C
  <1> QED BY <1>3, <1>4, SMT

\* Closing all of a position, and opening the rest at the fill's price.
LEMMA CloseBalance ==
    ASSUME NEW q \in Int, NEW a \in Int, NEW d \in Int, NEW p \in Int,
           NEW r \in Int, NEW m \in Int
    PROVE  r + (p - a) * q - (m - d * p + (q + d) * p) = r - (m + q * a)
  BY SMT

\* Closing part of a position.
LEMMA ReduceBalance ==
    ASSUME NEW q \in Int, NEW a \in Int, NEW d \in Int, NEW p \in Int,
           NEW r \in Int, NEW m \in Int
    PROVE  r + (p - a) * (-d) - (m - d * p + (q + d) * a) = r - (m + q * a)
  BY SMT

-----------------------------------------------------------------------------
(* The position *)

\* A fill keeps the types: the average is no more than the total cost, and
\* what does not fit falls back to a value that does.
LEMMA FillTypes ==
    ASSUME PositionTypeOK, NEW side \in Sides, NEW lots \in Nat \ {0},
           NEW price \in 0 .. I64Max, OnFill(side, lots, price)
    PROVE  PositionTypeOK'
  <1> DEFINE delta == Signed(side, lots)
  <1>1. delta \in Int /\ delta # 0
    BY DEF Signed
  <1>2. Abs(qty) \in Nat /\ Abs(delta) \in Nat /\ Abs(qty + delta) \in Nat
    BY <1>1 DEF Abs, PositionTypeOK
  <1>3. Abs(qty + delta) # 0 <=> qty + delta # 0
    BY <1>1 DEF Abs, PositionTypeOK
  <1>4. avg_entry * Abs(qty) \in Nat /\ price * Abs(delta) \in Nat
    BY <1>2, I64Assumption DEF PositionTypeOK
  <1>5. OrZero(Cost(delta, price)) \in 0 .. I64Max
    BY <1>4, I64Assumption DEF Cost, OrZero, Fits
  <1>6. Vwap(delta, price) \in 0 .. I64Max
    <2>1. CASE qty + delta = 0
      BY <2>1, I64Assumption DEF Vwap
    <2>2. CASE qty + delta # 0
      <3> DEFINE c == OrZero(Cost(delta, price))  n == Abs(qty + delta)
      <3>1. c \div n \in 0 .. I64Max
        <4>1. c \in Nat /\ c <= I64Max /\ n \in Nat \ {0}
          BY <2>2, <1>2, <1>3, <1>5
        <4> HIDE DEF c, n
        <4>2. c \div n \in Nat /\ c \div n <= c
          BY <4>1, Division
        <4> QED BY <4>1, <4>2, I64Assumption
      <3> QED BY <2>2, <3>1 DEF Vwap
    <2> QED BY <2>1, <2>2
  <1>7. realized_pnl' \in -I64Max - 1 .. I64Max
    <2>1. FillPnl(delta, price) \in Int
      <3>1. \A x \in Int : OrZero(x) \in Int
        BY DEF OrZero
      <3>2. Signum(qty) \in Int /\ Closed(delta) \in Int /\ price - avg_entry \in Int
        BY <1>1, <1>2, I64Assumption DEF Signum, Closed, PositionTypeOK
      <3>3. \A x, y \in Int : x * y \in Int
        OBVIOUS
      <3> HIDE DEF delta
      <3>4. OrZero(OrZero(price - avg_entry) * Signum(qty)) \in Int
        BY <3>1, <3>2, <3>3
      <3> QED BY <3>1, <3>2, <3>3, <3>4 DEF FillPnl
    <2> QED BY <2>1, I64Assumption DEF OnFill, Realize, Fits, PositionTypeOK
  <1>8. qty' \in Int /\ avg_entry' \in 0 .. I64Max /\ exact' \in BOOLEAN
        /\ (qty' = 0 => avg_entry' = 0)
    BY <1>1, <1>6, I64Assumption DEF OnFill, PositionTypeOK
  <1>9. cash' \in Int
    <2>1. delta * price \in Int
      BY <1>1
    <2> QED BY <2>1 DEF OnFill, PositionTypeOK
  <1>10. rounding' \in Nat
    <2>1. Increasing(delta) => qty + delta # 0
      BY <1>1 DEF Increasing, Signum, PositionTypeOK
    <2> QED BY <2>1, <1>2, <1>3 DEF OnFill, PositionTypeOK
  <1> QED BY <1>7, <1>8, <1>9, <1>10 DEF PositionTypeOK

\* A fill keeps the accounts balanced.
LEMMA FillConserves ==
    ASSUME Accounts, NEW side \in Sides, NEW lots \in Nat \ {0},
           NEW price \in 0 .. I64Max, OnFill(side, lots, price)
    PROVE  PnlConserved'
  <1> SUFFICES ASSUME exact' PROVE Abs(realized_pnl' - (cash' + qty' * avg_entry')) <= rounding'
    BY DEF PnlConserved
  <1> DEFINE delta == Signed(side, lots)
  <1>1. delta \in Int /\ delta # 0 /\ price \in Nat
    BY DEF Signed
  <1>2. /\ qty \in Int /\ avg_entry \in Nat /\ realized_pnl \in Int /\ cash \in Int
        /\ rounding \in Nat /\ I64Max \in Nat
    BY I64Assumption DEF Accounts, PositionTypeOK
  <1>3. exact /\ FillFits(delta, price)
    BY DEF OnFill, Accounts, PositionTypeOK
  <1>4. Abs(realized_pnl - (cash + qty * avg_entry)) <= rounding
    BY <1>3 DEF Accounts, PnlConserved
  <1>5. qty' = qty + delta /\ cash' = cash - delta * price
    BY DEF OnFill
  <1>6. CASE Increasing(delta)
    <2> DEFINE cost == avg_entry * Abs(qty) + price * Abs(delta)
               n == Abs(qty + delta)
    <2>1. n \in Nat \ {0} /\ qty + delta # 0
      BY <1>1, <1>2, <1>6 DEF Increasing, Signum, Abs
    <2>2. Abs(qty) \in Nat /\ Abs(delta) \in Nat
      BY <1>1, <1>2 DEF Abs
    <2>3. cost \in Nat
      BY <2>2, <1>1, <1>2
    <2>4. Cost(delta, price) = cost /\ OrZero(Cost(delta, price)) = cost
      BY <1>3, <1>6 DEF FillFits, Cost, OrZero
    <2>5. avg_entry' = cost \div n
      BY <2>1, <2>4, <1>6 DEF OnFill, Vwap
    <2>6. realized_pnl' = realized_pnl /\ rounding' = rounding + n - 1
      BY <1>6 DEF OnFill
    <2> HIDE DEF delta
    <2>7. /\ avg_entry' \in Nat
          /\ n * avg_entry' <= cost /\ cost <= n * avg_entry' + n - 1
      <3> HIDE DEF cost, n
      <3> QED BY <2>1, <2>3, <2>5, Division
    <2>8. Signum(qty) = Signum(delta) \/ qty = 0
      BY <1>6 DEF Increasing
    <2>9. Abs(realized_pnl - (cash - delta * price + (qty + delta) * avg_entry'))
            <= Abs(realized_pnl - (cash + qty * avg_entry)) + n - 1
      BY <1>1, <1>2, <2>7, <2>8, IncreaseBalance
    <2>10. Abs(realized_pnl - (cash + qty * avg_entry)) \in Int
           /\ Abs(realized_pnl' - (cash' + qty' * avg_entry')) \in Int
      <3>1. qty * avg_entry \in Int /\ delta * price \in Int
        BY <1>1, <1>2
      <3>2. qty' \in Int /\ cash' \in Int /\ realized_pnl' \in Int
        BY <3>1, <1>1, <1>2, <1>5, <2>6
      <3>3. qty' * avg_entry' \in Int
        BY <3>2, <2>7
      <3>4. \A x \in Int : Abs(x) \in Int
        BY DEF Abs
      <3> QED BY <3>1, <3>2, <3>3, <3>4, <1>2
    <2>11. Abs(realized_pnl' - (cash' + qty' * avg_entry'))
             <= Abs(realized_pnl - (cash + qty * avg_entry)) + n - 1
      BY <2>9, <2>6, <1>5
    <2> HIDE DEF n
    <2> QED BY <1>2, <1>4, <2>1, <2>6, <2>10, <2>11
  <1>7. CASE ~Increasing(delta)
    <2>1. rounding' = rounding
      BY <1>7 DEF OnFill
    <2>2. \/ qty > 0 /\ delta < 0
          \/ qty < 0 /\ delta > 0
      BY <1>1, <1>2, <1>7 DEF Increasing, Signum
    <2>3. realized_pnl' = realized_pnl + (price - avg_entry) * Signum(qty) * Closed(delta)
      BY <1>3, <1>7 DEF OnFill, Realize, FillFits, FillPnl, OrZero
    <2> HIDE DEF delta
    <2>4. CASE Abs(delta) < Abs(qty)
      <3>1. avg_entry' = avg_entry
        BY <2>2, <2>4, <1>1, <1>2, <1>7 DEF OnFill, Signum, Abs, delta
      <3>2. (price - avg_entry) * Signum(qty) * Closed(delta) = (price - avg_entry) * (-delta)
        BY <2>2, <2>4, <1>1, <1>2 DEF Signum, Closed, Abs
      <3>3. realized_pnl' - (cash' + qty' * avg_entry') = realized_pnl - (cash + qty * avg_entry)
        BY <3>1, <3>2, <2>3, <1>5, <1>1, <1>2, ReduceBalance
      <3> QED BY <3>3, <2>1, <1>4
    <2>5. CASE Abs(delta) >= Abs(qty)
      <3>1. qty' * avg_entry' = (qty + delta) * price
        BY <2>2, <2>5, <1>1, <1>2, <1>7 DEF OnFill, Signum, Abs, delta
      <3>2. (price - avg_entry) * Signum(qty) * Closed(delta) = (price - avg_entry) * qty
        BY <2>2, <2>5, <1>1, <1>2 DEF Signum, Closed, Abs
      <3>3. realized_pnl' - (cash' + qty' * avg_entry') = realized_pnl - (cash + qty * avg_entry)
        BY <3>1, <3>2, <2>3, <1>5, <1>1, <1>2, CloseBalance
      <3> QED BY <3>3, <2>1, <1>4
    <2> QED BY <2>4, <2>5, <1>1, <1>2 DEF Abs
  <1> QED BY <1>6, <1>7

-----------------------------------------------------------------------------
(* The strategy and the venue *)

\* Taking a report out of a queue leaves a queue of reports.
LEMMA RemovalType ==
    ASSUME NEW S, NEW seq \in Seq(S), NEW k \in DOMAIN seq
    PROVE  RemoveAt(seq, k) \in Seq(S) /\ seq[k] \in S
  <1>1. k \in 1 .. Len(seq) /\ Len(seq) \in Nat
    OBVIOUS
  <1>2. SubSeq(seq, 1, k - 1) \in Seq(S)
    BY <1>1, SubSeqProperties
  <1>3. SubSeq(seq, k + 1, Len(seq)) \in Seq(S)
    BY <1>1, SubSeqProperties
  <1>4. SubSeq(seq, 1, k - 1) \o SubSeq(seq, k + 1, Len(seq)) \in Seq(S)
    BY <1>2, <1>3, ConcatProperties
  <1> QED BY <1>1, <1>4, ElementOfSeq DEF RemoveAt

\* Only well-formed reports are ever under way.
LEMMA TrafficStep == Traffic /\ [Next]_vars => Traffic'
  <1> SUFFICES ASSUME Traffic, [Next]_vars PROVE Traffic'
    OBVIOUS
  <1> DEFINE Message == FillReport \cup OtherReport
  <1>1. CASE UNCHANGED vars
    BY <1>1 DEF vars, Traffic
  <1>2. ASSUME NEW id \in OrderIds, NEW side \in Sides, NEW lots \in 1 .. MaxQty,
               Post(id, side, lots)
        PROVE  Traffic'
    BY <1>2, OrdersAssumption DEF Post, Traffic
  <1>3. ASSUME NEW id \in OrderIds, NEW k \in DOMAIN reports[id], Deliver(id, k)
        PROVE  Traffic'
    <2>1. RemoveAt(reports[id], k) \in Seq(Message)
      BY RemovalType DEF Traffic
    <2> QED BY <1>3, <2>1 DEF Deliver, Traffic
  <1>4. ASSUME NEW id \in OrderIds, NEW m \in Message,
               reports' = [reports EXCEPT ![id] = Append(@, m)]
        PROVE  reports' \in [OrderIds -> Seq(Message)]
    <2>1. Append(reports[id], m) \in Seq(Message)
      BY AppendProperties DEF Traffic
    <2> QED BY <1>4, <2>1 DEF Traffic
  <1>5. ASSUME NEW id \in OrderIds, Accept(id) \/ Reject(id) \/ Cancel(id)
        PROVE  Traffic'
    <2>1. \A kind \in {"Ack", "Reject", "Cancelled"} :
              [kind |-> kind, lots |-> 0, price |-> 0, left |-> venue[id].left - 0] \in Message
      BY OrdersAssumption DEF OtherReport, Traffic
    <2>2. reports' \in [OrderIds -> Seq(Message)]
      BY <1>4, <1>5, <2>1 DEF Accept, Reject, Cancel, Report
    <2> QED BY ZenonT(30), <1>5, <2>2 DEF Accept, Reject, Cancel, Traffic
  <1>6. ASSUME NEW id \in OrderIds, NEW lots \in 1 .. MaxQty, NEW price \in Prices,
               Execute(id, lots, price)
        PROVE  Traffic'
    <2>1. venue[id].left - lots \in 0 .. MaxQty
      BY <1>6, OrdersAssumption DEF Execute, Traffic
    <2>2. [kind |-> "Fill", lots |-> lots, price |-> price,
           left |-> venue[id].left - lots] \in Message
      BY <2>1, OrdersAssumption DEF FillReport
    <2>3. reports' \in [OrderIds -> Seq(Message)]
      BY <1>4, <1>6, <2>2 DEF Execute, Report
    <2> QED BY <1>6, <2>1, <2>3 DEF Execute, Traffic
  <1> QED BY <1>1, <1>2, <1>3, <1>5, <1>6 DEF Next

\* Only the delivery of a fill touches the position.
LEMMA AccountsStep == Traffic /\ Accounts /\ [Next]_vars => Accounts'
  <1> SUFFICES ASSUME Traffic, Accounts, [Next]_vars PROVE Accounts'
    OBVIOUS
  <1>1. CASE UNCHANGED positionVars
    BY <1>1 DEF positionVars, Accounts, PositionTypeOK, PnlConserved
  <1>2. ASSUME NEW id \in OrderIds, NEW k \in DOMAIN reports[id], Deliver(id, k)
        PROVE  Accounts'
    <2> DEFINE r == reports[id][k]
    <2>1. r \in FillReport \cup OtherReport
      BY RemovalType DEF Traffic
    <2>2. CASE r.kind = "Fill"
      <3>1. r.lots \in Nat \ {0} /\ r.price \in 0 .. I64Max /\ venue[id].side \in Sides
        BY <2>1, <2>2 DEF FillReport, OtherReport, Traffic
      <3>2. OnFill(venue[id].side, r.lots, r.price)
        BY <1>2, <2>2 DEF Deliver
      <3> QED BY <3>1, <3>2, FillTypes, FillConserves DEF Accounts
    <2>3. CASE r.kind # "Fill"
      BY <1>1, <1>2, <2>3 DEF Deliver
    <2> QED BY <2>2, <2>3
  <1> QED BY <1>1, <1>2 DEF Next, vars, Post, Accept, Reject, Cancel, Execute

\* Nothing is held and nothing is reported at the start.
LEMMA FirstAccounts == Init => Traffic /\ Accounts
  <1> SUFFICES ASSUME Init PROVE Traffic /\ Accounts
    OBVIOUS
  <1>1. <<>> \in Seq(FillReport \cup OtherReport)
    OBVIOUS
  <1>2. NotSent \in [status: {"unsent", "sent", "resting", "done"},
                     side: Sides, left: 0 .. MaxQty]
    BY OrdersAssumption DEF NotSent, Sides
  <1>3. Traffic
    BY <1>1, <1>2 DEF Init, Traffic
  <1>4. Accounts
    BY I64Assumption DEF Init, PositionInit, Accounts, PositionTypeOK, PnlConserved, Abs
  <1> QED BY <1>3, <1>4

\* Spec => []PnlConserved: the realized PnL, the cash flow and the cost of
\* the position held agree up to the VWAP's truncation, for any number of
\* orders, slots, sizes and prices, whether reports arrive in order or not.
THEOREM PnlIsConserved == Spec => []PnlConserved
  <1>1. Init => Traffic /\ Accounts
    BY FirstAccounts
  <1>2. Traffic /\ Accounts /\ [Next]_vars => (Traffic /\ Accounts)'
    BY TrafficStep, AccountsStep
  <1>3. Accounts => PnlConserved
    BY DEF Accounts
  <1> QED BY <1>1, <1>2, <1>3, PTL DEF Spec

-----------------------------------------------------------------------------
(* The trail of one order's reports *)

Message == FillReport \cup OtherReport

\* The report after which the venue does nothing more with the order.
Ends(r) == r.kind \in {"Reject", "Cancelled"} \/ (r.kind = "Fill" /\ r.left = 0)

\* The reports rs under way of an order that the venue holds with left lots:
\* each continues where the one before it stopped, and the last is the final
\* one just when the order is no longer open.
Trail(rs, open, left) ==
    /\ \A k \in 1 .. Len(rs) : Ends(rs[k]) <=> (k = Len(rs) /\ ~open)
    /\ \A k \in 1 .. Len(rs) - 1 : rs[k].left = rs[k + 1].lots + rs[k + 1].left
    /\ \A k \in 1 .. Len(rs) : rs[k].left >= left
    /\ rs # <<>> => rs[Len(rs)].left = left

\* What the order had left before the reports under way.
Ahead(rs, left) == IF rs = <<>> THEN left ELSE rs[1].lots + rs[1].left

\* The quantities of a report are naturals.
LEMMA MessageNumbers == \A m \in Message : m.lots \in Nat /\ m.left \in Nat
  BY DEF Message, FillReport, OtherReport

\* The venue reports its next step.
LEMMA TrailAppend ==
    ASSUME NEW rs \in Seq(Message), NEW m \in Message, NEW left \in Nat,
           NEW open \in BOOLEAN, Trail(rs, TRUE, left),
           m.lots + m.left = left, Ends(m) <=> ~open
    PROVE  /\ Trail(Append(rs, m), open, m.left)
           /\ Ahead(Append(rs, m), m.left) = Ahead(rs, left)
           /\ Append(rs, m) # <<>>
  <1> DEFINE q == Append(rs, m)  n == Len(rs)
  <1>1. n \in Nat /\ Len(q) = n + 1 /\ q \in Seq(Message) /\ q # <<>>
        /\ q[n + 1] = m /\ \A k \in 1 .. n : q[k] = rs[k] /\ rs[k] \in Message
    BY AppendProperties, ElementOfSeq
  <1>2. rs = <<>> <=> n = 0
    BY EmptySeq
  <1>3. m.lots \in Nat /\ m.left \in Nat /\ \A k \in 1 .. n : rs[k].left \in Nat
    BY <1>1, MessageNumbers
  <1> HIDE DEF q, n
  <1>4. \A k \in 1 .. n + 1 : Ends(q[k]) <=> (k = n + 1 /\ ~open)
    BY <1>1 DEF Trail, n
  <1>5. \A k \in 1 .. n : q[k].left = q[k + 1].lots + q[k + 1].left
    <2> SUFFICES ASSUME NEW k \in 1 .. n PROVE q[k].left = q[k + 1].lots + q[k + 1].left
      OBVIOUS
    <2>1. CASE k = n
      BY <2>1, <1>1, <1>2 DEF Trail, n
    <2>2. CASE k # n
      <3>1. k \in 1 .. n - 1 /\ k + 1 \in 1 .. n
        BY <2>2, <1>1
      <3> QED BY <3>1, <1>1 DEF Trail, n
    <2> QED BY <2>1, <2>2
  <1>6. \A k \in 1 .. n + 1 : q[k].left >= m.left
    <2> SUFFICES ASSUME NEW k \in 1 .. n + 1 PROVE q[k].left >= m.left
      OBVIOUS
    <2>1. CASE k = n + 1
      BY <2>1, <1>1, <1>3
    <2>2. CASE k \in 1 .. n
      BY <2>2, <1>1, <1>3 DEF Trail, n
    <2> QED BY <2>1, <2>2, <1>1
  <1>7. n + 1 - 1 = n
    BY <1>1
  <1>8. Trail(q, open, m.left)
    BY <1>1, <1>4, <1>5, <1>6, <1>7 DEF Trail
  <1>9. Ahead(q, m.left) = Ahead(rs, left)
    BY <1>1, <1>2 DEF Ahead
  <1> QED BY <1>1, <1>8, <1>9 DEF q

\* Taking the first element away shifts the others.
LEMMA OldestRemoved ==
    ASSUME NEW S, NEW rs \in Seq(S), rs # <<>>
    PROVE  /\ RemoveAt(rs, 1) \in Seq(S) /\ Len(RemoveAt(rs, 1)) = Len(rs) - 1
           /\ Len(rs) >= 1 /\ rs[1] \in S
           /\ \A k \in 1 .. Len(rs) - 1 : RemoveAt(rs, 1)[k] = rs[k + 1]
  <1>1. Len(rs) \in Nat /\ Len(rs) >= 1
    BY EmptySeq
  <1> DEFINE head == SubSeq(rs, 1, 0)  tail == SubSeq(rs, 2, Len(rs))
  <1>2. RemoveAt(rs, 1) = head \o tail
    BY DEF RemoveAt
  <1>3. head = <<>>
    BY <1>1
  <1>4. tail \in Seq(S) /\ Len(tail) = Len(rs) - 1
        /\ \A k \in 1 .. Len(rs) - 1 : tail[k] = rs[k + 1]
    <2>1. \A i \in 2 .. Len(rs) : rs[i] \in S
      BY ElementOfSeq
    <2>2. /\ tail \in Seq(S)
          /\ Len(tail) = IF 2 <= Len(rs) THEN Len(rs) - 2 + 1 ELSE 0
          /\ \A k \in 1 .. Len(rs) - 2 + 1 : tail[k] = rs[2 + k - 1]
      BY <1>1, <2>1, SubSeqProperties
    <2> HIDE DEF tail
    <2>3. Len(tail) = Len(rs) - 1 /\ Len(rs) - 2 + 1 = Len(rs) - 1
      <3> DEFINE n == Len(rs)  l == Len(tail)
      <3>1. n \in Nat /\ n >= 1 /\ l = IF 2 <= n THEN n - 2 + 1 ELSE 0
        BY <1>1, <2>2, Zenon
      <3> HIDE DEF n, l
      <3>2. l = n - 1 /\ n - 2 + 1 = n - 1
        BY <3>1
      <3> QED BY <3>2 DEF n, l
    <2>4. \A k \in 1 .. Len(rs) - 1 : 2 + k - 1 = k + 1
      OBVIOUS
    <2>5. \A k \in 1 .. Len(rs) - 1 : tail[k] = rs[k + 1]
      BY <2>2, <2>3, <2>4, Zenon
    <2> QED BY <2>2, <2>3, <2>5
  <1>5. head \o tail = tail
    BY <1>3, <1>4, ConcatEmptySeq
  <1>6. rs[1] \in S
    BY <1>1, ElementOfSeq
  <1> QED BY <1>1, <1>2, <1>4, <1>5, <1>6

\* The strategy takes the oldest report.
LEMMA TrailRemove ==
    ASSUME NEW rs \in Seq(Message), rs # <<>>, NEW left \in Nat, NEW open \in BOOLEAN,
           Trail(rs, open, left)
    PROVE  /\ Trail(RemoveAt(rs, 1), open, left)
           /\ Ahead(RemoveAt(rs, 1), left) = rs[1].left
           /\ Ends(rs[1]) <=> (RemoveAt(rs, 1) = <<>> /\ ~open)
           /\ rs[1] \in Message
  <1> DEFINE q == RemoveAt(rs, 1)  n == Len(rs)
  <1>1. /\ n \in Nat /\ n >= 1 /\ q \in Seq(Message) /\ Len(q) = n - 1 /\ rs[1] \in Message
        /\ \A k \in 1 .. n - 1 : q[k] = rs[k + 1]
    BY OldestRemoved
  <1>2. q = <<>> <=> n = 1
    BY <1>1, EmptySeq
  <1> HIDE DEF q, n
  <1>3. \A k \in 1 .. n - 1 : k + 1 \in 1 .. n
    BY <1>1
  <1>4. \A k \in 1 .. Len(q) : Ends(q[k]) <=> (k = Len(q) /\ ~open)
    BY <1>1, <1>3 DEF Trail, n
  <1>5. \A k \in 1 .. Len(q) - 1 : q[k].left = q[k + 1].lots + q[k + 1].left
    <2> SUFFICES ASSUME NEW k \in 1 .. Len(q) - 1
                 PROVE  q[k].left = q[k + 1].lots + q[k + 1].left
      OBVIOUS
    <2>1. k \in 1 .. n - 1 /\ k + 1 \in 1 .. n - 1
      BY <1>1
    <2> QED BY <2>1, <1>1 DEF Trail, n
  <1>6. \A k \in 1 .. Len(q) : q[k].left >= left
    BY <1>1, <1>3 DEF Trail, n
  <1>7. q # <<>> => q[Len(q)].left = left
    <2> SUFFICES ASSUME q # <<>> PROVE q[Len(q)].left = left
      OBVIOUS
    <2>1. n - 1 \in 1 .. n - 1 /\ (n - 1) + 1 = n
      BY <1>1, <1>2
    <2>2. q[n - 1] = rs[n]
      BY <2>1, <1>1
    <2> QED BY <2>2, <1>1 DEF Trail, n
  <1>8. Ahead(q, left) = rs[1].left
    <2>1. CASE n = 1
      BY <2>1, <1>2 DEF Ahead, Trail, n
    <2>2. CASE n # 1
      <3>1. 1 \in 1 .. n - 1 /\ 1 + 1 = 2
        BY <2>2, <1>1
      <3> QED BY <3>1, <2>2, <1>1, <1>2 DEF Ahead, Trail, n
    <2> QED BY <2>1, <2>2
  <1>9. Ends(rs[1]) <=> (q = <<>> /\ ~open)
    <2>1. 1 \in 1 .. n
      BY <1>1
    <2> QED BY <2>1, <1>2 DEF Trail, n
  <1>10. Trail(q, open, left)
    BY <1>4, <1>5, <1>6, <1>7 DEF Trail
  <1> QED BY <1>1, <1>8, <1>9, <1>10 DEF q

-----------------------------------------------------------------------------
(* The tracker *)

VenueOrder == [status: {"unsent", "sent", "resting", "done"}, side: Sides, left: 0 .. MaxQty]

\* The venue can still fill the order or a report on it is under way.
InPlay(id) == Open(id) \/ reports[id] # <<>>

\* The lots the order had left before the reports under way.
Before(id) == Ahead(reports[id], venue[id].left)

\* What the venue has said about each order.
Reported ==
    \A id \in OrderIds :
        /\ Trail(reports[id], Open(id), venue[id].left)
        /\ Open(id) => venue[id].left > 0
        /\ venue[id].status \in {"unsent", "sent"} => reports[id] = <<>>
        /\ venue[id].status = "unsent" => venue[id] = NotSent

\* What the slots know: each sent order has one slot at most, and exactly the
\* orders in play have an active one, which is up to date but for the reports
\* under way.
Tracked ==
    /\ \A s \in Slots : orders[s].id # 0 =>
          /\ venue[orders[s].id].status # "unsent"
          /\ venue[orders[s].id].side = orders[s].side
          /\ \A t \in Slots : orders[t].id = orders[s].id => t = s
    /\ \A s \in Slots : IsActive(orders[s]) =>
          InPlay(orders[s].id) /\ RemainingQty(orders[s]) = Before(orders[s].id)
    /\ \A id \in OrderIds : InPlay(id) =>
          \E s \in Slots : orders[s].id = id /\ IsActive(orders[s])

SlotTypes == orders \in [Slots -> Order \cup {NoOrder}]

Tracker == SlotTypes /\ Traffic /\ Reported /\ Tracked /\ CountExact

\* A slot that is active holds an order with an id.
LEMMA SlotFacts ==
    ASSUME SlotTypes
    PROVE  \A s \in Slots :
               /\ orders[s].id \in OrderIds \cup {0}
               /\ orders[s].id = 0 <=> orders[s] = NoOrder
               /\ orders[s].id # 0 => orders[s] \in Order
               /\ IsActive(orders[s]) => orders[s].id \in OrderIds /\ orders[s] \in Order
  <1> SUFFICES ASSUME NEW s \in Slots
               PROVE  /\ orders[s].id \in OrderIds \cup {0}
                      /\ orders[s].id = 0 <=> orders[s] = NoOrder
                      /\ orders[s].id # 0 => orders[s] \in Order
                      /\ IsActive(orders[s]) => orders[s].id \in OrderIds /\ orders[s] \in Order
    OBVIOUS
  <1>1. CASE orders[s] = NoOrder
    BY <1>1 DEF NoOrder, IsActive
  <1>2. CASE orders[s] \in Order
    <2>1. orders[s].id \in OrderIds
      BY <1>2 DEF Order
    <2>2. 0 \notin OrderIds /\ NoOrder.id = 0
      BY OrdersAssumption DEF OrderIds, NoOrder
    <2> QED BY <1>2, <2>1, <2>2, Zenon
  <1> QED BY <1>1, <1>2 DEF SlotTypes

\* The slots and the ids are finitely many.
LEMMA SlotsFinite ==
    /\ IsFiniteSet(Slots) /\ Cardinality(Slots) = MaxTracked
    /\ IsFiniteSet(OrderIds)
    /\ \A S \in SUBSET Slots : IsFiniteSet(S) /\ Cardinality(S) \in 0 .. MaxTracked
  <1>1. IsFiniteSet(Slots) /\ Cardinality(Slots) = MaxTracked
    <2>1. MaxTracked \in Nat /\ 1 \in Int /\ 1 <= MaxTracked
      BY OrdersAssumption
    <2> QED BY <2>1, FS_Interval DEF Slots
  <1>2. IsFiniteSet(OrderIds)
    BY OrdersAssumption, FS_Interval DEF OrderIds
  <1>3. ASSUME NEW S \in SUBSET Slots
        PROVE  IsFiniteSet(S) /\ Cardinality(S) \in 0 .. MaxTracked
    <2>1. IsFiniteSet(S) /\ Cardinality(S) <= MaxTracked
      BY <1>1, FS_Subset
    <2> QED BY <2>1, FS_CardinalityType, OrdersAssumption
  <1> QED BY <1>1, <1>2, <1>3

\* A step of the venue on an open order: it reports m and holds the order as
\* v from then on.
VenueMoves(id, m, v) ==
    /\ Open(id) /\ v.status \in {"resting", "done"} /\ v.side = venue[id].side
    /\ m.lots + m.left = venue[id].left /\ v.left = m.left
    /\ Ends(m) <=> v.status = "done"
    /\ v.status = "resting" => v.left > 0
    /\ venue' = [venue EXCEPT ![id] = v]
    /\ reports' = [reports EXCEPT ![id] = Append(@, m)]
    /\ net' = net + Signed(venue[id].side, m.lots)
    /\ UNCHANGED <<orders, active_count, positionVars>>

\* Each action of the venue is such a step.
LEMMA VenueActions ==
    ASSUME Tracker, net \in Int, NEW id \in OrderIds,
           \/ Accept(id) \/ Reject(id) \/ Cancel(id)
           \/ \E lots \in 1 .. MaxQty, price \in Prices : Execute(id, lots, price)
    PROVE  \E m \in Message, v \in VenueOrder : VenueMoves(id, m, v)
  <1>1. /\ venue \in [OrderIds -> VenueOrder] /\ venue[id] \in VenueOrder
        /\ venue[id].left \in 0 .. MaxQty /\ MaxQty \in Nat /\ venue[id].side \in Sides
    BY OrdersAssumption DEF Tracker, Traffic, VenueOrder
  <1>2. ASSUME NEW kind \in {"Ack", "Reject", "Cancelled"}, NEW status \in {"resting", "done"},
               status = "done" <=> kind # "Ack", Open(id),
               venue' = [venue EXCEPT ![id].status = status],
               Report(id, kind, 0, 0), net' = net,
               UNCHANGED <<orders, active_count, positionVars>>
        PROVE  \E m \in Message, v \in VenueOrder : VenueMoves(id, m, v)
    <2> DEFINE m == [kind |-> kind, lots |-> 0, price |-> 0, left |-> venue[id].left - 0]
               v == [status |-> status, side |-> venue[id].side, left |-> venue[id].left]
    <2>1. m \in Message /\ v \in VenueOrder
      BY <1>1 DEF Message, OtherReport, VenueOrder
    <2>2. m.lots + m.left = venue[id].left /\ v.left = m.left /\ v.side = venue[id].side
          /\ v.status = status
      BY <1>1
    <2>3. Ends(m) <=> status = "done"
      BY <1>2 DEF Ends
    <2>4. v.status = "resting" => v.left > 0
      BY <1>2 DEF Tracker, Reported
    <2>5. venue' = [venue EXCEPT ![id] = v]
      <3>1. [venue[id] EXCEPT !.status = status] = v
        BY <1>1 DEF VenueOrder
      <3> HIDE DEF v
      <3> QED BY <1>2, <3>1, Zenon
    <2>6. reports' = [reports EXCEPT ![id] = Append(@, m)]
      BY <1>2 DEF Report
    <2>7. net' = net + Signed(venue[id].side, m.lots)
      BY <1>2 DEF Signed
    <2> HIDE DEF m, v
    <2>8. VenueMoves(id, m, v)
      BY <1>2, <2>2, <2>3, <2>4, <2>5, <2>6, <2>7 DEF VenueMoves
    <2> QED BY <2>1, <2>8
  <1>3. CASE Accept(id)
    BY <1>2, <1>3 DEF Accept, Open
  <1>4. CASE Reject(id)
    BY <1>2, <1>4 DEF Reject, Open
  <1>5. CASE Cancel(id)
    BY <1>2, <1>5 DEF Cancel, Open
  <1>6. ASSUME NEW lots \in 1 .. MaxQty, NEW price \in Prices, Execute(id, lots, price)
        PROVE  \E m \in Message, v \in VenueOrder : VenueMoves(id, m, v)
    <2> DEFINE m == [kind |-> "Fill", lots |-> lots, price |-> price,
                     left |-> venue[id].left - lots]
               v == [status |-> IF venue[id].left = lots THEN "done" ELSE "resting",
                     side |-> venue[id].side, left |-> venue[id].left - lots]
    <2>1. venue[id].left - lots \in 0 .. MaxQty /\ Open(id) /\ lots \in Nat \ {0}
          /\ venue[id].status = "resting"
      <3>1. venue[id].status = "resting" /\ lots \in 1 .. venue[id].left
        BY <1>6, Zenon DEF Execute
      <3> QED BY <3>1, <1>1 DEF Open
    <2>2. m \in Message /\ v \in VenueOrder
      BY <1>1, <2>1, OrdersAssumption DEF Message, FillReport, VenueOrder
    <2>3. m.lots + m.left = venue[id].left /\ v.left = m.left /\ v.side = venue[id].side
          /\ v.status \in {"resting", "done"}
      BY <1>1, <2>1
    <2>4. Ends(m) <=> v.status = "done"
      BY <1>1, <2>1 DEF Ends
    <2>5. v.status = "resting" => v.left > 0
      BY <1>1, <2>1
    <2>6. venue' = [venue EXCEPT ![id] = v]
      BY <1>6 DEF Execute
    <2>7. reports' = [reports EXCEPT ![id] = Append(@, m)]
      BY <1>6 DEF Report, Execute
    <2>8. net' = net + Signed(venue[id].side, m.lots)
      BY <1>6 DEF Execute
    <2> HIDE DEF m, v
    <2>9. VenueMoves(id, m, v)
      BY <1>6, <2>1, <2>3, <2>4, <2>5, <2>6, <2>7, <2>8 DEF VenueMoves, Execute
    <2> QED BY <2>2, <2>9
  <1> QED BY <1>3, <1>4, <1>5, <1>6

\* Such a step leaves alone what is in play and what the slots still have to
\* learn.
LEMMA VenueStep ==
    ASSUME Tracker, NEW id \in OrderIds, NEW m \in Message, NEW v \in VenueOrder,
           VenueMoves(id, m, v)
    PROVE  Reported' /\ Tracked' /\ CountExact'
           /\ \A i \in OrderIds : InPlay(i)' = InPlay(i) /\ Before(i)' = Before(i)
  <1> USE DEF VenueMoves
  <1>1. /\ venue \in [OrderIds -> VenueOrder] /\ reports \in [OrderIds -> Seq(Message)]
        /\ venue' \in [OrderIds -> VenueOrder] /\ venue'[id] = v
        /\ reports'[id] = Append(reports[id], m)
        /\ \A i \in OrderIds \ {id} : venue'[i] = venue[i] /\ reports'[i] = reports[i]
    BY DEF Tracker, Traffic, VenueOrder, Message
  <1>2. Open(id)' <=> v.status = "resting"
    BY <1>1 DEF Open
  <1>3. venue[id].left \in Nat
    BY <1>1, OrdersAssumption DEF VenueOrder
  <1>4. /\ Trail(reports'[id], Open(id)', v.left) /\ reports'[id] # <<>>
        /\ Ahead(reports'[id], v.left) = Ahead(reports[id], venue[id].left)
    <2>1. Trail(reports[id], TRUE, venue[id].left)
      BY DEF Tracker, Reported, Trail
    <2>3. reports[id] \in Seq(Message)
      BY <1>1
    <2> DEFINE open == v.status = "resting"
    <2>4. open \in BOOLEAN /\ (Ends(m) <=> ~open)
      OBVIOUS
    <2> HIDE DEF open
    <2>5. /\ Trail(Append(reports[id], m), open, m.left)
          /\ Ahead(Append(reports[id], m), m.left) = Ahead(reports[id], venue[id].left)
          /\ Append(reports[id], m) # <<>>
      BY <1>3, <2>1, <2>3, <2>4, TrailAppend
    <2> QED BY <1>1, <1>2, <2>5 DEF Trail, open
  <1>5. \A i \in OrderIds : InPlay(i)' = InPlay(i) /\ Before(i)' = Before(i)
                            /\ venue'[i].side = venue[i].side
                            /\ (venue'[i].status = "unsent" <=> venue[i].status = "unsent")
    <2> SUFFICES ASSUME NEW i \in OrderIds
                 PROVE  InPlay(i)' = InPlay(i) /\ Before(i)' = Before(i)
                        /\ venue'[i].side = venue[i].side
                        /\ (venue'[i].status = "unsent" <=> venue[i].status = "unsent")
      OBVIOUS
    <2>1. CASE i = id
      BY <2>1, <1>1, <1>4 DEF InPlay, Before, Open
    <2>2. CASE i # id
      BY <2>2, <1>1 DEF InPlay, Before, Open
    <2> QED BY <2>1, <2>2
  <1>6. Reported'
    <2> SUFFICES ASSUME NEW i \in OrderIds
                 PROVE  /\ Trail(reports[i], Open(i), venue[i].left)'
                        /\ (Open(i) => venue[i].left > 0)'
                        /\ (venue[i].status \in {"unsent", "sent"} => reports[i] = <<>>)'
                        /\ (venue[i].status = "unsent" => venue[i] = NotSent)'
      BY DEF Reported
    <2>1. CASE i = id
      BY <2>1, <1>1, <1>2, <1>4
    <2>2. CASE i # id
      <3>1. venue'[i] = venue[i] /\ reports'[i] = reports[i] /\ Open(i)' = Open(i)
        BY <2>2, <1>1 DEF Open
      <3> QED BY <3>1 DEF Tracker, Reported
    <2> QED BY <2>1, <2>2
  <1>7. Tracked'
    <2>1. \A s \in Slots : orders[s].id # 0 => orders[s].id \in OrderIds
      BY SlotFacts DEF Tracker
    <2>2. \A s \in Slots : IsActive(orders[s]) => orders[s].id \in OrderIds
      BY SlotFacts DEF Tracker
    <2>3. orders' = orders
      OBVIOUS
    <2> QED BY <1>5, <2>1, <2>2, <2>3 DEF Tracker, Tracked
  <1>8. CountExact'
    BY DEF Tracker, CountExact
  <1> QED BY <1>5, <1>6, <1>7, <1>8

\* What the tracker makes of the oldest report r of an order: the order's one
\* slot s holds o from then on, which is active unless r is the final report.
Learned(id, r, s, o) ==
    /\ orders[s].id = id /\ IsActive(orders[s])
    /\ o \in Order /\ o.id = id /\ o.side = orders[s].side
    /\ IsActive(o) <=> ~Ends(r)
    /\ IsActive(o) => RemainingQty(o) = r.left
    /\ orders' = [orders EXCEPT ![s] = o]
    /\ active_count' = IF Ends(r) THEN active_count - 1 ELSE active_count

\* A report delivered in order is the first one under way, and changes the slot of
\* its order in one of the ways of Learned.
LEMMA DeliveryLearned ==
    ASSUME Tracker, InOrder, NEW id \in OrderIds, NEW k \in DOMAIN reports[id], Deliver(id, k)
    PROVE  /\ k = 1 /\ reports[id] # <<>> /\ reports[id][1] \in Message
           /\ \E s \in Slots, o \in Order : Learned(id, reports[id][1], s, o)
  <1> DEFINE r == reports[id][1]
  <1>1. k = 1 /\ reports[id] # <<>> /\ reports[id] \in Seq(Message)
    BY DEF Deliver, Tracker, Traffic, Message
  <1>2. r \in Message
    BY <1>1, RemovalType
  <1>3. InPlay(id)
    BY <1>1 DEF InPlay
  <1>4. PICK s \in Slots : orders[s].id = id /\ IsActive(orders[s])
    BY <1>3 DEF Tracker, Tracked
  <1>5. id # 0 /\ id \in Nat
    BY OrdersAssumption DEF OrderIds
  <1>6. Holding(id) = {s}
    BY <1>4, <1>5 DEF Holding, Tracker, Tracked
  <1>7. Min(Holding(id)) = s
    <2>1. s \in Int
      BY DEF Slots
    <2> QED BY <1>6, <2>1, MinOfOne
  <1>8. orders[s] \in Order
    BY <1>4, SlotFacts DEF Tracker
  <1>9. RemainingQty(orders[s]) = r.lots + r.left
    BY <1>1, <1>4 DEF Tracker, Tracked, Before, Ahead
  <1>10. active_count \in Nat /\ active_count > 0
    <2>1. s \in {t \in Slots : IsActive(orders[t])}
      BY <1>4
    <2>2. IsFiniteSet({t \in Slots : IsActive(orders[t])})
      BY SlotsFinite
    <2> QED BY <2>1, <2>2, FS_EmptySet, FS_CardinalityType DEF Tracker, CountExact
  <1>11. Track(id, r)
    BY <1>1 DEF Deliver
  <1>12. OneLess(active_count) = active_count - 1
    BY <1>10 DEF OneLess
  <1>13. /\ orders[s].original_qty \in Nat /\ orders[s].filled_qty \in Nat
         /\ orders[s].original_qty <= MaxQty /\ MaxQty \in Nat
    BY <1>8, OrdersAssumption DEF Order
  <1>14. ASSUME NEW st \in {"Live", "Rejected", "Cancelled"}, r.lots = 0,
                Ends(r) <=> st # "Live", r.left \in Nat,
                orders' = [orders EXCEPT ![s].state = st],
                active_count' = IF st = "Live" THEN active_count ELSE active_count - 1
         PROVE  \E o \in Order : Learned(id, r, s, o)
    <2> DEFINE o == [orders[s] EXCEPT !.state = st]
    <2>1. o \in Order /\ o.id = id /\ o.side = orders[s].side /\ o.state = st
          /\ o.original_qty = orders[s].original_qty /\ o.filled_qty = orders[s].filled_qty
      BY <1>4, <1>8 DEF Order
    <2>2. orders' = [orders EXCEPT ![s] = o]
      BY <1>14
    <2> HIDE DEF o
    <2>3. RemainingQty(o) = r.left
      BY <2>1, <1>9, <1>14 DEF RemainingQty
    <2>4. IsActive(o) <=> ~Ends(r)
      BY <2>1, <1>14 DEF IsActive
    <2>5. Learned(id, r, s, o)
      BY <2>1, <2>2, <2>3, <2>4, <1>4, <1>14 DEF Learned
    <2> QED BY <2>1, <2>5
  <1>15. CASE r.kind = "Ack"
    <2>1. r.lots = 0 /\ r.left \in Nat /\ ~Ends(r)
      BY <1>2, <1>15 DEF Message, FillReport, OtherReport, Ends
    <2>2. OnAck(s)
      BY <1>6, <1>7, <1>11, <1>15 DEF Track
    <2>3. \E o \in Order : Learned(id, r, s, o)
      BY <2>1, <2>2, <1>14 DEF OnAck
    <2> QED BY <1>1, <1>2, <2>3
  <1>16. CASE r.kind = "Reject"
    <2>1. r.lots = 0 /\ r.left \in Nat /\ Ends(r)
      BY <1>2, <1>16 DEF Message, FillReport, OtherReport, Ends
    <2>2. OnEnd(s, "Rejected")
      BY <1>6, <1>7, <1>11, <1>16 DEF Track
    <2>3. \E o \in Order : Learned(id, r, s, o)
      BY <2>1, <2>2, <1>12, <1>14 DEF OnEnd
    <2> QED BY <1>1, <1>2, <2>3
  <1>17. CASE r.kind = "Cancelled"
    <2>1. r.lots = 0 /\ r.left \in Nat /\ Ends(r)
      BY <1>2, <1>17 DEF Message, FillReport, OtherReport, Ends
    <2>2. OnEnd(s, "Cancelled")
      BY <1>6, <1>7, <1>11, <1>17 DEF Track
    <2>3. \E o \in Order : Learned(id, r, s, o)
      BY <2>1, <2>2, <1>12, <1>14 DEF OnEnd
    <2> QED BY <1>1, <1>2, <2>3
  <1>18. CASE r.kind = "Fill"
    <2>1. r.lots \in Nat \ {0} /\ r.left \in Nat /\ (Ends(r) <=> r.left = 0)
      BY <1>2, <1>18 DEF Message, FillReport, OtherReport, Ends
    <2>2. OnTrackedFill(s, r.lots)
      BY <1>6, <1>7, <1>11, <1>18 DEF Track
    <2>3. orders[s].original_qty = orders[s].filled_qty + r.lots + r.left
      BY <2>1, <1>9, <1>13 DEF RemainingQty
    <2>4. CASE r.left = 0
      <3> DEFINE o == [orders[s] EXCEPT !.filled_qty = orders[s].original_qty,
                                        !.state = "Filled"]
      <3>1. orders[s].filled_qty + r.lots >= orders[s].original_qty
            /\ ~(orders[s].filled_qty + r.lots < orders[s].original_qty)
        BY <2>1, <2>3, <2>4, <1>13
      <3>2. /\ orders' = [orders EXCEPT ![s].filled_qty = orders[s].original_qty,
                                        ![s].state = "Filled"]
            /\ active_count' = active_count - 1
        BY <2>2, <3>1, <1>4, <1>12, Zenon DEF OnTrackedFill
      <3>3. orders' = [orders EXCEPT ![s] = o]
        BY <3>2
      <3>4. o \in Order /\ o.id = id /\ o.side = orders[s].side /\ o.state = "Filled"
        <4>1. orders[s].original_qty \in 0 .. MaxQty
          BY <1>13
        <4> QED BY <4>1, <1>4, <1>8 DEF Order
      <3> HIDE DEF o
      <3>5. ~IsActive(o) /\ Ends(r)
        BY <2>1, <2>4, <3>4 DEF IsActive
      <3>6. Learned(id, r, s, o)
        BY <3>2, <3>3, <3>4, <3>5, <1>4 DEF Learned
      <3> QED BY <3>4, <3>6, <1>1, <1>2
    <2>5. CASE r.left # 0
      <3> DEFINE o == [orders[s] EXCEPT !.filled_qty = orders[s].filled_qty + r.lots]
      <3>1. orders[s].filled_qty + r.lots < orders[s].original_qty
            /\ ~(orders[s].filled_qty + r.lots >= orders[s].original_qty)
        BY <2>1, <2>3, <2>5, <1>13
      <3>2. /\ orders' = [orders EXCEPT ![s].filled_qty = orders[s].filled_qty + r.lots]
            /\ active_count' = active_count
        BY <2>2, <3>1, <1>4, Zenon DEF OnTrackedFill
      <3>3. orders' = [orders EXCEPT ![s] = o]
        BY <3>2
      <3>4. orders[s].filled_qty + r.lots \in 0 .. MaxQty
        BY <2>1, <3>1, <1>13
      <3>5. o \in Order /\ o.id = id /\ o.side = orders[s].side
            /\ o.state = orders[s].state /\ o.original_qty = orders[s].original_qty
            /\ o.filled_qty = orders[s].filled_qty + r.lots
        BY <1>4, <1>8, <3>4 DEF Order
      <3> HIDE DEF o
      <3>6. IsActive(o) /\ ~Ends(r) /\ RemainingQty(o) = r.left
        BY <2>1, <2>3, <2>5, <3>5, <1>4, <1>13 DEF IsActive, RemainingQty
      <3>7. Learned(id, r, s, o)
        BY <3>2, <3>3, <3>5, <3>6, <1>4 DEF Learned
      <3> QED BY <3>5, <3>7, <1>1, <1>2
    <2> QED BY <2>4, <2>5
  <1> QED BY <1>2, <1>15, <1>16, <1>17, <1>18 DEF Message, FillReport, OtherReport

\* The oldest report of an order has been taken: what the order had left
\* before the remaining ones is what the report said, and the order is out of
\* play if that was the final one.
LEMMA DeliveryEffect ==
    ASSUME Tracker, NEW id \in OrderIds, Deliver(id, 1), reports[id] # <<>>
    PROVE  /\ \A i \in OrderIds \ {id} :
                  InPlay(i)' = InPlay(i) /\ Before(i)' = Before(i) /\ reports'[i] = reports[i]
           /\ InPlay(id)' <=> ~Ends(reports[id][1])
           /\ Before(id)' = reports[id][1].left
           /\ Trail(reports'[id], Open(id), venue[id].left)
  <1>1. /\ reports \in [OrderIds -> Seq(Message)] /\ reports[id] \in Seq(Message)
        /\ venue[id].left \in Nat
    BY OrdersAssumption DEF Tracker, Traffic, Message
  <1>2. /\ reports'[id] = RemoveAt(reports[id], 1) /\ venue' = venue
        /\ \A i \in OrderIds \ {id} : reports'[i] = reports[i]
    BY <1>1 DEF Deliver
  <1>3. Trail(reports[id], Open(id), venue[id].left) /\ Open(id) \in BOOLEAN
    BY DEF Tracker, Reported, Open
  <1>4. /\ Trail(reports'[id], Open(id), venue[id].left)
        /\ Ahead(reports'[id], venue[id].left) = reports[id][1].left
        /\ Ends(reports[id][1]) <=> (reports'[id] = <<>> /\ ~Open(id))
    BY <1>1, <1>2, <1>3, TrailRemove
  <1> QED BY <1>2, <1>4 DEF InPlay, Before, Open

\* Delivering a report keeps the tracker in step with the venue.
LEMMA DeliverStep ==
    ASSUME Tracker, InOrder, NEW id \in OrderIds, NEW k \in DOMAIN reports[id], Deliver(id, k)
    PROVE  SlotTypes' /\ Reported' /\ Tracked' /\ CountExact'
  <1> DEFINE r == reports[id][1]
  <1>1. k = 1 /\ reports[id] # <<>> /\ r \in Message
    BY DeliveryLearned
  <1>2. PICK s \in Slots, o \in Order : Learned(id, r, s, o)
    BY DeliveryLearned
  <1>3. venue' = venue
    BY DEF Deliver
  <1>4. /\ \A i \in OrderIds \ {id} :
               InPlay(i)' = InPlay(i) /\ Before(i)' = Before(i) /\ reports'[i] = reports[i]
        /\ InPlay(id)' <=> ~Ends(r)
        /\ Before(id)' = r.left
        /\ Trail(reports'[id], Open(id), venue[id].left)
    BY <1>1, DeliveryEffect
  <1> HIDE DEF r
  <1>5. /\ orders'[s] = o /\ \A t \in Slots \ {s} : orders'[t] = orders[t]
        /\ orders' \in [Slots -> Order \cup {NoOrder}]
    BY <1>2 DEF Learned, Tracker, SlotTypes
  <1>6. \A t \in Slots : orders'[t].id = orders[t].id /\ orders'[t].side = orders[t].side
    BY <1>2, <1>5 DEF Learned
  <1>7. id # 0
    BY OrdersAssumption DEF OrderIds
  <1>8. \A t \in Slots \ {s} : orders[t].id # id
    BY <1>2, <1>7 DEF Learned, Tracker, Tracked
  <1>9. Reported'
    <2> SUFFICES ASSUME NEW i \in OrderIds
                 PROVE  /\ Trail(reports[i], Open(i), venue[i].left)'
                        /\ (Open(i) => venue[i].left > 0)'
                        /\ (venue[i].status \in {"unsent", "sent"} => reports[i] = <<>>)'
                        /\ (venue[i].status = "unsent" => venue[i] = NotSent)'
      BY DEF Reported
    <2>1. Open(i)' = Open(i)
      BY <1>3 DEF Open
    <2>2. CASE i = id
      <3>1. venue[id].status \notin {"unsent", "sent"}
        BY <1>1 DEF Tracker, Reported
      <3> QED BY <1>3, <1>4, <2>1, <2>2, <3>1 DEF Tracker, Reported
    <2>3. CASE i # id
      BY <1>3, <1>4, <2>1, <2>3 DEF Tracker, Reported
    <2> QED BY <2>2, <2>3
  <1>10. Tracked'
    <2>1. ASSUME NEW t \in Slots, orders'[t].id # 0
          PROVE  /\ venue'[orders'[t].id].status # "unsent"
                 /\ venue'[orders'[t].id].side = orders'[t].side
                 /\ \A u \in Slots : orders'[u].id = orders'[t].id => u = t
      BY <2>1, <1>3, <1>6 DEF Tracker, Tracked
    <2>2. ASSUME NEW t \in Slots, IsActive(orders'[t])
          PROVE  InPlay(orders[t].id)' /\ RemainingQty(orders'[t]) = Before(orders[t].id)'
      <3>1. CASE t = s
        <4>1. orders'[t] = o /\ orders[t].id = id /\ orders'[t].id = id
          BY <3>1, <1>2, <1>5 DEF Learned
        <4> QED BY <4>1, <2>2, <1>2, <1>4 DEF Learned
      <3>2. CASE t # s
        <4>1. orders'[t] = orders[t] /\ orders[t].id # id
          BY <3>2, <1>5, <1>8
        <4>2. orders[t].id \in OrderIds
          BY <4>1, <2>2, SlotFacts DEF Tracker
        <4>3. InPlay(orders[t].id) /\ RemainingQty(orders[t]) = Before(orders[t].id)
          BY <4>1, <2>2 DEF Tracker, Tracked
        <4>4. InPlay(orders[t].id)' /\ Before(orders[t].id)' = Before(orders[t].id)
          <5>1. ASSUME NEW j \in OrderIds \ {id}, j = orders'[t].id, InPlay(j)
                PROVE  InPlay(orders[t].id)' /\ Before(orders[t].id)' = Before(j)
            BY <5>1, <1>4
          <5> QED BY <5>1, <4>1, <4>2, <4>3
        <4> QED BY <4>1, <4>3, <4>4
      <3> QED BY <3>1, <3>2
    <2>3. ASSUME NEW i \in OrderIds, InPlay(i)'
          PROVE  \E t \in Slots : orders'[t].id = i /\ IsActive(orders'[t])
      <3>1. CASE i = id
        <4>1. IsActive(o) /\ o.id = i
          BY <3>1, <2>3, <1>2, <1>4 DEF Learned
        <4> QED BY <4>1, <1>5
      <3>2. CASE i # id
        <4>1. InPlay(i)
          BY <3>2, <2>3, <1>4
        <4>2. PICK t \in Slots : orders[t].id = i /\ IsActive(orders[t])
          BY <4>1 DEF Tracker, Tracked
        <4>3. t # s
          BY <4>2, <3>2, <1>2 DEF Learned
        <4> QED BY <4>2, <4>3, <1>5
      <3> QED BY <3>1, <3>2
    <2> QED BY <2>1, <2>2, <2>3 DEF Tracked
  <1>11. CountExact'
    <2> DEFINE A == {t \in Slots : IsActive(orders[t])}
               B == {t \in Slots : IsActive(orders'[t])}
    <2>1. s \in A /\ IsFiniteSet(A) /\ active_count = Cardinality(A)
      BY <1>2, SlotsFinite DEF Learned, Tracker, CountExact
    <2>2. active_count' = Cardinality(B)
      <3>1. CASE Ends(r)
        <4>1. B = A \ {s}
          BY <3>1, <1>2, <1>5 DEF Learned
        <4>2. Cardinality(A \ {s}) = Cardinality(A) - 1
          BY <2>1, FS_RemoveElement
        <4> QED BY <3>1, <4>1, <4>2, <2>1, <1>2 DEF Learned
      <3>2. CASE ~Ends(r)
        <4>1. B = A
          BY <3>2, <1>2, <1>5 DEF Learned
        <4> QED BY <3>2, <4>1, <2>1, <1>2 DEF Learned
      <3> QED BY <3>1, <3>2
    <2> QED BY <2>2 DEF CountExact
  <1> QED BY <1>5, <1>9, <1>10, <1>11 DEF SlotTypes

\* A new order takes a slot that no order in play needs.
LEMMA PostEffect ==
    ASSUME Tracker, NEW id \in OrderIds, NEW side \in Sides, NEW lots \in 1 .. MaxQty,
           Post(id, side, lots)
    PROVE  LET s == Min(Reusable)
               o == [id |-> id, side |-> side, original_qty |-> lots, filled_qty |-> 0,
                     state |-> "Pending"]
           IN  /\ s \in Slots /\ ~IsActive(orders[s])
               /\ o \in Order /\ IsActive(o) /\ RemainingQty(o) = lots
               /\ orders' = [orders EXCEPT ![s] = o]
               /\ venue[id] = NotSent /\ reports[id] = <<>> /\ ~InPlay(id)
               /\ InPlay(id)' /\ Open(id)' /\ Before(id)' = lots
               /\ \A i \in OrderIds \ {id} :
                     /\ venue'[i] = venue[i] /\ reports'[i] = reports[i]
                     /\ Open(i)' = Open(i) /\ InPlay(i)' = InPlay(i) /\ Before(i)' = Before(i)
               /\ venue'[id] = [status |-> "sent", side |-> side, left |-> lots]
               /\ reports' = reports
  <1> DEFINE s == Min(Reusable)
             o == [id |-> id, side |-> side, original_qty |-> lots, filled_qty |-> 0,
                   state |-> "Pending"]
  <1>1. s \in Slots /\ ~IsActive(orders[s])
    <2>1. Reusable \in SUBSET Nat /\ Reusable # {}
      BY DEF Reusable, Slots, Post
    <2>2. s \in Reusable
      BY <2>1, MinMember
    <2> QED BY <2>2 DEF Reusable
  <1>2. o \in Order /\ IsActive(o) /\ RemainingQty(o) = lots
    BY OrdersAssumption DEF Order, IsActive, RemainingQty
  <1>3. venue[id] = NotSent /\ reports[id] = <<>> /\ ~InPlay(id)
    BY DEF Post, NotSent, Tracker, Reported, InPlay, Open
  <1>4. venue'[id] = [status |-> "sent", side |-> side, left |-> lots] /\ reports' = reports
        /\ \A i \in OrderIds \ {id} : venue'[i] = venue[i]
    BY DEF Post, Tracker, Traffic
  <1>5. InPlay(id)' /\ Open(id)' /\ Before(id)' = lots
    BY <1>3, <1>4 DEF InPlay, Open, Before, Ahead
  <1>6. \A i \in OrderIds \ {id} :
            Open(i)' = Open(i) /\ InPlay(i)' = InPlay(i) /\ Before(i)' = Before(i)
    BY <1>4 DEF InPlay, Open, Before
  <1>7. orders' = [orders EXCEPT ![s] = o]
    BY DEF Post
  <1> HIDE DEF s, o
  <1> QED BY <1>1, <1>2, <1>3, <1>4, <1>5, <1>6, <1>7 DEF s, o

\* So does posting an order.
LEMMA PostStep ==
    ASSUME Tracker, NEW id \in OrderIds, NEW side \in Sides, NEW lots \in 1 .. MaxQty,
           Post(id, side, lots)
    PROVE  SlotTypes' /\ Reported' /\ Tracked' /\ CountExact'
  <1> DEFINE s == Min(Reusable)
             o == [id |-> id, side |-> side, original_qty |-> lots, filled_qty |-> 0,
                   state |-> "Pending"]
  <1>1. /\ s \in Slots /\ ~IsActive(orders[s])
        /\ o \in Order /\ IsActive(o) /\ RemainingQty(o) = lots
        /\ orders' = [orders EXCEPT ![s] = o]
        /\ venue[id] = NotSent /\ reports[id] = <<>> /\ ~InPlay(id)
        /\ InPlay(id)' /\ Open(id)' /\ Before(id)' = lots
        /\ \A i \in OrderIds \ {id} :
              /\ venue'[i] = venue[i] /\ reports'[i] = reports[i]
              /\ Open(i)' = Open(i) /\ InPlay(i)' = InPlay(i) /\ Before(i)' = Before(i)
        /\ venue'[id] = [status |-> "sent", side |-> side, left |-> lots]
        /\ reports' = reports
    BY PostEffect
  <1>2. o.id = id /\ o.side = side /\ id # 0 /\ lots \in Nat /\ lots > 0
    BY OrdersAssumption DEF OrderIds
  <1>3. active_count' = active_count + 1
    BY DEF Post
  <1> HIDE DEF s, o
  <1>4. /\ orders'[s] = o /\ \A t \in Slots \ {s} : orders'[t] = orders[t]
        /\ orders' \in [Slots -> Order \cup {NoOrder}]
    BY <1>1 DEF Tracker, SlotTypes
  <1>5. \A t \in Slots : orders[t].id # id
    BY <1>1, <1>2 DEF Tracker, Tracked, NotSent
  <1>6. Reported'
    <2> SUFFICES ASSUME NEW i \in OrderIds
                 PROVE  /\ Trail(reports[i], Open(i), venue[i].left)'
                        /\ (Open(i) => venue[i].left > 0)'
                        /\ (venue[i].status \in {"unsent", "sent"} => reports[i] = <<>>)'
                        /\ (venue[i].status = "unsent" => venue[i] = NotSent)'
      BY DEF Reported
    <2>1. CASE i = id
      <3>1. Trail(<<>>, Open(id)', lots)
        BY DEF Trail
      <3>2. venue'[id].left = lots /\ venue'[id].status = "sent" /\ reports'[id] = <<>>
        BY <1>1
      <3> QED BY <3>1, <3>2, <2>1, <1>2
    <2>2. CASE i # id
      BY <2>2, <1>1 DEF Tracker, Reported
    <2> QED BY <2>1, <2>2
  <1>7. Tracked'
    <2>1. ASSUME NEW t \in Slots, orders'[t].id # 0
          PROVE  /\ venue'[orders'[t].id].status # "unsent"
                 /\ venue'[orders'[t].id].side = orders'[t].side
                 /\ \A u \in Slots : orders'[u].id = orders'[t].id => u = t
      <3>1. CASE t = s
        BY <3>1, <1>1, <1>2, <1>4, <1>5
      <3>2. CASE t # s
        <4>1. orders'[t] = orders[t] /\ orders[t].id # id /\ orders[t].id \in OrderIds
          BY <3>2, <2>1, <1>4, <1>5, SlotFacts DEF Tracker
        <4> QED BY <4>1, <2>1, <1>1, <1>2, <1>4 DEF Tracker, Tracked
      <3> QED BY <3>1, <3>2
    <2>2. ASSUME NEW t \in Slots, IsActive(orders'[t])
          PROVE  InPlay(orders[t].id)' /\ RemainingQty(orders'[t]) = Before(orders[t].id)'
      <3>1. CASE t = s
        <4>1. orders'[t] = o /\ orders'[t].id = id
          BY <3>1, <1>2, <1>4
        <4> QED BY <4>1, <1>1
      <3>2. CASE t # s
        <4>1. orders'[t] = orders[t] /\ orders[t].id # id
          BY <3>2, <1>4, <1>5
        <4>2. orders[t].id \in OrderIds
          BY <4>1, <2>2, SlotFacts DEF Tracker
        <4>3. InPlay(orders[t].id) /\ RemainingQty(orders[t]) = Before(orders[t].id)
          BY <4>1, <2>2 DEF Tracker, Tracked
        <4>4. ASSUME NEW j \in OrderIds \ {id}, j = orders'[t].id, InPlay(j)
              PROVE  InPlay(orders[t].id)' /\ Before(orders[t].id)' = Before(j)
          BY <4>4, <1>1
        <4> QED BY <4>1, <4>2, <4>3, <4>4
      <3> QED BY <3>1, <3>2
    <2>3. ASSUME NEW i \in OrderIds, InPlay(i)'
          PROVE  \E t \in Slots : orders'[t].id = i /\ IsActive(orders'[t])
      <3>1. CASE i = id
        BY <3>1, <1>1, <1>2, <1>4
      <3>2. CASE i # id
        <4>1. PICK t \in Slots : orders[t].id = i /\ IsActive(orders[t])
          BY <3>2, <2>3, <1>1 DEF Tracker, Tracked
        <4>2. t # s
          BY <4>1, <1>1
        <4> QED BY <4>1, <4>2, <1>4
      <3> QED BY <3>1, <3>2
    <2> QED BY <2>1, <2>2, <2>3 DEF Tracked
  <1>8. CountExact'
    <2> DEFINE A == {t \in Slots : IsActive(orders[t])}
               B == {t \in Slots : IsActive(orders'[t])}
    <2>1. s \notin A /\ IsFiniteSet(A) /\ active_count = Cardinality(A)
      BY <1>1, SlotsFinite DEF Tracker, CountExact
    <2>2. B = A \cup {s}
      BY <1>1, <1>4
    <2>3. Cardinality(A \cup {s}) = Cardinality(A) + 1
      BY <2>1, FS_AddElement
    <2> HIDE DEF A, B
    <2>4. active_count' = Cardinality(B)
      BY <2>1, <2>2, <2>3, <1>3
    <2> QED BY <2>4 DEF CountExact, B
  <1> QED BY <1>4, <1>6, <1>7, <1>8 DEF SlotTypes

\* The tracker's invariant is inductive when reports arrive in order.
LEMMA TrackerStep == InOrder /\ net \in Int /\ Tracker /\ [Next]_vars => Tracker'
  <1> SUFFICES ASSUME InOrder, net \in Int, Tracker, [Next]_vars PROVE Tracker'
    OBVIOUS
  <1>1. Traffic'
    BY TrafficStep DEF Tracker
  <1>2. CASE UNCHANGED vars
    BY <1>2 DEF vars, Tracker, SlotTypes, Traffic, Reported, Tracked, CountExact, InPlay,
                Before, Open
  <1>3. ASSUME NEW id \in OrderIds, NEW side \in Sides, NEW lots \in 1 .. MaxQty,
               Post(id, side, lots)
        PROVE  Tracker'
    BY <1>1, <1>3, PostStep DEF Tracker
  <1>4. ASSUME NEW id \in OrderIds, NEW k \in DOMAIN reports[id], Deliver(id, k)
        PROVE  Tracker'
    BY <1>1, <1>4, DeliverStep DEF Tracker
  <1>5. ASSUME NEW id \in OrderIds,
               \/ Accept(id) \/ Reject(id) \/ Cancel(id)
               \/ \E lots \in 1 .. MaxQty, price \in Prices : Execute(id, lots, price)
        PROVE  Tracker'
    <2>1. PICK m \in Message, v \in VenueOrder : VenueMoves(id, m, v)
      BY <1>5, VenueActions
    <2>2. Reported' /\ Tracked' /\ CountExact'
      BY <2>1, VenueStep
    <2>3. SlotTypes'
      BY <2>1 DEF VenueMoves, Tracker, SlotTypes
    <2> QED BY <1>1, <2>2, <2>3 DEF Tracker
  <1> QED BY <1>2, <1>3, <1>4, <1>5 DEF Next

-----------------------------------------------------------------------------
(* The exposure *)

\* By how much the worst case overstates what can happen on a side because of
\* one order: what an order that has just ended had left, and the fills of the
\* other side that are not known yet.
Slack(side, id) ==
    IF venue[id].side = side
    THEN IF InPlay(id) /\ ~Open(id) THEN venue[id].left ELSE 0
    ELSE Before(id) - venue[id].left

Opens(side) == [s \in Slots |-> IF IsActive(orders[s]) /\ orders[s].side = side
                                THEN RemainingQty(orders[s]) ELSE 0]
Rests(side) == [id \in OrderIds |-> IF Open(id) /\ venue[id].side = side
                                    THEN venue[id].left ELSE 0]
Slacks(side) == [id \in OrderIds |-> Slack(side, id)]

\* What the strategy sees and what the venue holds differ by the slack.
Balance ==
    \A side \in Sides :
        SumFunctionOnSet(Opens(side), Slots) + Signed(side, qty - net)
            - SumFunctionOnSet(Rests(side), OrderIds)
        = SumFunctionOnSet(Slacks(side), OrderIds)

Books == Tracker /\ Balance /\ net \in Int /\ PositionTypeOK

\* No amount is negative.
Amounts ==
    /\ \A id \in OrderIds : /\ Before(id) \in Nat /\ venue[id].left \in Nat
                            /\ Before(id) >= venue[id].left
    /\ \A side \in Sides, s \in Slots : Opens(side)[s] \in Nat
    /\ \A side \in Sides, id \in OrderIds : Rests(side)[id] \in Nat /\ Slacks(side)[id] \in Nat

\* The amounts summed below are numbers ...
LEMMA AmountsNow == Tracker => Amounts
  <1> SUFFICES ASSUME Tracker PROVE Amounts
    OBVIOUS
  <1>1. ASSUME NEW id \in OrderIds
        PROVE  Before(id) \in Nat /\ venue[id].left \in Nat /\ Before(id) >= venue[id].left
    <2>1. venue[id].left \in Nat /\ reports[id] \in Seq(Message)
      BY OrdersAssumption DEF Tracker, Traffic, Message
    <2>2. CASE reports[id] = <<>>
      BY <2>1, <2>2 DEF Before, Ahead
    <2>3. CASE reports[id] # <<>>
      <3>1. reports[id][1] \in Message /\ 1 \in 1 .. Len(reports[id])
        BY <2>1, <2>3, OldestRemoved
      <3>2. reports[id][1].left >= venue[id].left
        BY <3>1 DEF Tracker, Reported, Trail
      <3> QED BY <2>1, <2>3, <3>1, <3>2, MessageNumbers DEF Before, Ahead
    <2> QED BY <2>2, <2>3
  <1>2. ASSUME NEW side \in Sides, NEW s \in Slots PROVE Opens(side)[s] \in Nat
    <2>1. CASE IsActive(orders[s])
      <3>1. orders[s].id \in OrderIds /\ RemainingQty(orders[s]) = Before(orders[s].id)
        BY <2>1, SlotFacts DEF Tracker, Tracked
      <3> QED BY <3>1, <1>1 DEF Opens
    <2>2. CASE ~IsActive(orders[s])
      BY <2>2 DEF Opens
    <2> QED BY <2>1, <2>2
  <1>3. ASSUME NEW side \in Sides, NEW id \in OrderIds
        PROVE  Rests(side)[id] \in Nat /\ Slacks(side)[id] \in Nat
    BY <1>1 DEF Rests, Slacks, Slack
  <1> QED BY <1>1, <1>2, <1>3 DEF Amounts

\* ... and after a step.
LEMMA AmountsNext == Tracker' => Amounts'
  BY AmountsNow, PTL

\* A step that changes at most one slot s and one order id changes the sums
\* by what it changes there.
LEMMA SumsMove ==
    ASSUME Tracker, Tracker', NEW side \in Sides, NEW s \in Slots, NEW id \in OrderIds,
           \A t \in Slots \ {s} : orders'[t] = orders[t],
           \A i \in OrderIds \ {id} : /\ venue'[i] = venue[i] /\ Open(i)' = Open(i)
                                      /\ InPlay(i)' = InPlay(i) /\ Before(i)' = Before(i)
    PROVE  /\ SumFunctionOnSet(Opens(side), Slots)' =
                 SumFunctionOnSet(Opens(side), Slots) + (Opens(side)')[s] - Opens(side)[s]
           /\ SumFunctionOnSet(Rests(side), OrderIds)' =
                 SumFunctionOnSet(Rests(side), OrderIds) + (Rests(side)')[id] - Rests(side)[id]
           /\ SumFunctionOnSet(Slacks(side), OrderIds)' =
                 SumFunctionOnSet(Slacks(side), OrderIds) + (Slacks(side)')[id] - Slacks(side)[id]
           /\ SumFunctionOnSet(Opens(side), Slots) \in Int
           /\ SumFunctionOnSet(Rests(side), OrderIds) \in Int
           /\ SumFunctionOnSet(Slacks(side), OrderIds) \in Int
           /\ Opens(side)[s] \in Nat /\ (Opens(side)')[s] \in Nat
           /\ Rests(side)[id] \in Nat /\ (Rests(side)')[id] \in Nat
           /\ Slacks(side)[id] \in Nat /\ (Slacks(side)')[id] \in Nat
  <1>1. /\ \A t \in Slots : Opens(side)[t] \in Nat /\ (Opens(side)')[t] \in Nat
        /\ \A i \in OrderIds : /\ Rests(side)[i] \in Nat /\ (Rests(side)')[i] \in Nat
                               /\ Slacks(side)[i] \in Nat /\ (Slacks(side)')[i] \in Nat
    BY AmountsNow, AmountsNext DEF Amounts
  <1>2. \A t \in Slots \ {s} : Opens(side)[t] = (Opens(side)')[t]
    BY DEF Opens
  <1>3. \A i \in OrderIds \ {id} : Rests(side)[i] = (Rests(side)')[i]
    BY DEF Rests
  <1>4. \A i \in OrderIds \ {id} : Slacks(side)[i] = (Slacks(side)')[i]
    BY DEF Slacks, Slack
  <1> DEFINE o == Opens(side)  p == Opens(side)'  r == Rests(side)  q == Rests(side)'
             k == Slacks(side)  l == Slacks(side)'
  <1>5. /\ \A t \in Slots : o[t] \in Int /\ p[t] \in Int
        /\ \A i \in OrderIds : r[i] \in Int /\ q[i] \in Int /\ k[i] \in Int /\ l[i] \in Int
    BY <1>1
  <1>6. SumFunctionOnSet(p, Slots) = SumFunctionOnSet(o, Slots) + p[s] - o[s]
    <2> HIDE DEF o, p
    <2> QED BY <1>2, <1>5, SlotsFinite, SumUpdate DEF o, p
  <1>7. SumFunctionOnSet(q, OrderIds) = SumFunctionOnSet(r, OrderIds) + q[id] - r[id]
    BY <1>3, <1>5, SlotsFinite, SumUpdate
  <1>8. SumFunctionOnSet(l, OrderIds) = SumFunctionOnSet(k, OrderIds) + l[id] - k[id]
    BY <1>4, <1>5, SlotsFinite, SumUpdate
  <1>9. /\ SumFunctionOnSet(o, Slots) \in Int
        /\ SumFunctionOnSet(r, OrderIds) \in Int /\ SumFunctionOnSet(k, OrderIds) \in Int
    BY <1>5, SlotsFinite, SumInt
  <1> QED BY <1>1, <1>6, <1>7, <1>8, <1>9

BalanceOf(side) ==
    SumFunctionOnSet(Opens(side), Slots) + Signed(side, qty - net)
        - SumFunctionOnSet(Rests(side), OrderIds)
    = SumFunctionOnSet(Slacks(side), OrderIds)

\* The balance of a side survives a step that moves one slot, one order and the
\* position by amounts that cancel.
LEMMA BalanceMoves ==
    ASSUME Books, Tracker', NEW side \in Sides, NEW s \in Slots, NEW id \in OrderIds,
           \A t \in Slots \ {s} : orders'[t] = orders[t],
           \A i \in OrderIds \ {id} : /\ venue'[i] = venue[i] /\ Open(i)' = Open(i)
                                      /\ InPlay(i)' = InPlay(i) /\ Before(i)' = Before(i),
           NEW bought \in Int, qty' - net' = qty - net + bought,
           (Opens(side)')[s] - Opens(side)[s] + Signed(side, bought)
               - ((Rests(side)')[id] - Rests(side)[id])
             = (Slacks(side)')[id] - Slacks(side)[id]
    PROVE  BalanceOf(side)'
  <1> DEFINE a == SumFunctionOnSet(Opens(side), Slots)
             b == SumFunctionOnSet(Rests(side), OrderIds)
             c == SumFunctionOnSet(Slacks(side), OrderIds)
             do == (Opens(side)')[s] - Opens(side)[s]
             dr == (Rests(side)')[id] - Rests(side)[id]
             ds == (Slacks(side)')[id] - Slacks(side)[id]
  <1>1. /\ a \in Int /\ b \in Int /\ c \in Int /\ do \in Int /\ dr \in Int /\ ds \in Int
        /\ a' = a + do /\ b' = b + dr /\ c' = c + ds
    <2>1. Tracker
      BY DEF Books
    <2> QED BY <2>1, SumsMove
  <1>2. qty \in Int /\ net \in Int
    BY DEF Books, PositionTypeOK
  <1>3. a + Signed(side, qty - net) - b = c
    BY DEF Books, Balance
  <1>4. do + Signed(side, bought) - dr = ds
    OBVIOUS
  <1> HIDE DEF a, b, c, do, dr, ds
  <1>5. a' + Signed(side, qty' - net') - b' = c'
    BY <1>1, <1>2, <1>3, <1>4 DEF Signed
  <1> QED BY <1>5 DEF BalanceOf, a, b, c

\* A fill at the venue is slack on the other side until it is known, and so is
\* on its own side what an order that ends had left.
LEMMA VenueBalance ==
    ASSUME Books, Tracker', NEW id \in OrderIds, NEW m \in Message, NEW v \in VenueOrder,
           VenueMoves(id, m, v), NEW side \in Sides
    PROVE  BalanceOf(side)'
  <1>1. \A i \in OrderIds : InPlay(i)' = InPlay(i) /\ Before(i)' = Before(i)
    BY VenueStep DEF Books
  <1>2. /\ venue'[id] = v /\ \A i \in OrderIds \ {id} : venue'[i] = venue[i]
        /\ orders' = orders /\ qty' = qty
    BY DEF VenueMoves, Books, Tracker, Traffic, positionVars
  <1>3. \A i \in OrderIds \ {id} : Open(i)' = Open(i)
    BY <1>2 DEF Open
  <1>4. m.lots \in Nat /\ m.left \in Nat /\ qty \in Int /\ net \in Int
    BY MessageNumbers DEF Books, PositionTypeOK
  <1> DEFINE bought == -Signed(venue[id].side, m.lots)
  <1>5. bought \in Int /\ qty' - net' = qty - net + bought
    BY <1>2, <1>4 DEF VenueMoves, Signed
  <1>6. PICK s \in Slots : TRUE
    BY OrdersAssumption DEF Slots
  <1>7. (Opens(side)')[s] = Opens(side)[s] /\ Opens(side)[s] \in Nat
    BY <1>2, AmountsNow DEF Opens, Books, Amounts
  <1>8. Open(id) /\ InPlay(id) /\ InPlay(id)' /\ Before(id)' = Before(id)
        /\ (Open(id)' <=> v.status = "resting")
    BY <1>1, <1>2 DEF VenueMoves, InPlay, Open
  <1>9. venue'[id].side = venue[id].side /\ venue'[id].left = m.left
        /\ venue[id].left = m.lots + m.left
    BY <1>2 DEF VenueMoves
  <1>10. Before(id) \in Nat /\ venue[id].side \in Sides
    BY AmountsNow DEF Books, Amounts, Tracker, Traffic
  <1>11. Signed(side, bought) - ((Rests(side)')[id] - Rests(side)[id])
             = (Slacks(side)')[id] - Slacks(side)[id]
    <2>1. CASE venue[id].side = side
      <3>1. /\ Rests(side)[id] = m.lots + m.left /\ Slacks(side)[id] = 0
            /\ (Rests(side)')[id] = IF Open(id)' THEN m.left ELSE 0
            /\ (Slacks(side)')[id] = IF Open(id)' THEN 0 ELSE m.left
        BY <2>1, <1>8, <1>9 DEF Rests, Slacks, Slack
      <3>2. Signed(side, bought) = -m.lots
        BY <2>1, <1>4 DEF Signed
      <3> QED BY <3>1, <3>2, <1>4
    <2>2. CASE venue[id].side # side
      <3>1. /\ Rests(side)[id] = 0 /\ Slacks(side)[id] = Before(id) - (m.lots + m.left)
            /\ (Rests(side)')[id] = 0 /\ (Slacks(side)')[id] = Before(id) - m.left
        BY <2>2, <1>8, <1>9 DEF Rests, Slacks, Slack
      <3>2. Signed(side, bought) = m.lots
        BY <2>2, <1>4, <1>10 DEF Signed, Sides
      <3> QED BY <3>1, <3>2, <1>4, <1>10
    <2> QED BY <2>1, <2>2
  <1>12. Signed(side, bought) \in Int /\ Rests(side)[id] \in Nat /\ (Rests(side)')[id] \in Nat
         /\ Slacks(side)[id] \in Nat /\ (Slacks(side)')[id] \in Nat
    BY <1>5, AmountsNow, AmountsNext DEF Books, Amounts, Signed
  <1> HIDE DEF bought
  <1>13. (Opens(side)')[s] - Opens(side)[s] + Signed(side, bought)
             - ((Rests(side)')[id] - Rests(side)[id])
           = (Slacks(side)')[id] - Slacks(side)[id]
    BY <1>7, <1>11, <1>12
  <1> QED BY <1>1, <1>2, <1>3, <1>5, <1>13, BalanceMoves

\* Learning of a fill moves its lots from the open quantity to the position;
\* the final report also drops what the order had left.
LEMMA DeliverBalance ==
    ASSUME Books, Tracker', InOrder, NEW id \in OrderIds, NEW k \in DOMAIN reports[id],
           Deliver(id, k), NEW side \in Sides
    PROVE  BalanceOf(side)'
  <1> DEFINE r == reports[id][1]
  <1>1. Tracker /\ qty \in Int /\ net \in Int
    BY DEF Books, PositionTypeOK
  <1>2. k = 1 /\ reports[id] # <<>> /\ r \in Message
    BY <1>1, DeliveryLearned
  <1>3. PICK s \in Slots, o \in Order : Learned(id, r, s, o)
    BY <1>1, DeliveryLearned
  <1>4. venue' = venue /\ net' = net
    BY DEF Deliver
  <1>5. /\ \A i \in OrderIds \ {id} :
               InPlay(i)' = InPlay(i) /\ Before(i)' = Before(i) /\ reports'[i] = reports[i]
        /\ InPlay(id)' <=> ~Ends(r)
        /\ Before(id)' = r.left
    BY <1>1, <1>2, DeliveryEffect
  <1>6. \A i \in OrderIds : Open(i)' = Open(i)
    BY <1>4 DEF Open
  <1>7. r.lots \in Nat /\ r.left \in Nat
    BY <1>2, MessageNumbers
  <1>8. Before(id) = r.lots + r.left /\ InPlay(id)
    BY <1>2 DEF Before, Ahead, InPlay
  <1> DEFINE bought == Signed(venue[id].side, r.lots)
  <1>9. bought \in Int /\ qty' = qty + bought
    <2>1. CASE r.kind = "Fill"
      BY <2>1, <1>2, <1>7 DEF Deliver, OnFill, Signed
    <2>2. CASE r.kind # "Fill"
      <3>1. r.lots = 0
        BY <2>2, <1>2 DEF Message, FillReport, OtherReport
      <3> QED BY <2>2, <3>1, <1>1, <1>2 DEF Deliver, positionVars, Signed
    <2> QED BY <2>1, <2>2
  <1>10. Ends(r) => ~Open(id) /\ r.left = venue[id].left
    <2>1. reports[id] \in Seq(Message) /\ Len(reports[id]) >= 1
      BY <1>1, <1>2, OldestRemoved DEF Tracker, Traffic, Message
    <2> QED BY <2>1, <1>1, <1>2 DEF Tracker, Reported, Trail
  <1>11. venue[id].left \in Nat /\ venue[id].side \in Sides
    BY <1>1, AmountsNow DEF Amounts, Tracker, Traffic
  <1> HIDE DEF r
  <1>12. /\ orders'[s] = o /\ \A t \in Slots \ {s} : orders'[t] = orders[t]
         /\ orders[s].side = venue[id].side /\ o.side = venue[id].side
         /\ IsActive(orders[s]) /\ RemainingQty(orders[s]) = r.lots + r.left
         /\ IsActive(o) <=> ~Ends(r)
         /\ IsActive(o) => RemainingQty(o) = r.left
    <2>1. orders[s].id # 0
      BY <1>3, OrdersAssumption DEF Learned, OrderIds
    <2> QED BY <2>1, <1>1, <1>3, <1>8 DEF Learned, Tracker, Tracked, SlotTypes
  <1>13. (Opens(side)')[s] - Opens(side)[s] + Signed(side, bought)
             - ((Rests(side)')[id] - Rests(side)[id])
           = (Slacks(side)')[id] - Slacks(side)[id]
    <2>1. Rests(side)[id] \in Nat /\ (Rests(side)')[id] = Rests(side)[id]
      BY <1>1, <1>4, <1>6, AmountsNow DEF Amounts, Rests
    <2>2. CASE venue[id].side = side
      <3>1. /\ Opens(side)[s] = r.lots + r.left
            /\ (Opens(side)')[s] = IF Ends(r) THEN 0 ELSE r.left
        BY <2>2, <1>12 DEF Opens
      <3>2. Signed(side, bought) = r.lots
        BY <2>2, <1>7, <1>11 DEF Signed, Sides
      <3>3. /\ Slacks(side)[id] = IF Open(id) THEN 0 ELSE venue[id].left
            /\ (Slacks(side)')[id] = IF Open(id) \/ Ends(r) THEN 0 ELSE venue[id].left
        BY <2>2, <1>4, <1>5, <1>6, <1>8 DEF Slacks, Slack
      <3> QED BY <3>1, <3>2, <3>3, <2>1, <1>7, <1>10, <1>11
    <2>3. CASE venue[id].side # side
      <3>1. Opens(side)[s] = 0 /\ (Opens(side)')[s] = 0
        BY <2>3, <1>12 DEF Opens
      <3>2. Signed(side, bought) = -r.lots
        BY <2>3, <1>7, <1>11 DEF Signed, Sides
      <3>3. /\ Slacks(side)[id] = r.lots + r.left - venue[id].left
            /\ (Slacks(side)')[id] = r.left - venue[id].left
        <4>1. Slacks(side)[id] = Before(id) - venue[id].left
          BY <2>3 DEF Slacks, Slack
        <4>2. (Slacks(side)')[id] = Before(id)' - venue'[id].left
          BY <2>3, <1>4 DEF Slacks, Slack
        <4>3. Before(id) = r.lots + r.left /\ Before(id)' = r.left /\ venue'[id] = venue[id]
          BY <1>4, <1>5, <1>8
        <4> QED BY <4>1, <4>2, <4>3, <1>7, <1>11
      <3> QED BY <3>1, <3>2, <3>3, <2>1, <1>7, <1>11
    <2> QED BY <2>2, <2>3
  <1>14. qty' - net' = qty - net + bought
    BY <1>1, <1>4, <1>9
  <1> HIDE DEF bought
  <1> QED BY <1>4, <1>5, <1>6, <1>9, <1>12, <1>13, <1>14, BalanceMoves

\* A new order is open at the strategy and at the venue.
LEMMA PostBalance ==
    ASSUME Books, Tracker', NEW id \in OrderIds, NEW sd \in Sides, NEW lots \in 1 .. MaxQty,
           Post(id, sd, lots), NEW side \in Sides
    PROVE  BalanceOf(side)'
  <1> DEFINE s == Min(Reusable)
             o == [id |-> id, side |-> sd, original_qty |-> lots, filled_qty |-> 0,
                   state |-> "Pending"]
  <1>1. Tracker /\ qty \in Int /\ net \in Int
    BY DEF Books, PositionTypeOK
  <1>2. /\ s \in Slots /\ ~IsActive(orders[s])
        /\ o \in Order /\ IsActive(o) /\ RemainingQty(o) = lots
        /\ orders' = [orders EXCEPT ![s] = o]
        /\ venue[id] = NotSent /\ reports[id] = <<>> /\ ~InPlay(id)
        /\ InPlay(id)' /\ Open(id)' /\ Before(id)' = lots
        /\ \A i \in OrderIds \ {id} :
              /\ venue'[i] = venue[i] /\ reports'[i] = reports[i]
              /\ Open(i)' = Open(i) /\ InPlay(i)' = InPlay(i) /\ Before(i)' = Before(i)
        /\ venue'[id] = [status |-> "sent", side |-> sd, left |-> lots]
    BY <1>1, PostEffect
  <1>3. o.side = sd /\ lots \in Nat
    BY OrdersAssumption
  <1>4. qty' = qty /\ net' = net
    BY DEF Post, positionVars
  <1>5. venue'[id].side = sd /\ venue'[id].left = lots /\ venue[id].left = 0
        /\ Before(id) = 0 /\ ~Open(id)
    BY <1>2 DEF NotSent, Before, Ahead, InPlay
  <1> HIDE DEF s, o
  <1>6. orders'[s] = o /\ \A t \in Slots \ {s} : orders'[t] = orders[t]
    BY <1>1, <1>2 DEF Tracker, SlotTypes
  <1>7. /\ Opens(side)[s] = 0 /\ Rests(side)[id] = 0 /\ Slacks(side)[id] = 0
        /\ (Opens(side)')[s] = IF sd = side THEN lots ELSE 0
        /\ (Rests(side)')[id] = IF sd = side THEN lots ELSE 0
        /\ (Slacks(side)')[id] = 0
    BY <1>2, <1>3, <1>5, <1>6 DEF Opens, Rests, Slacks, Slack
  <1>8. Signed(side, 0) = 0 /\ qty' - net' = qty - net + 0 /\ 0 \in Int
    <2>1. qty - net \in Int
      BY <1>1
    <2>2. qty' - net' = qty - net + 0
      BY <2>1, <1>4
    <2>3. Signed(side, 0) = 0
      <3>1. \A n \in Int : Signed(side, n) = n \/ Signed(side, n) + n = 0
        BY DEF Signed
      <3>2. \A n \in Int : Signed(side, n) \in Int
        BY DEF Signed
      <3> QED BY <3>1, <3>2
    <2> QED BY <2>2, <2>3
  <1>9. (Opens(side)')[s] - Opens(side)[s] + Signed(side, 0)
             - ((Rests(side)')[id] - Rests(side)[id])
           = (Slacks(side)')[id] - Slacks(side)[id]
    BY <1>3, <1>7, <1>8
  <1> QED BY <1>2, <1>6, <1>8, <1>9, BalanceMoves

\* At the start everything is empty.
LEMMA FirstBooks == Init => Books
  <1> SUFFICES ASSUME Init PROVE Books
    OBVIOUS
  <1>1. Traffic /\ PositionTypeOK
    BY FirstAccounts DEF Accounts
  <1>2. \A id \in OrderIds : venue[id] = NotSent /\ reports[id] = <<>>
    BY DEF Init
  <1>3. \A id \in OrderIds : ~Open(id) /\ ~InPlay(id)
    BY <1>2 DEF Open, InPlay, NotSent
  <1>4. Reported
    BY <1>2, <1>3 DEF Reported, Trail
  <1>5. \A s \in Slots : orders[s] = NoOrder /\ orders[s].id = 0 /\ ~IsActive(orders[s])
    BY DEF Init, NoOrder, IsActive
  <1>6. Tracked
    BY <1>3, <1>5 DEF Tracked
  <1>7. SlotTypes
    BY DEF SlotTypes, Init
  <1>8. CountExact
    <2>1. {s \in Slots : IsActive(orders[s])} = {}
      BY <1>5
    <2> QED BY <2>1, FS_EmptySet DEF CountExact, Init
  <1>9. Tracker
    BY <1>1, <1>4, <1>6, <1>7, <1>8 DEF Tracker
  <1>10. Balance
    <2> SUFFICES ASSUME NEW side \in Sides PROVE BalanceOf(side)
      BY DEF Balance, BalanceOf
    <2>1. /\ \A s \in Slots : Opens(side)[s] = 0
          /\ \A id \in OrderIds : Rests(side)[id] = 0 /\ Slacks(side)[id] = 0
      BY <1>2, <1>3, <1>5 DEF Opens, Rests, Slacks, Slack, Before, Ahead, NotSent
    <2> DEFINE o == Opens(side)  r == Rests(side)  k == Slacks(side)
    <2>2. /\ \A s \in Slots : o[s] \in Nat
          /\ \A id \in OrderIds : r[id] \in Nat /\ k[id] \in Nat
      BY <2>1
    <2>3. SumFunctionOnSet(o, Slots) = 0
      BY <2>1, <2>2, SlotsFinite, SumSign
    <2>4. SumFunctionOnSet(r, OrderIds) = 0
      BY <2>1, <2>2, SlotsFinite, SumSign
    <2>5. SumFunctionOnSet(k, OrderIds) = 0
      BY <2>1, <2>2, SlotsFinite, SumSign
    <2>6. qty - net = 0 /\ Signed(side, 0) = 0
      <3>1. qty = 0 /\ net = 0
        BY DEF Init, PositionInit
      <3>2. \A n \in Int : Signed(side, n) \in Int /\ (Signed(side, n) = n \/ Signed(side, n) + n = 0)
        BY DEF Signed
      <3> QED BY <3>1, <3>2
    <2> QED BY <2>3, <2>4, <2>5, <2>6 DEF BalanceOf
  <1> QED BY <1>1, <1>9, <1>10 DEF Books, Init

\* Every step preserves the invariant, if reports arrive in order.
LEMMA BooksStep == InOrder /\ Books /\ [Next]_vars => Books'
  <1> SUFFICES ASSUME InOrder, Books, [Next]_vars PROVE Books'
    OBVIOUS
  <1>1. Tracker'
    BY TrackerStep DEF Books
  <1>2. PositionTypeOK'
    <2>1. CASE UNCHANGED positionVars
      BY <2>1 DEF positionVars, Books, PositionTypeOK
    <2>2. ASSUME NEW id \in OrderIds, NEW k \in DOMAIN reports[id], Deliver(id, k)
          PROVE  PositionTypeOK'
      <3> DEFINE r == reports[id][k]
      <3>1. r \in FillReport \cup OtherReport
        BY RemovalType DEF Books, Tracker, Traffic
      <3>2. CASE r.kind = "Fill"
        <4>1. r.lots \in Nat \ {0} /\ r.price \in 0 .. I64Max /\ venue[id].side \in Sides
          BY <3>1, <3>2 DEF FillReport, OtherReport, Books, Tracker, Traffic
        <4>2. OnFill(venue[id].side, r.lots, r.price)
          BY <2>2, <3>2 DEF Deliver
        <4> QED BY <4>1, <4>2, FillTypes DEF Books
      <3>3. CASE r.kind # "Fill"
        BY <2>1, <2>2, <3>3 DEF Deliver
      <3> QED BY <3>2, <3>3
    <2> QED BY <2>1, <2>2 DEF Next, vars, Post, Accept, Reject, Cancel, Execute
  <1>3. \A id \in OrderIds : Tracker /\ net \in Int /\ venue[id].side \in Sides
    BY DEF Books, Tracker, Traffic
  <1>4. CASE UNCHANGED vars
    BY <1>1, <1>2, <1>4 DEF Books, Balance, vars, positionVars, Opens, Rests, Slacks, Slack,
                            InPlay, Before, Open
  <1>5. ASSUME NEW id \in OrderIds, NEW sd \in Sides, NEW lots \in 1 .. MaxQty,
               Post(id, sd, lots)
        PROVE  Books'
    <2>1. \A side \in Sides : BalanceOf(side)'
      BY <1>1, <1>5, PostBalance
    <2>2. net' \in Int
      BY <1>5 DEF Post, Books
    <2> QED BY <1>1, <1>2, <2>1, <2>2 DEF Books, Balance, BalanceOf
  <1>6. ASSUME NEW id \in OrderIds, NEW k \in DOMAIN reports[id], Deliver(id, k)
        PROVE  Books'
    <2>1. \A side \in Sides : BalanceOf(side)'
      BY <1>1, <1>6, DeliverBalance
    <2>2. net' \in Int
      BY <1>6 DEF Deliver, Books
    <2> QED BY <1>1, <1>2, <2>1, <2>2 DEF Books, Balance, BalanceOf
  <1>7. ASSUME NEW id \in OrderIds,
               \/ Accept(id) \/ Reject(id) \/ Cancel(id)
               \/ \E lots \in 1 .. MaxQty, price \in Prices : Execute(id, lots, price)
        PROVE  Books'
    <2>1. PICK m \in Message, v \in VenueOrder : VenueMoves(id, m, v)
      BY <1>3, <1>7, VenueActions
    <2>2. \A side \in Sides : BalanceOf(side)'
      BY <1>1, <2>1, VenueBalance
    <2>3. net' \in Int
      BY <1>3, <2>1, MessageNumbers DEF VenueMoves, Signed
    <2> QED BY <1>1, <1>2, <2>2, <2>3 DEF Books, Balance, BalanceOf
  <1> QED BY <1>4, <1>5, <1>6, <1>7 DEF Next

\* What follows from the balance: the slack of every order is at least zero,
\* and zero when no report is under way.
LEMMA BooksSound == Books => ExposureSound
  <1> SUFFICES ASSUME Books, NEW side \in Sides
               PROVE  LET truth == net + Signed(side, Resting(side))
                          slack == Signed(side, WorstCaseQty(side) - truth)
                      IN  /\ slack >= 0
                          /\ (\A id \in OrderIds : reports[id] = <<>>) => slack = 0
    BY DEF ExposureSound
  <1> DEFINE a == SumFunctionOnSet(Opens(side), Slots)
             b == SumFunctionOnSet(Rests(side), OrderIds)
             c == SumFunctionOnSet(Slacks(side), OrderIds)
             quiet == \A id \in OrderIds : reports[id] = <<>>
  <1>1. OpenQty(side) = a /\ Resting(side) = b
    BY DEF OpenQty, Resting, SumFunction, Opens, Rests
  <1>2. Amounts
    BY AmountsNow DEF Books
  <1>3. a \in Int /\ b \in Int /\ c \in Int
    <2> DEFINE o == Opens(side)  r == Rests(side)  k == Slacks(side)
    <2>1. /\ \A s \in Slots : o[s] \in Int
          /\ \A id \in OrderIds : r[id] \in Int /\ k[id] \in Int
      BY <1>2 DEF Amounts
    <2> QED BY <2>1, SlotsFinite, SumInt
  <1>4. c >= 0 /\ (quiet => c = 0)
    <2> DEFINE k == Slacks(side)
    <2>1. \A id \in OrderIds : k[id] \in Nat
      BY <1>2 DEF Amounts
    <2>2. quiet => \A id \in OrderIds : k[id] = 0
      <3> SUFFICES ASSUME NEW id \in OrderIds, reports[id] = <<>> PROVE k[id] = 0
        OBVIOUS
      <3> QED BY <1>2 DEF Amounts, Slacks, Slack, InPlay, Before, Ahead
    <2> HIDE DEF quiet
    <2> QED BY <2>1, <2>2, SlotsFinite, SumSign
  <1>5. a + Signed(side, qty - net) - b = c
    BY DEF Books, Balance
  <1>6. qty \in Int /\ net \in Int
    BY DEF Books, PositionTypeOK
  <1> HIDE DEF a, b, c, quiet
  <1>7. Signed(side, (qty + Signed(side, a)) - (net + Signed(side, b))) = c
    BY <1>3, <1>5, <1>6 DEF Signed
  <1> QED BY <1>1, <1>4, <1>7 DEF WorstCaseQty, quiet

\* The invariant implies the properties of the tracker and of the exposure.
LEMMA BooksMean ==
    ASSUME Books
    PROVE  TypeOK /\ CountExact /\ SlotsRecovered /\ ExposureSound
  <1>1. CountExact
    BY DEF Books, Tracker
  <1>2. active_count \in 0 .. MaxTracked
    <2>1. {s \in Slots : IsActive(orders[s])} \in SUBSET Slots
      OBVIOUS
    <2> QED BY <1>1, <2>1, SlotsFinite DEF CountExact
  <1>3. TypeOK
    BY <1>2 DEF TypeOK, Books, Tracker, SlotTypes
  <1>4. SlotsRecovered
    BY DEF SlotsRecovered, Books, Tracker, Tracked, InPlay
  <1>5. ExposureSound
    BY BooksSound
  <1> QED BY <1>1, <1>3, <1>4, <1>5

\* The invariant holds always, if reports arrive in order.
LEMMA BooksAlways == InOrder => (Spec => []Books)
  <1> SUFFICES ASSUME InOrder PROVE Spec => []Books
    OBVIOUS
  <1>1. Init => Books
    BY FirstBooks
  <1>2. Books /\ [Next]_vars => Books'
    BY BooksStep
  <1> QED BY <1>1, <1>2, PTL DEF Spec

\* The four results below hold for any number of slots and orders and any
\* sizes, when the reports of one order arrive in order.

\* Spec => []TypeOK: slots, active_count and position keep their types.
THEOREM TrackerTypes == InOrder => (Spec => []TypeOK)
  <1> SUFFICES ASSUME InOrder PROVE Spec => []TypeOK
    OBVIOUS
  <1>1. Spec => []Books
    BY BooksAlways
  <1>2. Books => TypeOK
    BY BooksMean
  <1> QED BY <1>1, <1>2, PTL

\* Spec => []CountExact: OrderTracker::active_count is the number of active
\* slots after any sequence of submissions, fills, rejects and cancels.
THEOREM ActiveCountExact == InOrder => (Spec => []CountExact)
  <1> SUFFICES ASSUME InOrder PROVE Spec => []CountExact
    OBVIOUS
  <1>1. Spec => []Books
    BY BooksAlways
  <1>2. Books => CountExact
    BY BooksMean
  <1> QED BY <1>1, <1>2, PTL

\* Spec => []SlotsRecovered: no slot leaks; an order that is over, with all its
\* reports delivered, holds none.
THEOREM NoSlotLeaks == InOrder => (Spec => []SlotsRecovered)
  <1> SUFFICES ASSUME InOrder PROVE Spec => []SlotsRecovered
    OBVIOUS
  <1>1. Spec => []Books
    BY BooksAlways
  <1>2. Books => SlotsRecovered
    BY BooksMean
  <1> QED BY <1>1, <1>2, PTL

\* Spec => []ExposureSound: worst_case_qty, which risk checks read, covers what
\* the venue can still do, exactly so once all reports have arrived.
THEOREM ExposureIsSound == InOrder => (Spec => []ExposureSound)
  <1> SUFFICES ASSUME InOrder PROVE Spec => []ExposureSound
    OBVIOUS
  <1>1. Spec => []Books
    BY BooksAlways
  <1>2. Books => ExposureSound
    BY BooksMean
  <1> QED BY <1>1, <1>2, PTL

-----------------------------------------------------------------------------
(* Powers *)

\* p is the table of the powers of x.
IsPowers(p, x) ==
    p = [k \in 0 .. ProbPowerN |-> IF k = 0 THEN 1 ELSE x * p[k - 1]]

\* The recursive definition of the powers is that of a function.
LEMMA PowersDefined ==
    ASSUME NEW x \in Int
    PROVE  IsPowers(Powers(x), x)
  <1> USE QueueAssumption
  <1> DEFINE Def(p, m) == p = [k \in 0 .. m |-> IF k = 0 THEN 1 ELSE x * p[k - 1]]
             B == {m \in Nat : ~\E p : Def(p, m)}
  <1>1. B = {}
    <2> SUFFICES ASSUME B # {} PROVE FALSE
      OBVIOUS
    <2>1. PICK m \in B : \A n \in B : m <= n
      <3>1. B \in SUBSET Nat
        OBVIOUS
      <3> HIDE DEF B
      <3> QED BY <3>1, LeastNumber
    <2>2. CASE m = 0
      <3>1. Def([k \in 0 .. 0 |-> 1], 0)
        OBVIOUS
      <3> QED BY <2>1, <2>2, <3>1
    <2>3. CASE m # 0
      <3>1. m - 1 \in Nat /\ m - 1 \notin B
        <4>1. m \in Nat
          BY <2>1
        <4> HIDE DEF B
        <4> QED BY <2>1, <2>3, <4>1
      <3>2. PICK p : Def(p, m - 1)
        BY <3>1
      <3> DEFINE q == [k \in 0 .. m |-> IF k = 0 THEN 1 ELSE x * p[k - 1]]
      <3>3. \A k \in 0 .. m - 1 : q[k] = p[k]
        BY <3>1, <3>2
      <3>4. \A k \in 0 .. m : k # 0 => k - 1 \in 0 .. m - 1
        BY <3>1
      <3>5. \A k \in 0 .. m : q[k] = IF k = 0 THEN 1 ELSE x * q[k - 1]
        BY <3>3, <3>4
      <3>6. Def(q, m)
        <4> HIDE DEF q
        <4>1. q = [k \in 0 .. m |-> q[k]]
          BY DEF q
        <4> QED BY <4>1, <3>5
      <3> QED BY <2>1, <3>6
    <2> QED BY <2>2, <2>3
  <1>2. \E p : Def(p, ProbPowerN)
    BY <1>1
  <1> QED BY <1>2 DEF Powers, IsPowers

\* What it says of one power.
LEMMA PowerAt ==
    ASSUME NEW x \in Int
    PROVE  /\ Powers(x)[0] = 1
           /\ \A k \in 1 .. ProbPowerN : Powers(x)[k] = x * Powers(x)[k - 1]
  <1>1. 0 \in 0 .. ProbPowerN
    BY QueueAssumption
  <1>2. \A k \in 1 .. ProbPowerN : k \in 0 .. ProbPowerN /\ k # 0
    BY QueueAssumption
  <1> DEFINE p == Powers(x)
  <1>3. p = [k \in 0 .. ProbPowerN |-> IF k = 0 THEN 1 ELSE x * p[k - 1]]
    BY PowersDefined DEF IsPowers
  <1> HIDE DEF p
  <1>4. p[0] = 1 /\ \A k \in 1 .. ProbPowerN : p[k] = x * p[k - 1]
    BY <1>1, <1>2, <1>3
  <1> QED BY <1>4 DEF p

\* The powers of a natural number, and of a positive one.
LEMMA PowerSign ==
    ASSUME NEW x \in Nat
    PROVE  \A k \in 0 .. ProbPowerN :
              Powers(x)[k] \in Nat /\ (x > 0 => Powers(x)[k] > 0)
  <1> USE QueueAssumption
  <1> DEFINE p == Powers(x)
             B == {k \in 0 .. ProbPowerN : ~ (p[k] \in Nat /\ (x > 0 => p[k] > 0))}
  <1> SUFFICES ASSUME B # {} PROVE FALSE
    OBVIOUS
  <1>1. PICK k \in B : \A n \in B : k <= n
    <2>1. B \in SUBSET Nat
      OBVIOUS
    <2> HIDE DEF B
    <2> QED BY <2>1, LeastNumber
  <1>2. p[0] = 1 /\ \A j \in 1 .. ProbPowerN : p[j] = x * p[j - 1]
    BY PowerAt
  <1> HIDE DEF p
  <1>3. k \in 1 .. ProbPowerN
    BY <1>1, <1>2
  <1>4. k - 1 \in 0 .. ProbPowerN /\ k - 1 \notin B
    BY <1>1, <1>3
  <1>5. p[k - 1] \in Nat /\ (x > 0 => p[k - 1] > 0) /\ p[k] = x * p[k - 1]
    BY <1>2, <1>3, <1>4
  <1>6. x * p[k - 1] \in Nat /\ (x > 0 /\ p[k - 1] > 0 => x * p[k - 1] > 0)
    BY <1>5, SMT
  <1> QED BY <1>1, <1>5, <1>6

\* The smaller of two bases loses ground with every power.
LEMMA PowerOrder ==
    ASSUME NEW x \in Nat, NEW y \in Nat, x <= y
    PROVE  \A k \in 1 .. ProbPowerN : y * Powers(x)[k] <= x * Powers(y)[k]
  <1> USE QueueAssumption
  <1> DEFINE p == Powers(x)
             q == Powers(y)
             B == {k \in 1 .. ProbPowerN : ~ (y * p[k] <= x * q[k])}
  <1> SUFFICES ASSUME B # {} PROVE FALSE
    OBVIOUS
  <1>1. PICK k \in B : \A n \in B : k <= n
    <2>1. B \in SUBSET Nat
      OBVIOUS
    <2> HIDE DEF B
    <2> QED BY <2>1, LeastNumber
  <1>2. /\ p[0] = 1 /\ q[0] = 1
        /\ \A j \in 1 .. ProbPowerN : p[j] = x * p[j - 1] /\ q[j] = y * q[j - 1]
        /\ \A j \in 0 .. ProbPowerN : p[j] \in Nat /\ q[j] \in Nat
    BY PowerAt, PowerSign
  <1> HIDE DEF p, q
  <1>3. CASE k = 1
    <2>1. p[1] = x * p[0] /\ q[1] = y * q[0]
      BY <1>1, <1>2, <1>3
    <2>2. y * (x * 1) <= x * (y * 1)
      BY SMT
    <2> QED BY <1>1, <1>2, <1>3, <2>1, <2>2
  <1>4. CASE k # 1
    <2>1. k - 1 \in 1 .. ProbPowerN /\ k - 1 \notin B /\ k \in 1 .. ProbPowerN
      BY <1>1, <1>4
    <2> DEFINE a == p[k - 1]
               b == q[k - 1]
    <2>2. a \in Nat /\ b \in Nat /\ y * a <= x * b /\ p[k] = x * a /\ q[k] = y * b
      BY <1>2, <2>1
    <2> HIDE DEF a, b
    <2>3. x * (y * a) <= x * (x * b)
      BY <2>2, SMT
    <2>4. x * (x * b) <= x * (y * b)
      <3>1. x * b <= y * b
        BY <2>2, SMT
      <3> QED BY <2>2, <3>1, SMT
    <2>5. y * (x * a) = x * (y * a)
      BY <2>2, SMT
    <2>6. y * (x * a) <= x * (y * b)
      BY <2>2, <2>3, <2>4, <2>5, SMT
    <2> QED BY <1>1, <2>2, <2>6
  <1> QED BY <1>3, <1>4

\* The powers of a number and of its negative differ in sign at most.
LEMMA PowerNegative ==
    ASSUME NEW x \in Nat
    PROVE  \A k \in 0 .. ProbPowerN :
              Powers(-x)[k] = Powers(x)[k] \/ Powers(-x)[k] = -Powers(x)[k]
  <1> USE QueueAssumption
  <1> DEFINE p == Powers(x)
             q == Powers(-x)
             B == {k \in 0 .. ProbPowerN : ~ (q[k] = p[k] \/ q[k] = -p[k])}
  <1> SUFFICES ASSUME B # {} PROVE FALSE
    OBVIOUS
  <1>1. PICK k \in B : \A n \in B : k <= n
    <2>1. B \in SUBSET Nat
      OBVIOUS
    <2> HIDE DEF B
    <2> QED BY <2>1, LeastNumber
  <1>2. -x \in Int
    OBVIOUS
  <1>3. /\ p[0] = 1 /\ q[0] = 1
        /\ \A j \in 1 .. ProbPowerN : p[j] = x * p[j - 1] /\ q[j] = (-x) * q[j - 1]
        /\ \A j \in 0 .. ProbPowerN : p[j] \in Nat
    BY <1>2, PowerAt, PowerSign
  <1> HIDE DEF p, q
  <1>4. k \in 1 .. ProbPowerN
    BY <1>1, <1>3
  <1>5. k - 1 \in 0 .. ProbPowerN /\ k - 1 \notin B
    BY <1>1, <1>4
  <1> DEFINE a == p[k - 1]
             b == q[k - 1]
  <1>6. a \in Nat /\ (b = a \/ b = -a) /\ p[k] = x * a /\ q[k] = (-x) * b
    BY <1>3, <1>4, <1>5
  <1> HIDE DEF a, b
  <1>7. (-x) * a = -(x * a) /\ (-x) * (-a) = x * a
    BY <1>6, SMT
  <1> QED BY <1>1, <1>6, <1>7

(***************************************************************************)
(* What on_level_change attributes to the front: a part of the decrease or *)
(* nothing, or, when the estimate exceeds the level (back is negative and  *)
(* the power odd), the decrease and no more than the excess besides.       *)
(***************************************************************************)
LEMMA CancelLotsBounds ==
    ASSUME NEW F \in Nat, NEW O \in Nat \ {0}, NEW D \in 1 .. O, NEW low \in BOOLEAN
    PROVE  LET X == CancelLots(F, O, D, low)
           IN  \/ X \in 0 .. D
               \/ F > O /\ X \in D .. D + (F - O)
  <1> USE QueueAssumption
  <1> DEFINE f == Powers(F)[ProbPowerN]
             b == Powers(O - F)[ProbPowerN]
             n == D * f
             q == n \div (b + f)
             X == q - (IF low /\ f # 0 /\ b # 0 /\ n % (b + f) = 0 THEN 1 ELSE 0)
  <1>1. CancelLots(F, O, D, low) = X
    BY DEF CancelLots
  <1>2. f \in Nat /\ (F > 0 => f > 0)
    BY PowerSign
  <1>3. D \in Nat \ {0}
    OBVIOUS
  <1>4. ASSUME b \in Nat, b + f > 0
        PROVE  X \in 0 .. D
    <2> HIDE DEF f, b
    <2>1. n \in Nat /\ (f # 0 => n > 0) /\ n <= (b + f) * D /\ (b + f) * 0 <= n
      <3>1. D * f \in Nat /\ (f # 0 => D * f > 0)
        BY <1>2, <1>3, SMT
      <3>2. (b + f) * D = b * D + D * f /\ b * D >= 0 /\ (b + f) * 0 = 0
        BY <1>2, <1>3, <1>4, SMT
      <3> QED BY <3>1, <3>2, <1>2, <1>3, <1>4
    <2> DEFINE m == b + f
    <2>2. m \in Nat \ {0} /\ n <= m * D /\ m * 0 <= n
      BY <1>2, <1>4, <2>1
    <2>3. q = n \div m
      OBVIOUS
    <2> HIDE DEF m, n
    <2>4. q \in 0 .. D
      <3>1. n \div m \in Nat
        BY <2>1, <2>2, Division
      <3>2. n \div m <= D
        BY <2>1, <2>2, <1>3, QuotientBetween
      <3> HIDE DEF q
      <3> QED BY <2>3, <3>1, <3>2
    <2>5. ASSUME f # 0, n % (b + f) = 0 PROVE q >= 1
      <3>1. n = m * (n \div m) + (n % m)
        BY <2>1, <2>2, SMT
      <3>2. n % m = 0
        BY <2>5 DEF m
      <3>3. ASSUME q = 0 PROVE n = 0
        <4>1. m * 0 = 0
          BY <2>2
        <4> HIDE DEF q
        <4> QED BY <2>3, <3>1, <3>2, <3>3, <4>1
      <3> HIDE DEF q
      <3> QED BY <2>1, <2>4, <2>5, <3>3
    <2> HIDE DEF q
    <2> QED BY <1>3, <2>4, <2>5
  <1>5. CASE F <= O
    <2>1. O - F \in Nat /\ (F = 0 => O - F > 0)
      BY <1>5
    <2>2. b \in Nat /\ (O - F > 0 => b > 0)
      BY <2>1, PowerSign
    <2>3. b + f > 0
      <3> HIDE DEF f, b
      <3> QED BY <1>2, <2>1, <2>2
    <2> QED BY <1>1, <1>4, <2>2, <2>3
  <1>6. CASE F > O
    <2> DEFINE G == F - O
               g == Powers(G)[ProbPowerN]
    <2>1. G \in Nat /\ G > 0 /\ G < F /\ O - F = -G
      BY <1>6
    <2>2. g \in Nat /\ g > 0
      <3> HIDE DEF G
      <3> QED BY <2>1, PowerSign
    <2>3. b = g \/ b = -g
      <3> HIDE DEF G
      <3> QED BY <2>1, PowerNegative
    <2>4. CASE b = g
      <3>1. b \in Nat /\ b + f > 0
        <4> HIDE DEF f, b, g, G
        <4> QED BY <1>2, <2>2, <2>4
      <3> QED BY <1>1, <1>4, <3>1
    <2>5. CASE b = -g
      <3>1. F * g <= G * f
        <4>1. ProbPowerN # 0
          <5> SUFFICES ASSUME ProbPowerN = 0 PROVE FALSE
            OBVIOUS
          <5>1. O - F \in Int /\ G \in Int
            OBVIOUS
          <5>2. b = 1 /\ g = 1
            <6> HIDE DEF G
            <6> QED BY <5>1, PowerAt
          <5> HIDE DEF b, g
          <5> QED BY <5>2, <2>5
        <4>2. ProbPowerN \in 1 .. ProbPowerN /\ G <= F
          BY <4>1, <2>1
        <4> HIDE DEF G
        <4> QED BY <4>2, <2>1, PowerOrder
      <3>2. f > 0
        BY <1>2, <1>6
      <3> HIDE DEF f, b, g
      <3>3. f - g \in Nat \ {0} /\ b + f = f - g
        <4>1. G * f < F * f
          BY <1>2, <2>1, <3>2, SMT
        <4>2. F * g < F * f
          <5>1. F * g \in Int /\ F * f \in Int /\ G * f \in Int
            BY <1>2, <2>1, <2>2, SMT
          <5> QED BY <5>1, <4>1, <3>1
        <4>3. g < f
          <5> SUFFICES ASSUME f <= g PROVE FALSE
            BY <1>2, <2>2
          <5>1. F * f <= F * g
            BY <1>2, <2>2, SMT
          <5>2. F * g \in Int /\ F * f \in Int
            BY <1>2, <2>2, SMT
          <5> QED BY <4>2, <5>1, <5>2
        <4> QED BY <4>3, <2>5, <1>2, <2>2
      <3> DEFINE m == f - g
      <3>4. n \in Nat /\ n = m * D + D * g /\ D * g \in Nat \ {0} /\ m * D \in Nat
        <4>1. D * f = (f - g) * D + D * g /\ D * g \in Nat \ {0} /\ D * f \in Nat
          BY <1>2, <1>3, <2>2, SMT
        <4>2. (f - g) * D \in Nat
          BY <1>3, <3>3, SMT
        <4> QED BY <4>1, <4>2
      <3>5. n <= m * (D + G)
        <4>1. D * g <= O * g
          BY <2>2, SMT
        <4>2. O * g <= G * m
          <5>1. F * g = O * g + G * g
            <6>1. F = O + G /\ O \in Int
              OBVIOUS
            <6> HIDE DEF G
            <6> QED BY <6>1, <2>1, <2>2, SMT
          <5>2. G * (f - g) = G * f - G * g
            BY <1>2, <2>1, <2>2, SMT
          <5>3. O * g \in Int /\ G * g \in Int /\ G * f \in Int
            BY <1>2, <2>1, <2>2, SMT
          <5> HIDE DEF G
          <5> QED BY <5>1, <5>2, <5>3, <3>1
        <4>3. m * (D + G) = m * D + G * m
          <5> HIDE DEF G, m
          <5>1. m \in Int
            BY <3>3 DEF m
          <5> QED BY <5>1, <1>3, <2>1, SMT
        <4>4. D * g \in Int /\ O * g \in Int /\ G * m \in Int
          BY <1>2, <1>3, <2>1, <2>2, SMT
        <4> HIDE DEF G, m, n
        <4> QED BY <4>1, <4>2, <4>3, <4>4, <3>4
      <3> HIDE DEF n
      <3>6. q = n \div m
        BY <3>3
      <3>7. m \in Nat \ {0} /\ D + G \in Nat /\ m * D <= n
        BY <3>3, <3>4, <2>1, <1>3
      <3> HIDE DEF m
      <3>8. D <= q /\ q <= D + G /\ q \in Int
        <4> HIDE DEF q, G
        <4>1. n \div m \in Nat
          BY <3>4, <3>7, Division
        <4>2. D <= n \div m /\ n \div m <= D + G
          BY <3>4, <3>5, <3>7, <1>3, QuotientBetween
        <4> QED BY <3>6, <4>1, <4>2
      <3>9. ASSUME n % (b + f) = 0 PROVE q > D
        <4>1. n = m * (n \div m) + (n % m)
          BY <3>4, <3>7, SMT
        <4>2. n % m = 0
          BY <3>3, <3>9 DEF m
        <4>3. n = m * q
          <5>1. m * (n \div m) \in Int
            BY <3>6, <3>7, <3>8, SMT
          <5> HIDE DEF q
          <5> QED BY <4>1, <4>2, <3>6, <5>1
        <4> HIDE DEF q
        <4>4. q # D
          BY <4>3, <3>4
        <4> QED BY <4>4, <3>8, <1>3
      <3> HIDE DEF q
      <3>10. X \in D .. D + G
        <4> HIDE DEF G
        <4> QED BY <3>8, <3>9, <2>1, <1>3
      <3> QED BY <1>1, <1>6, <3>10 DEF q, n, f, b
    <2> QED BY <2>3, <2>4, <2>5
  <1> QED BY <1>5, <1>6

-----------------------------------------------------------------------------
(* The invariant of the queue *)

\* Our order at the venue, and a slot in use.
Seat == [status: {"unsent", "resting", "cancelled", "done"},
         level: Levels \cup {NoLevel}, ahead: Nat, left: Nat]
Entry == [id: QueueIds, level: Levels, qty: Nat, ahead_qty: 0 .. MaxLots]

LevelTypes ==
    /\ total \in [Levels -> Nat] /\ Everywhere <= MaxLots
    /\ resting \in [QueueIds -> Seat]
    /\ fills \in [QueueIds -> Nat]
    /\ cancelled \in [QueueIds -> Nat]

\* A resting order is a part of its level's queue; a fill of it means that
\* nothing is ahead.
Within(id) ==
    /\ resting[id].status = "resting" =>
          /\ resting[id].level \in Levels /\ resting[id].left > 0
          /\ resting[id].ahead + resting[id].left <= total[resting[id].level]
    /\ resting[id].status = "unsent" => fills[id] = 0
    /\ resting[id].status = "done" => resting[id] = Done
    /\ fills[id] > 0 => resting[id].ahead = 0

\* Two orders do not overlap.
Disjoint(id, k) ==
    /\ resting[id].status = "resting" /\ resting[k].status = "resting"
    /\ resting[id].level = resting[k].level
    => \/ resting[id].ahead + resting[id].left <= resting[k].ahead
       \/ resting[k].ahead + resting[k].left <= resting[id].ahead

\* A slot follows its order.
Follows(o) ==
    LET r == resting[o.id]
    IN  /\ r.status # "unsent"
        /\ r.status = "resting" => r.level = o.level
        /\ r.status = "done" => fills[o.id] > 0
        /\ o.qty = r.left + fills[o.id]
        /\ r.status # "cancelled" => Apart(o.ahead_qty, r.ahead) <= cancelled[o.id]

Lines ==
    /\ LevelTypes
    /\ \A id \in QueueIds : Within(id)
    /\ \A id, k \in QueueIds : id # k => Disjoint(id, k)

OnePerOrder ==
    \A s, t \in QueueSlots : queued[s] # NotQueued /\ queued[t].id = queued[s].id => s = t

QueueInv ==
    /\ Lines
    /\ queued \in [QueueSlots -> Entry \cup {NotQueued}]
    /\ \A s \in QueueSlots : queued[s] # NotQueued => Follows(queued[s])
    /\ OnePerOrder
    /\ order_count = Cardinality(QueueSlots \ QueueFree)


-----------------------------------------------------------------------------
(* Levels *)

\* The value of no level is no level, and the id of no order no id.
LEMMA NoLevelApart == NoLevel \notin Levels /\ 0 \notin QueueIds
  <1>1. NoLevel.instrument = 0
    BY DEF NoLevel
  <1>2. \A l \in Levels : l.instrument \in Nat \ {0}
    BY QueueAssumption
  <1> QED BY <1>1, <1>2, QueueAssumption

\* A level holds no more lots than all levels together.
LEMMA LevelBound ==
    ASSUME LevelTypes, NEW l \in Levels
    PROVE  total[l] <= Everywhere /\ Everywhere \in Int
  <1>1. DOMAIN total = Levels /\ \A x \in Levels : total[x] \in Nat /\ total[x] \in Int
    BY DEF LevelTypes
  <1>2. IsFiniteSet(Levels) /\ IsFiniteSet(Levels \ {l})
    BY QueueAssumption, FS_Subset
  <1>3. Everywhere = SumFunctionOnSet(total, Levels)
    BY <1>1 DEF Everywhere, SumFunction
  <1>4. SumFunctionOnSet(total, Levels) = total[l] + SumFunctionOnSet(total, Levels \ {l})
    BY <1>1, <1>2, SumRemove
  <1>5. SumFunctionOnSet(total, Levels \ {l}) >= 0
    BY <1>1, <1>2, SumSign
  <1>6. SumFunctionOnSet(total, Levels \ {l}) \in Int
    BY <1>1, <1>2, SumInt
  <1> QED BY <1>1, <1>3, <1>4, <1>5, <1>6

\* The bound on all lots after a change of one level.
LEMMA LevelChanged ==
    ASSUME LevelTypes, NEW l \in Levels, NEW v \in Nat,
           total' = [total EXCEPT ![l] = v], Everywhere + v - total[l] <= MaxLots
    PROVE  total' \in [Levels -> Nat] /\ Everywhere' <= MaxLots
  <1>1. /\ DOMAIN total = Levels /\ DOMAIN total' = Levels
        /\ \A x \in Levels : total[x] \in Int /\ total'[x] \in Int
        /\ \A x \in Levels \ {l} : total[x] = total'[x]
        /\ total'[l] = v
    BY DEF LevelTypes
  <1>2. IsFiniteSet(Levels)
    BY QueueAssumption
  <1>3. /\ Everywhere = SumFunctionOnSet(total, Levels)
        /\ Everywhere' = SumFunctionOnSet(total', Levels)
    BY <1>1 DEF Everywhere, SumFunction
  <1>4. SumFunctionOnSet(total', Levels) = SumFunctionOnSet(total, Levels) + total'[l] - total[l]
    BY <1>1, <1>2, SumUpdate
  <1>5. total' \in [Levels -> Nat]
    BY DEF LevelTypes
  <1> QED BY <1>1, <1>3, <1>4, <1>5

\* The estimate after lots have been cancelled: it does not grow, and its
\* error grows by no more than those lots.
LEMMA EstimateAfter ==
    ASSUME NEW F \in 0 .. MaxLots, NEW O \in 1 .. MaxLots, NEW D \in 1 .. O, NEW low \in BOOLEAN
    PROVE  LET e == Positive(F - CancelLots(F, O, D, low))
           IN  /\ e \in 0 .. F
               /\ \A t, u, c \in Nat :
                     Apart(F, t) <= c /\ t - D <= u /\ u <= t /\ u <= O - D
                        => Apart(e, u) <= Lower(c + D, MaxLots)
  <1> DEFINE X == CancelLots(F, O, D, low)
  <1>1. \/ X \in 0 .. D
        \/ F > O /\ X \in D .. D + (F - O)
    <2>1. F \in Nat /\ O \in Nat \ {0}
      BY QueueAssumption
    <2> QED BY <2>1, CancelLotsBounds
  <1> HIDE DEF X
  <1>2. Positive(F - X) \in 0 .. F
    BY <1>1, QueueAssumption DEF Positive
  <1>3. ASSUME NEW t \in Nat, NEW u \in Nat, NEW c \in Nat,
               Apart(F, t) <= c, t - D <= u, u <= t, u <= O - D
        PROVE  Apart(Positive(F - X), u) <= Lower(c + D, MaxLots)
    BY <1>1, <1>3, QueueAssumption DEF Positive, Apart, Lower
  <1> QED BY <1>2, <1>3 DEF X

-----------------------------------------------------------------------------
(* The queues of the levels *)

\* What it is to rest at a level.
LEMMA RestingAtType ==
    \A l, id : id \in RestingAt(l) <=>
        id \in QueueIds /\ resting[id].status = "resting" /\ resting[id].level = l
  BY DEF RestingAt

\* Lots of others, or of one of our orders, leave the queue.
LEMMA LinesShrink ==
    ASSUME Lines, NEW l \in Levels, NEW p \in Nat, NEW lots \in Nat \ {0}, NEW gone,
           p + lots <= total[l],
           \A k \in RestingAt(l) \ gone : \/ resting[k].ahead + resting[k].left <= p
                                          \/ p + lots <= resting[k].ahead,
           NEW r, r = Closer(l, p, lots), NEW k \in QueueIds
    PROVE  /\ k \notin RestingAt(l) => r[k] = resting[k]
           /\ r[k].status = resting[k].status /\ r[k].level = resting[k].level
           /\ r[k].left = resting[k].left
           /\ k \in RestingAt(l) \ gone =>
                 /\ r[k] = [resting[k] EXCEPT !.ahead = r[k].ahead]
                 /\ r[k].ahead \in Nat /\ r[k].ahead <= resting[k].ahead
                 /\ resting[k].ahead - lots <= r[k].ahead
                 /\ resting[k].ahead = 0 => r[k].ahead = 0
                 /\ r[k].ahead = IF resting[k].ahead > p THEN resting[k].ahead - lots
                                                         ELSE resting[k].ahead
                 /\ r[k].ahead + r[k].left <= total[l] - lots
  <1>1. /\ resting[k] \in Seat /\ total[l] \in Nat
        /\ k \in RestingAt(l) => resting[k].ahead + resting[k].left <= total[l] /\ resting[k].left > 0
    BY RestingAtType DEF Lines, LevelTypes, Within
  <1>2. r[k] = IF k \in RestingAt(l) /\ resting[k].ahead > p
               THEN [resting[k] EXCEPT !.ahead = @ - lots] ELSE resting[k]
    BY DEF Closer
  <1>3. resting[k] = [resting[k] EXCEPT !.ahead = resting[k].ahead]
    BY <1>1 DEF Seat
  <1>4. CASE k \in RestingAt(l) /\ resting[k].ahead > p
    <2>1. r[k] = [resting[k] EXCEPT !.ahead = resting[k].ahead - lots]
      BY <1>2, <1>4
    <2>2. /\ r[k].status = resting[k].status /\ r[k].level = resting[k].level
          /\ r[k].left = resting[k].left /\ r[k].ahead = resting[k].ahead - lots
      BY <1>1, <2>1 DEF Seat
    <2>3. k \notin gone => p + lots <= resting[k].ahead
      BY <1>1, <1>4 DEF Seat
    <2>4. resting[k].ahead \in Nat /\ resting[k].left \in Nat
      BY <1>1 DEF Seat
    <2> QED BY <1>1, <1>4, <2>1, <2>2, <2>3, <2>4
  <1>5. CASE ~ (k \in RestingAt(l) /\ resting[k].ahead > p)
    <2>1. r[k] = resting[k]
      BY <1>2, <1>5
    <2>2. resting[k].ahead \in Nat /\ resting[k].left \in Nat
      BY <1>1 DEF Seat
    <2>3. k \in RestingAt(l) \ gone => resting[k].ahead + resting[k].left <= p
      BY <1>1, <1>5, <2>2
    <2> QED BY <1>1, <1>3, <1>5, <2>1, <2>2, <2>3
  <1> QED BY <1>4, <1>5

-----------------------------------------------------------------------------
(* The slots *)

QueueSlotTypes == queued \in [QueueSlots -> Entry \cup {NotQueued}]

\* A slot keeps all but its estimate, which does not grow.
KeepsSlot(s) ==
    /\ queued[s] = NotQueued => queued'[s] = NotQueued
    /\ queued[s] # NotQueued =>
          /\ queued'[s] = [queued[s] EXCEPT !.ahead_qty = queued'[s].ahead_qty]
          /\ queued'[s].ahead_qty \in 0 .. queued[s].ahead_qty

\* The fields of an entry, and of one whose estimate is replaced.
LEMMA EntryFields ==
    ASSUME NEW o \in Entry
    PROVE  /\ o # NotQueued /\ o.id \in QueueIds /\ o.level \in Levels /\ o.qty \in Nat
           /\ o.ahead_qty \in 0 .. MaxLots /\ o.ahead_qty \in Nat
           /\ \A e \in 0 .. MaxLots :
                 LET u == [o EXCEPT !.ahead_qty = e]
                 IN  /\ u \in Entry /\ u.id = o.id /\ u.level = o.level /\ u.qty = o.qty
                     /\ u.ahead_qty = e
  <1>1. o # NotQueued
    <2>1. NotQueued.id = 0
      BY DEF NotQueued
    <2>2. o.id \in QueueIds
      BY DEF Entry
    <2> QED BY <2>1, <2>2, NoLevelApart
  <1> QED BY <1>1, QueueAssumption DEF Entry

\* A step that only moves estimates keeps the slots and their count.
LEMMA SlotsKept ==
    ASSUME QueueInv, \A s \in QueueSlots : KeepsSlot(s), DOMAIN queued' = QueueSlots,
           queued' = [s \in QueueSlots |-> queued'[s]], order_count' = order_count
    PROVE  /\ QueueSlotTypes' /\ OnePerOrder'
           /\ (order_count = Cardinality(QueueSlots \ QueueFree))'
           /\ \A s \in QueueSlots : queued'[s] # NotQueued <=> queued[s] # NotQueued
  <1>1. \A s \in QueueSlots : queued[s] \in Entry \/ queued[s] = NotQueued
    BY DEF QueueInv
  <1>2. ASSUME NEW s \in QueueSlots
        PROVE  /\ queued'[s] \in Entry \cup {NotQueued}
               /\ queued'[s] # NotQueued <=> queued[s] # NotQueued
               /\ queued'[s].id = queued[s].id
    <2>1. CASE queued[s] = NotQueued
      BY <2>1 DEF KeepsSlot
    <2>2. CASE queued[s] \in Entry
      <3>1. queued[s].ahead_qty \in 0 .. MaxLots /\ queued[s] # NotQueued
        BY <2>2, EntryFields
      <3>2. PICK e \in 0 .. MaxLots : queued'[s] = [queued[s] EXCEPT !.ahead_qty = e]
        <4>1. /\ queued'[s] = [queued[s] EXCEPT !.ahead_qty = queued'[s].ahead_qty]
              /\ queued'[s].ahead_qty \in 0 .. MaxLots
          BY <3>1, QueueAssumption DEF KeepsSlot
        <4> QED BY <4>1
      <3>3. queued'[s] \in Entry /\ queued'[s].id = queued[s].id
        BY <2>2, <3>2, EntryFields
      <3> QED BY <3>1, <3>3, EntryFields
    <2> QED BY <1>1, <2>1, <2>2
  <1>3. QueueSlotTypes'
    BY <1>2 DEF QueueSlotTypes
  <1>4. OnePerOrder'
    BY <1>2 DEF OnePerOrder, QueueInv
  <1>5. QueueFree' = QueueFree
    BY <1>2 DEF QueueFree
  <1> QED BY <1>2, <1>3, <1>4, <1>5 DEF QueueInv

\* on_level_change when lots leave the level.
LEMMA LevelChangeSlots ==
    ASSUME QueueInv, NEW l \in Levels, NEW lots \in 1 .. total[l],
           OnLevelChange(l, total[l], total[l] - lots)
    PROVE  /\ queued' = [s \in QueueSlots |-> queued'[s]] /\ DOMAIN queued' = QueueSlots
           /\ \A s \in QueueSlots :
                 /\ KeepsSlot(s)
                 /\ queued[s].level # l => queued'[s] = queued[s]
                 /\ queued[s] # NotQueued /\ queued[s].level = l =>
                       \A t, u, c \in Nat :
                          Apart(queued[s].ahead_qty, t) <= c /\ t - lots <= u /\ u <= t
                             /\ u <= total[l] - lots
                          => Apart(queued'[s].ahead_qty, u) <= Lower(c + lots, MaxLots)
  <1>1. total[l] \in 1 .. MaxLots /\ lots \in Nat \ {0}
    <2>1. LevelTypes /\ total[l] \in Nat
      BY DEF QueueInv, Lines, LevelTypes
    <2>2. total[l] <= Everywhere /\ Everywhere \in Int /\ Everywhere <= MaxLots
      BY <2>1, LevelBound DEF LevelTypes
    <2> QED BY <2>1, <2>2, QueueAssumption
  <1>2. total[l] - (total[l] - lots) = lots /\ ~ (total[l] - lots >= total[l])
    BY <1>1
  <1>3. PICK low \in SUBSET {s \in QueueSlots : queued[s].level = l} :
            queued' = [s \in QueueSlots |->
                IF queued[s].level = l
                THEN [queued[s] EXCEPT !.ahead_qty =
                         Positive(@ - CancelLots(@, total[l], lots, s \in low))]
                ELSE queued[s]]
    BY <1>2 DEF OnLevelChange
  <1>4. queued' = [s \in QueueSlots |-> queued'[s]] /\ DOMAIN queued' = QueueSlots
    <2> DEFINE Val(s) == IF queued[s].level = l
                THEN [queued[s] EXCEPT !.ahead_qty =
                         Positive(@ - CancelLots(@, total[l], lots, s \in low))]
                ELSE queued[s]
    <2>1. queued' = [s \in QueueSlots |-> Val(s)]
      BY <1>3
    <2> HIDE DEF Val
    <2> QED BY <2>1
  <1>5. ASSUME NEW s \in QueueSlots
        PROVE  /\ KeepsSlot(s)
               /\ queued[s].level # l => queued'[s] = queued[s]
               /\ queued[s] # NotQueued /\ queued[s].level = l =>
                       \A t, u, c \in Nat :
                          Apart(queued[s].ahead_qty, t) <= c /\ t - lots <= u /\ u <= t
                             /\ u <= total[l] - lots
                          => Apart(queued'[s].ahead_qty, u) <= Lower(c + lots, MaxLots)
    <2>1. queued[s] \in Entry \/ queued[s] = NotQueued
      BY DEF QueueInv
    <2>2. CASE queued[s] = NotQueued
      <3>1. queued[s].level # l
        BY <2>2, NoLevelApart DEF NotQueued
      <3>2. queued'[s] = queued[s]
        BY <1>3, <3>1
      <3> QED BY <2>2, <3>1, <3>2 DEF KeepsSlot
    <2>3. CASE queued[s] \in Entry /\ queued[s].level # l
      <3>1. queued'[s] = queued[s]
        BY <1>3, <2>3
      <3>2. queued[s] = [queued[s] EXCEPT !.ahead_qty = queued[s].ahead_qty]
        BY <2>3 DEF Entry
      <3>3. queued[s].ahead_qty \in 0 .. queued[s].ahead_qty
        BY <2>3, QueueAssumption DEF Entry
      <3> QED BY <2>3, <3>1, <3>2, <3>3 DEF KeepsSlot
    <2>4. CASE queued[s] \in Entry /\ queued[s].level = l
      <3> DEFINE F == queued[s].ahead_qty
                 e == Positive(F - CancelLots(F, total[l], lots, s \in low))
      <3>1. queued'[s] = [queued[s] EXCEPT !.ahead_qty = e]
        BY <1>3, <2>4
      <3>2. F \in 0 .. MaxLots /\ queued[s] # NotQueued
        BY <2>4, EntryFields
      <3>3. /\ e \in 0 .. F
            /\ \A t, u, c \in Nat :
                  Apart(F, t) <= c /\ t - lots <= u /\ u <= t /\ u <= total[l] - lots
                     => Apart(e, u) <= Lower(c + lots, MaxLots)
        <4>1. (s \in low) \in BOOLEAN
          OBVIOUS
        <4> HIDE DEF F
        <4> QED BY <1>1, <3>2, <4>1, EstimateAfter
      <3>4. queued'[s].ahead_qty = e
        <4>1. e \in 0 .. MaxLots
          BY <3>2, <3>3, QueueAssumption
        <4> HIDE DEF e
        <4> QED BY <2>4, <3>1, <4>1, EntryFields
      <3> HIDE DEF e
      <3> QED BY <2>4, <3>1, <3>2, <3>3, <3>4 DEF KeepsSlot
    <2> QED BY <2>1, <2>2, <2>3, <2>4
  <1> QED BY <1>4, <1>5

\* on_trade at a level.
LEMMA TradeSlots ==
    ASSUME QueueInv, NEW l \in Levels, NEW lots \in Nat, OnTrade(l, lots)
    PROVE  /\ queued' = [s \in QueueSlots |-> queued'[s]] /\ DOMAIN queued' = QueueSlots
           /\ \A s \in QueueSlots :
                 /\ KeepsSlot(s)
                 /\ queued[s].level # l => queued'[s] = queued[s]
                 /\ queued[s] # NotQueued /\ queued[s].level = l =>
                       queued'[s].ahead_qty = Positive(queued[s].ahead_qty - lots)
  <1>1. queued' = [s \in QueueSlots |->
                     IF queued[s].level = l
                     THEN [queued[s] EXCEPT !.ahead_qty = @ - Lower(lots, @)]
                     ELSE queued[s]]
    BY DEF OnTrade
  <1>2. queued' = [s \in QueueSlots |-> queued'[s]] /\ DOMAIN queued' = QueueSlots
    BY <1>1
  <1>3. ASSUME NEW s \in QueueSlots
        PROVE  /\ KeepsSlot(s)
               /\ queued[s].level # l => queued'[s] = queued[s]
               /\ queued[s] # NotQueued /\ queued[s].level = l =>
                       queued'[s].ahead_qty = Positive(queued[s].ahead_qty - lots)
    <2>1. queued[s] \in Entry \/ queued[s] = NotQueued
      BY DEF QueueInv
    <2>2. CASE queued[s] = NotQueued
      <3>1. queued[s].level # l
        BY <2>2, NoLevelApart DEF NotQueued
      <3>2. queued'[s] = queued[s]
        BY <1>1, <3>1
      <3> QED BY <2>2, <3>1, <3>2 DEF KeepsSlot
    <2>3. CASE queued[s] \in Entry /\ queued[s].level # l
      <3>1. queued'[s] = queued[s]
        BY <1>1, <2>3
      <3>2. queued[s] = [queued[s] EXCEPT !.ahead_qty = queued[s].ahead_qty]
        BY <2>3 DEF Entry
      <3>3. queued[s].ahead_qty \in 0 .. queued[s].ahead_qty
        BY <2>3, QueueAssumption DEF Entry
      <3> QED BY <2>3, <3>1, <3>2, <3>3 DEF KeepsSlot
    <2>4. CASE queued[s] \in Entry /\ queued[s].level = l
      <3> DEFINE F == queued[s].ahead_qty
                 e == F - Lower(lots, F)
      <3>1. queued'[s] = [queued[s] EXCEPT !.ahead_qty = e]
        BY <1>1, <2>4
      <3>2. F \in 0 .. MaxLots /\ F \in Nat /\ queued[s] # NotQueued
        BY <2>4, EntryFields
      <3>3. e \in 0 .. F /\ e = Positive(F - lots)
        <4> HIDE DEF F
        <4> QED BY <3>2 DEF Lower, Positive
      <3>4. queued'[s].ahead_qty = e
        <4>1. e \in 0 .. MaxLots
          BY <3>2, <3>3, QueueAssumption
        <4> HIDE DEF e
        <4> QED BY <2>4, <3>1, <4>1, EntryFields
      <3> HIDE DEF e
      <3> QED BY <2>4, <3>1, <3>2, <3>3, <3>4 DEF KeepsSlot
    <2> QED BY <2>1, <2>2, <2>3, <2>4
  <1> QED BY <1>2, <1>3

\* The fields of a slot in use that is kept.
LEMMA KeptFields ==
    ASSUME NEW s \in QueueSlots, queued[s] \in Entry, KeepsSlot(s)
    PROVE  /\ queued'[s].id = queued[s].id /\ queued'[s].level = queued[s].level
           /\ queued'[s].qty = queued[s].qty
           /\ queued'[s].ahead_qty \in 0 .. queued[s].ahead_qty
           /\ queued'[s].ahead_qty \in 0 .. MaxLots
  <1>1. queued[s] # NotQueued /\ queued[s].ahead_qty \in 0 .. MaxLots
    BY EntryFields
  <1>2. queued'[s].ahead_qty \in 0 .. queued[s].ahead_qty
    BY <1>1 DEF KeepsSlot
  <1>3. queued'[s].ahead_qty \in 0 .. MaxLots
    BY <1>1, <1>2, QueueAssumption
  <1>4. PICK e \in 0 .. MaxLots : queued'[s] = [queued[s] EXCEPT !.ahead_qty = e]
    BY <1>1, <1>3 DEF KeepsSlot
  <1> QED BY <1>2, <1>3, <1>4, EntryFields

(***************************************************************************)
(* Lots leave a queue: some of our orders may go with them.                *)
(***************************************************************************)
LEMMA QueueShrinks ==
    ASSUME QueueInv, NEW l \in Levels, NEW p \in Nat, NEW lots \in Nat \ {0},
           NEW gone \in SUBSET RestingAt(l),
           p + lots <= total[l],
           \A k \in RestingAt(l) \ gone : \/ resting[k].ahead + resting[k].left <= p
                                          \/ p + lots <= resting[k].ahead,
           resting' = [k \in QueueIds |-> IF k \in gone
                                          THEN [resting[k] EXCEPT !.status = "cancelled"]
                                          ELSE Closer(l, p, lots)[k]],
           total' = [total EXCEPT ![l] = @ - lots],
           CountCancelled(l, lots),
           OnLevelChange(l, total[l], total[l] - lots),
           fills' = fills, order_count' = order_count
    PROVE  QueueInv'
  <1> DEFINE r == Closer(l, p, lots)
  <1>1. /\ LevelTypes /\ Lines /\ total[l] \in Nat /\ lots \in 1 .. total[l]
        /\ resting \in [QueueIds -> Seat]
        /\ fills \in [QueueIds -> Nat] /\ cancelled \in [QueueIds -> Nat]
    BY DEF QueueInv, Lines, LevelTypes
  <1>2. ASSUME NEW k \in QueueIds
        PROVE  /\ k \notin RestingAt(l) => r[k] = resting[k]
               /\ r[k].status = resting[k].status /\ r[k].level = resting[k].level
               /\ r[k].left = resting[k].left
               /\ k \in RestingAt(l) \ gone =>
                     /\ r[k] = [resting[k] EXCEPT !.ahead = r[k].ahead]
                     /\ r[k].ahead \in Nat /\ r[k].ahead <= resting[k].ahead
                     /\ resting[k].ahead - lots <= r[k].ahead
                     /\ resting[k].ahead = 0 => r[k].ahead = 0
                     /\ r[k].ahead = IF resting[k].ahead > p THEN resting[k].ahead - lots
                                                             ELSE resting[k].ahead
                     /\ r[k].ahead + r[k].left <= total[l] - lots
    BY <1>1, LinesShrink
  <1> HIDE DEF r
  <1>3. ASSUME NEW k \in QueueIds
        PROVE  resting'[k] = IF k \in gone THEN [resting[k] EXCEPT !.status = "cancelled"] ELSE r[k]
    BY DEF r
  <1>4. /\ total' \in [Levels -> Nat] /\ Everywhere' <= MaxLots
        /\ total'[l] = total[l] - lots
        /\ \A m \in Levels \ {l} : total'[m] = total[m]
    <2>1. total[l] - lots \in Nat /\ total' = [total EXCEPT ![l] = total[l] - lots]
      BY <1>1
    <2>2. Everywhere + (total[l] - lots) - total[l] <= MaxLots
      <3>1. Everywhere \in Int /\ Everywhere <= MaxLots
        BY <1>1, LevelBound DEF LevelTypes
      <3> QED BY <1>1, <3>1, QueueAssumption
    <2>3. DOMAIN total = Levels
      BY <1>1 DEF LevelTypes
    <2> QED BY <1>1, <2>1, <2>2, <2>3, LevelChanged
  \* What becomes of each order.
  <1>5. ASSUME NEW k \in QueueIds
        PROVE  /\ resting'[k] \in Seat
               /\ resting'[k].level = resting[k].level /\ resting'[k].left = resting[k].left
               /\ fills[k] > 0 => resting'[k].ahead = 0
               /\ k \in gone => resting'[k].status = "cancelled"
               /\ k \notin gone => resting'[k].status = resting[k].status
               /\ k \notin RestingAt(l) => resting'[k] = resting[k]
    <2>1. resting[k] \in Seat /\ (fills[k] > 0 => resting[k].ahead = 0)
      BY <1>1 DEF Lines, Within
    <2>2. CASE k \in gone
      <3>1. resting'[k] = [resting[k] EXCEPT !.status = "cancelled"] /\ k \in RestingAt(l)
        BY <1>3, <2>2
      <3> QED BY <2>1, <2>2, <3>1 DEF Seat
    <2>3. CASE k \notin RestingAt(l)
      <3>1. resting'[k] = resting[k]
        BY <1>2, <1>3, <2>3
      <3> QED BY <2>1, <2>3, <3>1
    <2>4. CASE k \in RestingAt(l) \ gone
      <3>1. resting'[k] = r[k]
        BY <1>3, <2>4
      <3>2. PICK a \in Nat : r[k] = [resting[k] EXCEPT !.ahead = a]
        BY <1>2, <2>4
      <3>3. r[k] \in Seat
        BY <2>1, <3>2 DEF Seat
      <3> QED BY <1>2, <2>1, <2>4, <3>1, <3>3
    <2> QED BY <2>2, <2>3, <2>4
  <1>6. cancelled' = [id \in QueueIds |-> IF id \in RestingAt(l)
                                          THEN Lower(cancelled[id] + lots, MaxLots)
                                          ELSE cancelled[id]]
    BY DEF CountCancelled
  <1>7. LevelTypes'
    <2>1. cancelled' \in [QueueIds -> Nat]
      BY <1>1, <1>6, QueueAssumption DEF Lower
    <2>2. resting' \in [QueueIds -> Seat]
      BY <1>5
    <2> QED BY <1>1, <1>4, <2>1, <2>2 DEF LevelTypes
  <1>8. ASSUME NEW k \in QueueIds PROVE Within(k)'
    <2>1. Within(k)
      BY <1>1 DEF Lines
    <2>2. CASE k \notin RestingAt(l)
      <3>1. resting[k].status = "resting" => resting[k].level # l
        BY <2>2, RestingAtType
      <3>2. resting'[k] = resting[k]
        BY <1>5, <2>2
      <3> QED BY <1>4, <2>1, <3>1, <3>2 DEF Within
    <2>3. CASE k \in gone
      BY <1>5, <2>3 DEF Within
    <2>4. CASE k \in RestingAt(l) \ gone
      <3>1. resting[k].status = "resting" /\ resting[k].level = l
        BY <2>4, RestingAtType
      <3>2. resting'[k] = r[k]
        BY <1>3, <2>4
      <3> QED BY <1>2, <1>4, <1>5, <2>1, <2>4, <3>1, <3>2 DEF Within
    <2> QED BY <2>2, <2>3, <2>4
  <1>9. ASSUME NEW k \in QueueIds, NEW j \in QueueIds, k # j PROVE Disjoint(k, j)'
    <2> SUFFICES ASSUME resting'[k].status = "resting", resting'[j].status = "resting",
                        resting'[k].level = resting'[j].level
                 PROVE  \/ resting'[k].ahead + resting'[k].left <= resting'[j].ahead
                        \/ resting'[j].ahead + resting'[j].left <= resting'[k].ahead
      BY DEF Disjoint
    <2>1. k \notin gone /\ j \notin gone
      BY <1>5
    <2>2. /\ resting[k].status = "resting" /\ resting[j].status = "resting"
          /\ resting[k].level = resting[j].level
      BY <1>5, <2>1
    <2>3. \/ resting[k].ahead + resting[k].left <= resting[j].ahead
          \/ resting[j].ahead + resting[j].left <= resting[k].ahead
      BY <1>1, <1>9, <2>2 DEF Lines, Disjoint
    <2>4. resting[k] \in Seat /\ resting[j] \in Seat
      BY <1>1
    <2>5. CASE resting[k].level # l
      <3>1. k \notin RestingAt(l) /\ j \notin RestingAt(l)
        BY <2>2, <2>5, RestingAtType
      <3> QED BY <1>5, <2>3, <3>1
    <2>6. CASE resting[k].level = l
      <3>1. k \in RestingAt(l) \ gone /\ j \in RestingAt(l) \ gone
        BY <2>1, <2>2, <2>6, RestingAtType
      <3>2. resting'[k] = r[k] /\ resting'[j] = r[j]
        BY <1>3, <2>1
      <3>3. /\ resting[k].ahead \in Nat /\ resting[k].left \in Nat
            /\ resting[j].ahead \in Nat /\ resting[j].left \in Nat
        BY <2>4 DEF Seat
      <3>4. /\ resting[k].ahead + resting[k].left <= p \/ p + lots <= resting[k].ahead
            /\ resting[j].ahead + resting[j].left <= p \/ p + lots <= resting[j].ahead
            /\ resting[k].left > 0 /\ resting[j].left > 0
        BY <1>1, <2>2, <3>1 DEF Lines, Within
      <3>5. /\ r[k].left = resting[k].left /\ r[j].left = resting[j].left
            /\ r[k].ahead = IF resting[k].ahead > p THEN resting[k].ahead - lots
                                                    ELSE resting[k].ahead
            /\ r[j].ahead = IF resting[j].ahead > p THEN resting[j].ahead - lots
                                                    ELSE resting[j].ahead
        BY <1>2, <3>1
      <3>6. lots \in Nat /\ p \in Nat /\ lots > 0
        OBVIOUS
      <3> HIDE DEF r
      <3> QED BY ONLY <2>3, <3>2, <3>3, <3>4, <3>5, <3>6
    <2> QED BY <2>5, <2>6
  <1>10. Lines'
    BY <1>7, <1>8, <1>9 DEF Lines
  \* What becomes of each slot.
  <1>11. /\ queued' = [s \in QueueSlots |-> queued'[s]] /\ DOMAIN queued' = QueueSlots
         /\ \A s \in QueueSlots :
                 /\ KeepsSlot(s)
                 /\ queued[s].level # l => queued'[s] = queued[s]
                 /\ queued[s] # NotQueued /\ queued[s].level = l =>
                       \A t, u, c \in Nat :
                          Apart(queued[s].ahead_qty, t) <= c /\ t - lots <= u /\ u <= t
                             /\ u <= total[l] - lots
                          => Apart(queued'[s].ahead_qty, u) <= Lower(c + lots, MaxLots)
    BY <1>1, LevelChangeSlots
  <1>12. /\ QueueSlotTypes' /\ OnePerOrder'
         /\ (order_count = Cardinality(QueueSlots \ QueueFree))'
         /\ \A s \in QueueSlots : queued'[s] # NotQueued <=> queued[s] # NotQueued
    BY <1>11, SlotsKept
  <1>13. ASSUME NEW s \in QueueSlots, queued'[s] # NotQueued
         PROVE  Follows(queued[s])'
    <2> DEFINE o == queued[s]
               k == o.id
    <2>1. o \in Entry /\ Follows(o) /\ o # NotQueued
      BY <1>12, <1>13 DEF QueueInv
    <2>2. /\ k \in QueueIds /\ o.ahead_qty \in 0 .. MaxLots /\ o.qty \in Nat /\ o.level \in Levels
      BY <2>1, EntryFields
    <2>3. /\ queued'[s].id = k /\ queued'[s].level = o.level /\ queued'[s].qty = o.qty
          /\ queued'[s].ahead_qty \in 0 .. o.ahead_qty
      BY <1>11, <2>1, KeptFields
    <2> HIDE DEF o
    <2> DEFINE u == resting'[k]
               t == resting[k]
    <2>4. t \in Seat /\ u \in Seat /\ cancelled[k] \in Nat /\ Within(k)
      BY <1>1, <1>5, <2>2 DEF Lines
    <2>5. /\ t.status # "unsent" /\ (t.status = "resting" => t.level = o.level)
          /\ (t.status = "done" => fills[k] > 0) /\ o.qty = t.left + fills[k]
          /\ (t.status # "cancelled" => Apart(o.ahead_qty, t.ahead) <= cancelled[k])
      BY <2>1 DEF Follows
    <2>6. u.level = t.level /\ u.left = t.left /\ (u.status = t.status \/ u.status = "cancelled")
      BY <1>5, <2>2
    <2>7. ASSUME u.status # "cancelled"
          PROVE  Apart(queued'[s].ahead_qty, u.ahead) <= cancelled'[k]
      <3>1. CASE k \in RestingAt(l)
        <4>1. k \notin gone /\ t.status = "resting" /\ t.level = l
          BY <1>5, <2>2, <2>7, <3>1, RestingAtType
        <4>2. /\ u.ahead \in Nat /\ t.ahead - lots <= u.ahead /\ u.ahead <= t.ahead
              /\ u.ahead + u.left <= total[l] - lots
          BY <1>2, <1>3, <2>2, <3>1, <4>1
        <4>3. t.ahead \in Nat /\ u.left \in Nat
          BY <2>4 DEF Seat
        <4>4. u.ahead <= total[l] - lots
          BY <1>1, <4>2, <4>3
        <4>5. cancelled'[k] = Lower(cancelled[k] + lots, MaxLots)
          BY <1>6, <2>2, <3>1
        <4>6. Apart(queued[s].ahead_qty, t.ahead) <= cancelled[k] /\ queued[s].level = l
              /\ queued[s] # NotQueued
          BY <2>1, <2>5, <4>1 DEF o
        <4> HIDE DEF t, u, k
        <4> QED BY <1>11, <2>4, <4>2, <4>3, <4>4, <4>5, <4>6
      <3>2. CASE k \notin RestingAt(l)
        <4>1. u = t /\ cancelled'[k] = cancelled[k]
          BY <1>5, <1>6, <2>2, <3>2
        <4>2. CASE t.status = "resting"
          <5>1. o.level # l
            BY <2>2, <2>5, <3>2, <4>2, RestingAtType
          <5>2. queued'[s] = o
            BY <1>11, <5>1 DEF o
          <5> QED BY <2>5, <2>7, <4>1, <5>2
        <4>3. CASE t.status # "resting"
          <5>1. t.status = "done"
            BY <2>4, <2>5, <2>7, <4>1, <4>3 DEF Seat
          <5>2. t.ahead = 0
            BY <2>4, <5>1 DEF Within, Done, Unsent
          <5>3. Apart(o.ahead_qty, 0) <= cancelled[k]
            BY <2>5, <5>1, <5>2
          <5> HIDE DEF t, u, k
          <5> QED BY <2>2, <2>3, <2>4, <4>1, <5>2, <5>3, QueueAssumption DEF Apart
        <4> QED BY <4>2, <4>3
      <3> QED BY <3>1, <3>2
    <2> QED BY <2>3, <2>5, <2>6, <2>7 DEF Follows
  <1> QED BY <1>10, <1>12, <1>13 DEF QueueInv, QueueSlotTypes

\* A level that shrinks preserves the invariant.
LEMMA LevelShrinksStep ==
    ASSUME QueueInv, NEW l \in Levels, NEW p \in 0 .. MaxLots, NEW lots \in 1 .. MaxLots,
           LevelShrinks(l, p, lots)
    PROVE  QueueInv'
  <1>1. p \in Nat /\ lots \in Nat \ {0} /\ p + lots <= total[l]
    BY QueueAssumption DEF LevelShrinks
  <1>2. ASSUME NEW k \in RestingAt(l)
        PROVE  \/ resting[k].ahead + resting[k].left <= p
               \/ p + lots <= resting[k].ahead
    <2> DEFINE a == resting[k].ahead
               n == resting[k].left
               m == IF a < p THEN p ELSE a
    <2>1. a \in Nat /\ n \in Nat \ {0}
      BY RestingAtType DEF QueueInv, Lines, LevelTypes, Within, Seat
    <2>2. (p .. p + lots - 1) \cap OwnOffsets(l) = {}
      BY DEF LevelShrinks
    <2>3. \A x \in a .. a + n - 1 : x \in OwnOffsets(l)
      BY DEF OwnOffsets
    <2> HIDE DEF a, n
    <2>4. ASSUME ~ (a + n <= p), ~ (p + lots <= a) PROVE FALSE
      <3>1. m \in p .. p + lots - 1 /\ m \in a .. a + n - 1
        BY <1>1, <2>1, <2>4
      <3> QED BY <2>2, <2>3, <3>1
    <2> QED BY <2>4 DEF a, n
  <1>3. resting' = [k \in QueueIds |-> IF k \in {}
                                       THEN [resting[k] EXCEPT !.status = "cancelled"]
                                       ELSE Closer(l, p, lots)[k]]
    <2>1. resting' = Closer(l, p, lots)
      BY DEF LevelShrinks
    <2>2. Closer(l, p, lots) = [k \in QueueIds |-> Closer(l, p, lots)[k]]
      BY DEF Closer
    <2> QED BY <2>1, <2>2
  <1>4. \A k \in RestingAt(l) \ {} : \/ resting[k].ahead + resting[k].left <= p
                                     \/ p + lots <= resting[k].ahead
    BY <1>2
  <1>5. /\ total' = [total EXCEPT ![l] = @ - lots] /\ CountCancelled(l, lots)
        /\ OnLevelChange(l, total[l], total[l] - lots)
        /\ fills' = fills /\ order_count' = order_count
    BY DEF LevelShrinks
  <1>6. {} \in SUBSET RestingAt(l)
    OBVIOUS
  <1> QED BY <1>1, <1>3, <1>4, <1>5, <1>6, QueueShrinks

\* Our own cancel preserves the invariant.
LEMMA CancelOrderStep ==
    ASSUME QueueInv, NEW id \in QueueIds, CancelOrder(id)
    PROVE  QueueInv'
  <1> DEFINE l == resting[id].level
             p == resting[id].ahead
             lots == resting[id].left
  <1>1. Lines /\ resting \in [QueueIds -> Seat] /\ resting[id] \in Seat /\ Within(id)
    BY DEF QueueInv, Lines, LevelTypes
  <1>2. l \in Levels /\ p \in Nat /\ lots \in Nat \ {0} /\ p + lots <= total[l]
        /\ resting[id].status = "resting" /\ id \in RestingAt(l)
    BY <1>1, RestingAtType DEF CancelOrder, Within, Seat
  <1>3. ASSUME NEW k \in RestingAt(l) \ {id}
        PROVE  \/ resting[k].ahead + resting[k].left <= p
               \/ p + lots <= resting[k].ahead
    <2>1. k \in QueueIds /\ resting[k].status = "resting" /\ resting[k].level = l
      BY RestingAtType
    <2>2. Disjoint(k, id)
      BY <1>1, <1>3, <2>1 DEF Lines
    <2> QED BY <1>2, <2>1, <2>2 DEF Disjoint
  <1>4. resting' = [k \in QueueIds |-> IF k \in {id}
                                       THEN [resting[k] EXCEPT !.status = "cancelled"]
                                       ELSE Closer(l, p, lots)[k]]
    <2>1. resting' = [Closer(l, p, lots) EXCEPT ![id].status = "cancelled"]
      BY DEF CancelOrder
    <2>2. Closer(l, p, lots) = [k \in QueueIds |-> Closer(l, p, lots)[k]]
      BY DEF Closer
    <2>3. Closer(l, p, lots)[id] = resting[id]
      BY <1>2 DEF Closer
    <2> DEFINE c == Closer(l, p, lots)
    <2> HIDE DEF c
    <2>4. resting' = [c EXCEPT ![id] = [c[id] EXCEPT !.status = "cancelled"]]
      BY <2>1 DEF c
    <2>5. c = [k \in QueueIds |-> c[k]] /\ c[id] = resting[id]
      BY <2>2, <2>3 DEF c
    <2>6. resting' = [k \in QueueIds |-> IF k \in {id} THEN [resting[k] EXCEPT !.status = "cancelled"]
                                                       ELSE c[k]]
      BY <2>4, <2>5
    <2> QED BY <2>6 DEF c
  <1>5. /\ total' = [total EXCEPT ![l] = @ - lots] /\ CountCancelled(l, lots)
        /\ OnLevelChange(l, total[l], total[l] - lots)
        /\ fills' = fills /\ order_count' = order_count
    BY DEF CancelOrder
  <1>6. {id} \in SUBSET RestingAt(l)
    BY <1>2
  <1> HIDE DEF l, p, lots
  <1> QED BY <1>2, <1>3, <1>4, <1>5, <1>6, QueueShrinks

\* A level that grows preserves the invariant.
LEMMA LevelGrowsStep ==
    ASSUME QueueInv, NEW l \in Levels, NEW lots \in 1 .. MaxTrade, LevelGrows(l, lots)
    PROVE  QueueInv'
  <1>1. LevelTypes /\ Lines /\ total[l] \in Nat /\ lots \in Nat
    BY QueueAssumption DEF QueueInv, Lines, LevelTypes
  <1>2. /\ total' = [total EXCEPT ![l] = @ + lots] /\ Everywhere + lots <= MaxLots
        /\ queued' = queued /\ order_count' = order_count
        /\ resting' = resting /\ fills' = fills /\ cancelled' = cancelled
    BY <1>1 DEF LevelGrows, OnLevelChange
  <1>3. total' \in [Levels -> Nat] /\ Everywhere' <= MaxLots
    <2>1. total[l] + lots \in Nat /\ total' = [total EXCEPT ![l] = total[l] + lots]
      BY <1>1, <1>2
    <2>2. Everywhere + (total[l] + lots) - total[l] <= MaxLots
      <3>1. Everywhere \in Int
        BY <1>1, LevelBound
      <3> QED BY <1>1, <1>2, <3>1, QueueAssumption
    <2> QED BY <1>1, <2>1, <2>2, LevelChanged
  <1>4. \A m \in Levels : total[m] <= total'[m] /\ total[m] \in Nat /\ total'[m] \in Nat
    BY <1>1, <1>2 DEF LevelTypes
  <1>5. ASSUME NEW k \in QueueIds PROVE Within(k)'
    <2>1. Within(k) /\ resting[k].ahead \in Nat /\ resting[k].left \in Nat
      BY <1>1 DEF Lines, LevelTypes, Seat
    <2> QED BY <1>2, <1>4, <2>1 DEF Within
  <1>6. Lines'
    BY <1>1, <1>2, <1>3, <1>5 DEF Lines, LevelTypes, Disjoint
  <1>7. \A s \in QueueSlots : queued'[s] # NotQueued => Follows(queued[s])'
    BY <1>2 DEF QueueInv, Follows
  <1> QED BY <1>2, <1>6, <1>7 DEF QueueInv, OnePerOrder, QueueFree

\* A trade at a level preserves the invariant.
LEMMA TradeAtStep ==
    ASSUME QueueInv, NEW l \in Levels, NEW lots \in 1 .. MaxTrade, TradeAt(l, lots)
    PROVE  QueueInv'
  <1> DEFINE Filled(id) == IF id \in RestingAt(l)
                           THEN Lower(resting[id].left, Positive(lots - resting[id].ahead)) ELSE 0
  <1>1. /\ LevelTypes /\ Lines /\ total[l] \in Nat /\ lots \in Nat /\ lots <= total[l]
        /\ resting \in [QueueIds -> Seat]
        /\ fills \in [QueueIds -> Nat] /\ cancelled \in [QueueIds -> Nat]
    <2>1. lots <= total[l]
      BY DEF TradeAt
    <2>2. lots \in Nat
      BY QueueAssumption
    <2> QED BY <2>1, <2>2 DEF QueueInv, Lines, LevelTypes
  <1>2. /\ total' = [total EXCEPT ![l] = @ - lots]
        /\ resting' = [id \in QueueIds |->
               IF id \notin RestingAt(l) THEN resting[id]
               ELSE IF Filled(id) = resting[id].left THEN Done
               ELSE [resting[id] EXCEPT !.ahead = Positive(@ - lots), !.left = @ - Filled(id)]]
        /\ fills' = [id \in QueueIds |-> fills[id] + Filled(id)]
        /\ OnTrade(l, lots) /\ order_count' = order_count /\ cancelled' = cancelled
    BY DEF TradeAt
  <1>3. /\ total' \in [Levels -> Nat] /\ Everywhere' <= MaxLots
        /\ total'[l] = total[l] - lots
        /\ \A m \in Levels \ {l} : total'[m] = total[m]
    <2>1. total[l] - lots \in Nat /\ total' = [total EXCEPT ![l] = total[l] - lots]
      <3>1. total' = [total EXCEPT ![l] = total[l] - lots]
        BY <1>2
      <3> QED BY <1>1, <3>1
    <2>2. Everywhere + (total[l] - lots) - total[l] <= MaxLots
      <3>1. Everywhere \in Int /\ Everywhere <= MaxLots
        BY <1>1, LevelBound DEF LevelTypes
      <3> QED BY <1>1, <3>1, QueueAssumption
    <2>3. DOMAIN total = Levels
      BY <1>1 DEF LevelTypes
    <2> QED BY <1>1, <2>1, <2>2, <2>3, LevelChanged
  \* What becomes of an order at the level: it is done, or moves up.
  <1>4. ASSUME NEW k \in RestingAt(l)
        PROVE  LET a == resting[k].ahead
                   n == resting[k].left
               IN  /\ k \in QueueIds /\ resting[k].level = l /\ resting[k].status = "resting"
                   /\ a \in Nat /\ n \in Nat \ {0} /\ a + n <= total[l]
                   /\ a + n <= lots => resting'[k] = Done /\ fills'[k] = fills[k] + n
                   /\ a + n > lots =>
                         /\ resting'[k] \in Seat
                         /\ resting'[k].status = "resting" /\ resting'[k].level = l
                         /\ resting'[k].ahead = Positive(a - lots)
                         /\ resting'[k].ahead + resting'[k].left = a + n - lots
                         /\ resting'[k].left \in Nat \ {0}
                         /\ fills'[k] = fills[k] + n - resting'[k].left
                         /\ fills'[k] > fills[k] => resting'[k].ahead = 0
    <2> DEFINE a == resting[k].ahead
               n == resting[k].left
               g == Lower(n, Positive(lots - a))
    <2>1. k \in QueueIds /\ resting[k].level = l /\ resting[k].status = "resting"
      BY RestingAtType
    <2>2. resting[k] \in Seat /\ a \in Nat /\ n \in Nat \ {0} /\ a + n <= total[l]
      BY <1>1, <2>1 DEF Lines, Within, Seat
    <2>3. /\ fills[k] \in Nat /\ fills'[k] = fills[k] + g
          /\ resting'[k] = IF g = n THEN Done
                           ELSE [resting[k] EXCEPT !.ahead = Positive(a - lots), !.left = n - g]
      BY <1>1, <1>2, <2>1
    <2>4. /\ g \in Nat /\ (g = n <=> a + n <= lots)
          /\ a + n > lots => n - g \in Nat \ {0} /\ Positive(a - lots) + (n - g) = a + n - lots
          /\ g > 0 => Positive(a - lots) = 0
          /\ Positive(a - lots) \in Nat
      <3> HIDE DEF a, n
      <3> QED BY <1>1, <2>2 DEF Lower, Positive
    <2>5. CASE a + n <= lots
      BY <2>1, <2>2, <2>3, <2>4, <2>5
    <2>6. CASE a + n > lots
      <3> DEFINE b == Positive(a - lots)
                 m == n - g
      <3>1. resting'[k] = [resting[k] EXCEPT !.ahead = b, !.left = m] /\ b \in Nat /\ m \in Nat
        BY <2>1, <2>2, <2>3, <2>4, <2>6
      <3>2. m \in Nat \ {0} /\ b + m = a + n - lots /\ (g > 0 => b = 0)
            /\ fills'[k] = fills[k] + n - m /\ (fills'[k] > fills[k] => g > 0)
        <4>1. n \in Nat /\ g \in Nat /\ fills[k] \in Nat
          BY <2>2, <2>3, <2>4
        <4> HIDE DEF a, n, g
        <4> QED BY <4>1, <2>3, <2>4, <2>6
      <3> HIDE DEF b, m, g
      <3>3. /\ resting'[k] \in Seat /\ resting'[k].status = "resting" /\ resting'[k].level = l
            /\ resting'[k].ahead = b /\ resting'[k].left = m
        BY <2>1, <2>2, <3>1 DEF Seat
      <3>4. b = Positive(a - lots)
        BY DEF b
      <3> HIDE DEF a, n
      <3> QED BY <2>1, <2>2, <2>6, <3>2, <3>3, <3>4 DEF a, n
    <2> QED BY <2>2, <2>5, <2>6
  <1>5. ASSUME NEW k \in QueueIds \ RestingAt(l)
        PROVE  resting'[k] = resting[k] /\ fills'[k] = fills[k]
    <2>1. resting'[k] = resting[k]
      BY <1>2
    <2>2. fills'[k] = fills[k] + 0 /\ fills[k] \in Nat
      BY <1>1, <1>2
    <2> QED BY <2>1, <2>2
  <1>6. LevelTypes'
    <2>1. Done \in Seat
      BY DEF Done, Unsent, Seat
    <2>2. ASSUME NEW k \in QueueIds PROVE resting'[k] \in Seat /\ fills'[k] \in Nat
      <3>1. CASE k \in RestingAt(l)
        <4>1. fills[k] \in Nat
          BY <1>1
        <4>2. CASE resting[k].ahead + resting[k].left <= lots
          BY <1>4, <2>1, <3>1, <4>1, <4>2
        <4>3. CASE resting[k].ahead + resting[k].left > lots
          <5>1. resting'[k] \in Seat
            BY <1>4, <3>1, <4>3
          <5>2. /\ fills'[k] = fills[k] + resting[k].left - resting'[k].left
                /\ resting'[k].ahead + resting'[k].left = resting[k].ahead + resting[k].left - lots
                /\ resting'[k].left \in Nat /\ resting[k].left \in Nat /\ resting[k].ahead \in Nat
                /\ resting'[k].ahead = Positive(resting[k].ahead - lots)
            BY <1>4, <3>1, <4>3
          <5>3. fills'[k] \in Nat
            BY <1>1, <4>1, <5>2 DEF Positive
          <5> QED BY <5>1, <5>3
        <4> QED BY <1>1, <1>4, <3>1, <4>2, <4>3
      <3>2. CASE k \notin RestingAt(l)
        BY <1>1, <1>5, <3>2
      <3> QED BY <3>1, <3>2
    <2>3. resting' \in [QueueIds -> Seat] /\ fills' \in [QueueIds -> Nat]
      BY <1>2, <2>2
    <2> QED BY <1>1, <1>2, <1>3, <2>3 DEF LevelTypes
  <1>7. ASSUME NEW k \in QueueIds PROVE Within(k)'
    <2>1. Within(k)
      BY <1>1 DEF Lines
    <2>2. CASE k \notin RestingAt(l)
      <3>1. resting[k].status = "resting" => resting[k].level # l
        BY <2>2, RestingAtType
      <3> QED BY <1>3, <1>5, <2>1, <2>2, <3>1 DEF Within
    <2>3. CASE k \in RestingAt(l) /\ resting[k].ahead + resting[k].left <= lots
      <3>1. resting'[k] = Done
        BY <1>4, <2>3
      <3> QED BY <3>1 DEF Within, Done, Unsent
    <2>4. CASE k \in RestingAt(l) /\ resting[k].ahead + resting[k].left > lots
      <3>1. fills'[k] > 0 => resting'[k].ahead = 0
        <4>1. fills[k] > 0 => resting[k].ahead = 0
          BY <2>1 DEF Within
        <4>2. fills'[k] \in Nat /\ fills[k] \in Nat
          BY <1>1, <1>6 DEF LevelTypes
        <4>3. CASE fills'[k] > fills[k]
          BY <1>4, <2>4, <4>3
        <4>4. CASE ~ (fills'[k] > fills[k])
          <5>1. resting'[k].ahead = Positive(resting[k].ahead - lots)
            BY <1>4, <2>4
          <5> QED BY <1>1, <4>1, <4>2, <4>4, <5>1 DEF Positive
        <4> QED BY <4>3, <4>4
      <3>2. /\ resting'[k].status = "resting" /\ resting'[k].level = l
            /\ resting'[k].left \in Nat \ {0}
            /\ resting'[k].ahead + resting'[k].left = resting[k].ahead + resting[k].left - lots
            /\ resting[k].ahead + resting[k].left <= total[l]
            /\ resting[k].ahead \in Nat /\ resting[k].left \in Nat
        BY <1>4, <2>4
      <3>3. resting'[k].ahead + resting'[k].left <= total'[l]
        BY <1>1, <1>3, <3>2
      <3> QED BY <3>1, <3>2, <3>3 DEF Within
    <2>5. k \in RestingAt(l) => resting[k].ahead \in Nat /\ resting[k].left \in Nat
      BY <1>4
    <2> QED BY <1>1, <2>2, <2>3, <2>4, <2>5
  <1>8. ASSUME NEW k \in QueueIds, NEW j \in QueueIds, k # j PROVE Disjoint(k, j)'
    <2> SUFFICES ASSUME resting'[k].status = "resting", resting'[j].status = "resting",
                        resting'[k].level = resting'[j].level
                 PROVE  \/ resting'[k].ahead + resting'[k].left <= resting'[j].ahead
                        \/ resting'[j].ahead + resting'[j].left <= resting'[k].ahead
      BY DEF Disjoint
    <2>1. Disjoint(k, j)
      BY <1>1, <1>8 DEF Lines
    <2>2. ASSUME NEW i \in {k, j}
          PROVE  /\ i \in QueueIds /\ resting[i].status = "resting"
                 /\ resting[i].level = resting'[i].level
                 /\ i \in RestingAt(l) =>
                       /\ resting[i].ahead \in Nat /\ resting[i].left \in Nat \ {0}
                       /\ resting'[i].ahead = Positive(resting[i].ahead - lots)
                       /\ resting'[i].ahead + resting'[i].left
                             = resting[i].ahead + resting[i].left - lots
      <3>1. CASE i \notin RestingAt(l)
        BY <1>5, <3>1
      <3>2. CASE i \in RestingAt(l)
        <4>1. Done.status # "resting"
          BY DEF Done, Unsent
        <4>2. ~ (resting[i].ahead + resting[i].left <= lots)
          BY <1>4, <3>2, <4>1
        <4>3. resting[i].ahead + resting[i].left > lots
          BY <1>1, <1>4, <3>2, <4>2
        <4> QED BY <1>4, <3>2, <4>3
      <3> QED BY <3>1, <3>2
    <2>3. /\ resting[k].status = "resting" /\ resting[j].status = "resting"
          /\ resting[k].level = resting[j].level
      BY <2>2
    <2>4. \/ resting[k].ahead + resting[k].left <= resting[j].ahead
          \/ resting[j].ahead + resting[j].left <= resting[k].ahead
      BY <2>1, <2>3 DEF Disjoint
    <2>5. CASE resting[k].level # l
      <3>1. k \in QueueIds \ RestingAt(l) /\ j \in QueueIds \ RestingAt(l)
        BY <2>3, <2>5, RestingAtType
      <3> QED BY <1>5, <2>4, <3>1
    <2>6. CASE resting[k].level = l
      <3>1. k \in RestingAt(l) /\ j \in RestingAt(l)
        BY <2>3, <2>6, RestingAtType
      <3>2. /\ resting[k].ahead \in Nat /\ resting[k].left \in Nat \ {0}
            /\ resting'[k].ahead = Positive(resting[k].ahead - lots)
            /\ resting'[k].ahead + resting'[k].left = resting[k].ahead + resting[k].left - lots
            /\ resting[j].ahead \in Nat /\ resting[j].left \in Nat \ {0}
            /\ resting'[j].ahead = Positive(resting[j].ahead - lots)
            /\ resting'[j].ahead + resting'[j].left = resting[j].ahead + resting[j].left - lots
        BY <2>2, <3>1
      <3>3. lots \in Nat
        BY <1>1
      <3> QED BY ONLY <2>4, <3>2, <3>3 DEF Positive
    <2> QED BY <2>5, <2>6
  <1>9. Lines'
    BY <1>6, <1>7, <1>8 DEF Lines
  <1>10. /\ queued' = [s \in QueueSlots |-> queued'[s]] /\ DOMAIN queued' = QueueSlots
         /\ \A s \in QueueSlots :
                 /\ KeepsSlot(s)
                 /\ queued[s].level # l => queued'[s] = queued[s]
                 /\ queued[s] # NotQueued /\ queued[s].level = l =>
                       queued'[s].ahead_qty = Positive(queued[s].ahead_qty - lots)
    BY <1>1, <1>2, TradeSlots
  <1>11. /\ QueueSlotTypes' /\ OnePerOrder'
         /\ (order_count = Cardinality(QueueSlots \ QueueFree))'
         /\ \A s \in QueueSlots : queued'[s] # NotQueued <=> queued[s] # NotQueued
    BY <1>2, <1>10, SlotsKept
  <1>12. ASSUME NEW s \in QueueSlots, queued'[s] # NotQueued
         PROVE  Follows(queued[s])'
    <2> DEFINE o == queued[s]
               k == o.id
    <2>1. o \in Entry /\ Follows(o) /\ o # NotQueued
      BY <1>11, <1>12 DEF QueueInv
    <2>2. /\ k \in QueueIds /\ o.ahead_qty \in Nat /\ o.qty \in Nat /\ o.level \in Levels
      BY <2>1, EntryFields
    <2>3. /\ queued'[s].id = k /\ queued'[s].level = o.level /\ queued'[s].qty = o.qty
          /\ queued'[s].ahead_qty \in 0 .. o.ahead_qty
          /\ o.level # l => queued'[s] = o
          /\ o.level = l => queued'[s].ahead_qty = Positive(o.ahead_qty - lots)
      BY <1>10, <2>1, KeptFields
    <2> HIDE DEF o
    <2> DEFINE t == resting[k]
               u == resting'[k]
    <2>4. /\ t \in Seat /\ Within(k) /\ cancelled'[k] = cancelled[k] /\ cancelled[k] \in Nat
          /\ fills[k] \in Nat
      BY <1>1, <1>2, <2>2 DEF Lines
    <2>5. /\ t.status # "unsent" /\ (t.status = "resting" => t.level = o.level)
          /\ (t.status = "done" => fills[k] > 0) /\ o.qty = t.left + fills[k]
          /\ (t.status # "cancelled" => Apart(o.ahead_qty, t.ahead) <= cancelled[k])
      BY <2>1 DEF Follows
    <2>6. CASE k \in RestingAt(l)
      <3>1. t.status = "resting" /\ t.level = l /\ o.level = l
        BY <2>5, <2>6, RestingAtType
      <3>2. Apart(o.ahead_qty, t.ahead) <= cancelled[k] /\ t.ahead \in Nat /\ t.left \in Nat \ {0}
        BY <1>4, <2>5, <2>6, <3>1
      <3>3. CASE t.ahead + t.left <= lots
        <4>1. u = Done /\ fills'[k] = fills[k] + t.left
          BY <1>4, <2>6, <3>3
        <4>2. u.status = "done" /\ u.left = 0 /\ u.ahead = 0
          BY <4>1 DEF Done, Unsent
        <4> HIDE DEF t, u, k
        <4>3. Apart(queued'[s].ahead_qty, u.ahead) <= cancelled'[k]
          BY <1>1, <2>2, <2>3, <2>4, <3>1, <3>2, <3>3, <4>2 DEF Apart, Positive
        <4>4. queued'[s].qty = u.left + fills'[k] /\ fills'[k] > 0
          BY <2>3, <2>4, <2>5, <3>2, <4>1, <4>2
        <4> QED BY <2>3, <4>2, <4>3, <4>4 DEF Follows, u
      <3>4. CASE t.ahead + t.left > lots
        <4>1. /\ u.status = "resting" /\ u.level = l
              /\ u.ahead = Positive(t.ahead - lots) /\ u.left \in Nat
              /\ fills'[k] = fills[k] + t.left - u.left
          BY <1>4, <2>6, <3>4
        <4> HIDE DEF t, u, k
        <4>2. Apart(queued'[s].ahead_qty, u.ahead) <= cancelled'[k]
          BY <1>1, <2>2, <2>3, <2>4, <3>1, <3>2, <4>1 DEF Apart, Positive
        <4>3. queued'[s].qty = u.left + fills'[k]
          BY <2>3, <2>4, <2>5, <3>2, <4>1
        <4> QED BY <2>3, <3>1, <4>1, <4>2, <4>3 DEF Follows, u
      <3> QED BY <1>1, <3>2, <3>3, <3>4
    <2>7. CASE k \notin RestingAt(l)
      <3>1. u = t /\ fills'[k] = fills[k]
        BY <1>5, <2>2, <2>7
      <3>2. ASSUME t.status # "cancelled"
            PROVE  Apart(queued'[s].ahead_qty, t.ahead) <= cancelled[k]
        <4>1. CASE t.status = "resting"
          <5>1. o.level # l
            BY <2>2, <2>5, <2>7, <4>1, RestingAtType
          <5> QED BY <2>3, <2>5, <3>2, <5>1
        <4>2. CASE t.status # "resting"
          <5>1. t.status = "done"
            BY <2>4, <2>5, <3>2, <4>2 DEF Seat
          <5>2. t.ahead = 0
            BY <2>4, <5>1 DEF Within, Done, Unsent
          <5>3. Apart(o.ahead_qty, 0) <= cancelled[k]
            BY <2>5, <5>1, <5>2
          <5> HIDE DEF t, u, k
          <5> QED BY <2>2, <2>3, <2>4, <5>2, <5>3 DEF Apart
        <4> QED BY <4>1, <4>2
      <3> QED BY <2>3, <2>4, <2>5, <3>1, <3>2 DEF Follows
    <2> QED BY <2>6, <2>7
  <1> QED BY <1>9, <1>11, <1>12 DEF QueueInv, QueueSlotTypes

\* A new order preserves the invariant, with a free slot and without.
LEMMA PostOrderStep ==
    ASSUME QueueInv, NEW id \in QueueIds, NEW l \in Levels, NEW lots \in 1 .. MaxTrade,
           PostOrder(id, l, lots)
    PROVE  QueueInv'
  <1> DEFINE seat == [status |-> "resting", level |-> l, ahead |-> total[l], left |-> lots]
             entry == [id |-> id, level |-> l, qty |-> lots, ahead_qty |-> total[l]]
  <1>1. /\ LevelTypes /\ Lines /\ total[l] \in Nat /\ lots \in Nat \ {0}
        /\ resting \in [QueueIds -> Seat]
        /\ fills \in [QueueIds -> Nat] /\ cancelled \in [QueueIds -> Nat]
    BY QueueAssumption DEF QueueInv, Lines, LevelTypes
  <1>2. /\ resting[id] = Unsent /\ resting[id].status = "unsent" /\ fills[id] = 0
        /\ Everywhere + lots <= MaxLots
        /\ resting' = [resting EXCEPT ![id] = seat]
        /\ total' = [total EXCEPT ![l] = @ + lots]
        /\ RegisterOrder(id, l, lots, total[l])
        /\ fills' = fills /\ cancelled' = cancelled
    BY <1>1 DEF PostOrder, Lines, Within, Unsent
  <1>3. /\ total' \in [Levels -> Nat] /\ Everywhere' <= MaxLots
        /\ total[l] \in 0 .. MaxLots
    <2>1. total[l] + lots \in Nat /\ total' = [total EXCEPT ![l] = total[l] + lots]
      BY <1>1, <1>2
    <2>2. Everywhere \in Int /\ total[l] <= Everywhere /\ Everywhere <= MaxLots
      BY <1>1, LevelBound DEF LevelTypes
    <2>3. Everywhere + (total[l] + lots) - total[l] <= MaxLots
      BY <1>1, <1>2, <2>2, QueueAssumption
    <2>4. total[l] \in 0 .. MaxLots
      BY <1>1, <2>2, QueueAssumption
    <2>5. total' \in [Levels -> Nat] /\ Everywhere' <= MaxLots
      BY <1>1, <2>1, <2>3, LevelChanged
    <2> QED BY <2>4, <2>5
  <1>4. /\ \A m \in Levels : total[m] <= total'[m] /\ total[m] \in Nat /\ total'[m] \in Nat
        /\ total'[l] = total[l] + lots
    BY <1>1, <1>2 DEF LevelTypes
  <1>5. /\ seat \in Seat /\ resting' \in [QueueIds -> Seat] /\ resting'[id] = seat
        /\ \A k \in QueueIds \ {id} : resting'[k] = resting[k]
    BY <1>1, <1>2 DEF Seat
  <1>6. ASSUME NEW k \in QueueIds PROVE Within(k)'
    <2>1. Within(k) /\ resting[k].ahead \in Nat /\ resting[k].left \in Nat
      BY <1>1 DEF Lines, LevelTypes, Seat
    <2>2. CASE k = id
      BY <1>1, <1>2, <1>4, <1>5, <2>2 DEF Within
    <2>3. CASE k # id
      <3>1. resting'[k] = resting[k] /\ fills'[k] = fills[k]
        BY <1>2, <1>5, <2>3
      <3> QED BY <1>4, <2>1, <3>1 DEF Within
    <2> QED BY <2>2, <2>3
  <1>7. ASSUME NEW k \in QueueIds, NEW j \in QueueIds, k # j PROVE Disjoint(k, j)'
    <2>1. Disjoint(k, j) /\ Within(k) /\ Within(j)
      BY <1>1, <1>7 DEF Lines
    <2>2. CASE k # id /\ j # id
      BY <1>5, <2>1, <2>2 DEF Disjoint
    <2>3. CASE k = id
      <3>1. resting'[k] = seat /\ resting'[j] = resting[j]
        BY <1>5, <1>7, <2>3
      <3> QED BY <2>1, <3>1 DEF Disjoint, Within
    <2>4. CASE j = id
      <3>1. resting'[j] = seat /\ resting'[k] = resting[k]
        BY <1>5, <1>7, <2>4
      <3> QED BY <2>1, <3>1 DEF Disjoint, Within
    <2> QED BY <2>2, <2>3, <2>4
  <1>8. Lines'
    <2>1. LevelTypes'
      BY <1>1, <1>2, <1>3, <1>5 DEF LevelTypes
    <2> QED BY <2>1, <1>6, <1>7 DEF Lines
  <1>9. ASSUME NEW s \in QueueSlots, queued[s] # NotQueued
        PROVE  /\ queued[s].id # id /\ queued[s] \in Entry
               /\ queued'[s] = queued[s] => Follows(queued[s])'
    <2>1. queued[s] \in Entry /\ Follows(queued[s])
      BY <1>9 DEF QueueInv
    <2>2. queued[s].id \in QueueIds /\ queued[s].id # id
      BY <1>2, <2>1, EntryFields DEF Follows
    <2>3. resting'[queued[s].id] = resting[queued[s].id]
      BY <1>5, <2>2
    <2> QED BY <1>2, <2>1, <2>2, <2>3 DEF Follows
  <1>10. CASE QueueFree = {}
    <2>1. queued' = queued /\ order_count' = order_count
      BY <1>2, <1>10 DEF RegisterOrder
    <2> QED BY <1>8, <1>9, <2>1 DEF QueueInv, OnePerOrder, QueueFree
  <1>11. CASE QueueFree # {}
    <2> DEFINE f == Min(QueueFree)
    <2>1. f \in QueueFree
      <3>1. QueueFree \in SUBSET Nat
        BY DEF QueueFree, QueueSlots
      <3> QED BY <1>11, <3>1, MinMember
    <2>2. queued' = [queued EXCEPT ![f] = entry] /\ order_count' = order_count + 1
      BY <1>2, <1>11 DEF RegisterOrder
    <2> HIDE DEF f
    <2>3. f \in QueueSlots /\ queued[f] = NotQueued
      BY <2>1 DEF QueueFree
    <2>4. entry \in Entry /\ entry # NotQueued
      <3>1. entry \in Entry
        BY <1>1, <1>3 DEF Entry
      <3> QED BY <3>1, EntryFields
    <2>5. /\ queued \in [QueueSlots -> Entry \cup {NotQueued}]
          /\ queued' \in [QueueSlots -> Entry \cup {NotQueued}]
          /\ queued'[f] = entry /\ \A s \in QueueSlots \ {f} : queued'[s] = queued[s]
      BY <2>2, <2>3, <2>4 DEF QueueInv
    <2>6. ASSUME NEW s \in QueueSlots, queued'[s] # NotQueued
          PROVE  Follows(queued[s])'
      <3>1. CASE s = f
        <4>1. /\ queued'[s].id = id /\ queued'[s].level = l /\ queued'[s].qty = lots
              /\ queued'[s].ahead_qty = total[l]
          BY <2>5, <3>1
        <4>2. /\ resting'[id].status = "resting" /\ resting'[id].level = l
              /\ resting'[id].ahead = total[l] /\ resting'[id].left = lots
              /\ fills'[id] = 0 /\ cancelled'[id] \in Nat
          BY <1>1, <1>2, <1>5
        <4>3. Apart(total[l], total[l]) <= cancelled'[id] /\ lots = lots + 0
          BY <1>1, <4>2 DEF Apart
        <4> QED BY <4>1, <4>2, <4>3 DEF Follows
      <3>2. CASE s # f
        BY <1>9, <2>5, <2>6, <3>2
      <3> QED BY <3>1, <3>2
    <2>7. OnePerOrder'
      <3>1. \A s \in QueueSlots \ {f} : queued'[s].id # id
        <4> SUFFICES ASSUME NEW s \in QueueSlots \ {f} PROVE queued[s].id # id
          BY <2>5
        <4>1. CASE queued[s] = NotQueued
          BY <4>1, NoLevelApart DEF NotQueued
        <4>2. CASE queued[s] # NotQueued
          BY <1>9, <4>2
        <4> QED BY <4>1, <4>2
      <3>2. queued'[f].id = id
        BY <2>5
      <3>3. OnePerOrder
        BY DEF QueueInv
      <3> QED BY <2>5, <3>1, <3>2, <3>3 DEF OnePerOrder
    <2>8. order_count' = Cardinality(QueueSlots \ QueueFree')
      <3>1. QueueSlots \ QueueFree' = (QueueSlots \ QueueFree) \cup {f}
        BY <2>3, <2>4, <2>5 DEF QueueFree
      <3>2. f \notin QueueSlots \ QueueFree
        BY <2>1
      <3>3. IsFiniteSet(QueueSlots \ QueueFree)
        <4>1. IsFiniteSet(QueueSlots)
          BY FS_Interval, QueueAssumption DEF QueueSlots
        <4> QED BY <4>1, FS_Subset
      <3>4. order_count = Cardinality(QueueSlots \ QueueFree)
        BY DEF QueueInv
      <3> QED BY <2>2, <3>1, <3>2, <3>3, <3>4, FS_AddElement
    <2> QED BY <1>8, <2>5, <2>6, <2>7, <2>8 DEF QueueInv
  <1> QED BY <1>10, <1>11

\* remove_order empties the slot of the order, if it has one.
LEMMA RemoveOrderSlots ==
    ASSUME QueueInv, NEW id \in QueueIds, RemoveOrder(id)
    PROVE  /\ QueueSlotTypes' /\ OnePerOrder'
           /\ (order_count = Cardinality(QueueSlots \ QueueFree))'
           /\ \A s \in QueueSlots : queued'[s] # NotQueued =>
                 queued'[s] = queued[s] /\ queued[s].id # id
  <1>1. CASE Tracking(id) = {}
    <2>1. queued' = queued /\ order_count' = order_count
      BY <1>1 DEF RemoveOrder
    <2>2. \A s \in QueueSlots : queued[s].id # id
      BY <1>1 DEF Tracking
    <2> QED BY <2>1, <2>2 DEF QueueInv, QueueSlotTypes, OnePerOrder, QueueFree
  <1>2. CASE Tracking(id) # {}
    <2> DEFINE f == Min(Tracking(id))
    <2>1. f \in QueueSlots /\ queued[f].id = id
      <3>1. Tracking(id) \in SUBSET Nat
        BY DEF Tracking, QueueSlots
      <3>2. f \in Tracking(id)
        BY <1>2, <3>1, MinMember
      <3> QED BY <3>2 DEF Tracking
    <2>2. queued' = [queued EXCEPT ![f] = NotQueued] /\ order_count' = Positive(order_count - 1)
      BY <1>2 DEF RemoveOrder
    <2> HIDE DEF f
    <2>3. /\ queued \in [QueueSlots -> Entry \cup {NotQueued}]
          /\ queued' \in [QueueSlots -> Entry \cup {NotQueued}]
          /\ queued'[f] = NotQueued /\ \A s \in QueueSlots \ {f} : queued'[s] = queued[s]
      BY <2>1, <2>2 DEF QueueInv
    <2>4. queued[f] # NotQueued
      BY <2>1, NoLevelApart DEF NotQueued
    <2>5. OnePerOrder
      BY DEF QueueInv
    <2>6. \A s \in QueueSlots \ {f} : queued[s].id # id
      BY <2>1, <2>4, <2>5 DEF OnePerOrder
    <2>7. OnePerOrder'
      <3> SUFFICES ASSUME NEW s \in QueueSlots, NEW t \in QueueSlots,
                          queued'[s] # NotQueued, queued'[t].id = queued'[s].id
                   PROVE  s = t
        BY DEF OnePerOrder
      <3>1. s # f /\ queued'[s] = queued[s] /\ queued[s] \in Entry
        BY <2>3
      <3>2. t # f
        <4>1. queued'[s].id \in QueueIds
          BY <3>1, EntryFields
        <4> QED BY <2>3, <4>1, NoLevelApart DEF NotQueued
      <3> QED BY <2>3, <2>5, <3>1, <3>2 DEF OnePerOrder
    <2>8. order_count' = Cardinality(QueueSlots \ QueueFree')
      <3>1. QueueSlots \ QueueFree' = (QueueSlots \ QueueFree) \ {f}
        BY <2>3 DEF QueueFree
      <3>2. f \in QueueSlots \ QueueFree
        BY <2>1, <2>4 DEF QueueFree
      <3>3. IsFiniteSet(QueueSlots \ QueueFree)
        <4>1. IsFiniteSet(QueueSlots)
          BY FS_Interval, QueueAssumption DEF QueueSlots
        <4> QED BY <4>1, FS_Subset
      <3>4. order_count = Cardinality(QueueSlots \ QueueFree)
        BY DEF QueueInv
      <3>5. /\ Cardinality((QueueSlots \ QueueFree) \ {f}) = Cardinality(QueueSlots \ QueueFree) - 1
            /\ Cardinality((QueueSlots \ QueueFree) \ {f}) \in Nat
        <4>1. IsFiniteSet((QueueSlots \ QueueFree) \ {f})
          BY <3>3, FS_Subset
        <4> QED BY <3>2, <3>3, <4>1, FS_RemoveElement, FS_CardinalityType
      <3>6. order_count - 1 = Cardinality(QueueSlots \ QueueFree') /\ order_count - 1 \in Nat
        BY <3>1, <3>4, <3>5
      <3>7. Positive(order_count - 1) = order_count - 1
        BY <3>6 DEF Positive
      <3> QED BY <2>2, <3>6, <3>7
    <2> QED BY <2>3, <2>6, <2>7, <2>8 DEF QueueSlotTypes
  <1> QED BY <1>1, <1>2

\* The report of a cancel preserves the invariant.
LEMMA ReportCancelStep ==
    ASSUME QueueInv, NEW id \in QueueIds, ReportCancel(id)
    PROVE  QueueInv'
  <1>1. /\ LevelTypes /\ Lines /\ resting \in [QueueIds -> Seat]
        /\ fills \in [QueueIds -> Nat] /\ cancelled \in [QueueIds -> Nat]
    BY DEF QueueInv, Lines, LevelTypes
  <1>2. /\ fills[id] = 0 /\ RemoveOrder(id)
        /\ resting' = [resting EXCEPT ![id] = Done]
        /\ cancelled' = [cancelled EXCEPT ![id] = 0]
        /\ fills' = fills /\ total' = total
    BY DEF ReportCancel
  <1>3. Done \in Seat /\ Done.status = "done" /\ Done.ahead = 0
    BY DEF Done, Unsent, Seat
  <1>4. /\ resting'[id] = Done
        /\ \A k \in QueueIds \ {id} : resting'[k] = resting[k] /\ cancelled'[k] = cancelled[k]
    BY <1>1, <1>2
  <1>5. Lines'
    <2>1. LevelTypes'
      <3>1. resting' \in [QueueIds -> Seat] /\ cancelled' \in [QueueIds -> Nat]
        BY <1>1, <1>2, <1>3
      <3> QED BY <1>1, <1>2, <3>1 DEF LevelTypes, Everywhere
    <2>2. ASSUME NEW k \in QueueIds PROVE Within(k)'
      <3>1. Within(k)
        BY <1>1 DEF Lines
      <3>2. CASE k = id
        BY <1>2, <1>3, <1>4, <3>2 DEF Within
      <3>3. CASE k # id
        BY <1>2, <1>4, <3>1, <3>3 DEF Within
      <3> QED BY <3>2, <3>3
    <2>3. ASSUME NEW k \in QueueIds, NEW j \in QueueIds, k # j PROVE Disjoint(k, j)'
      <3>1. Disjoint(k, j)
        BY <1>1, <2>3 DEF Lines
      <3>2. CASE k = id \/ j = id
        BY <1>3, <1>4, <3>2 DEF Disjoint
      <3>3. CASE k # id /\ j # id
        BY <1>4, <3>1, <3>3 DEF Disjoint
      <3> QED BY <3>2, <3>3
    <2> QED BY <2>1, <2>2, <2>3 DEF Lines
  <1>6. /\ QueueSlotTypes' /\ OnePerOrder'
        /\ (order_count = Cardinality(QueueSlots \ QueueFree))'
        /\ \A s \in QueueSlots : queued'[s] # NotQueued =>
                 queued'[s] = queued[s] /\ queued[s].id # id
    BY <1>2, RemoveOrderSlots
  <1>7. ASSUME NEW s \in QueueSlots, queued'[s] # NotQueued
        PROVE  Follows(queued[s])'
    <2>1. queued'[s] = queued[s] /\ queued[s].id # id
      BY <1>6, <1>7
    <2>2. queued[s] \in Entry /\ Follows(queued[s])
      BY <1>7, <2>1 DEF QueueInv
    <2>3. queued[s].id \in QueueIds \ {id}
      BY <2>1, <2>2, EntryFields
    <2> QED BY <1>2, <1>4, <2>1, <2>2, <2>3 DEF Follows
  <1> QED BY <1>5, <1>6, <1>7 DEF QueueInv, QueueSlotTypes

\* The report of a fill preserves the invariant.
LEMMA ReportFillStep ==
    ASSUME QueueInv, NEW id \in QueueIds, ReportFill(id)
    PROVE  QueueInv'
  <1>1. /\ LevelTypes /\ Lines /\ resting \in [QueueIds -> Seat]
        /\ fills \in [QueueIds -> Nat] /\ cancelled \in [QueueIds -> Nat]
    BY DEF QueueInv, Lines, LevelTypes
  <1>2. /\ fills[id] > 0 /\ OrderFilled(id, fills[id])
        /\ fills' = [fills EXCEPT ![id] = 0]
        /\ cancelled' = [cancelled EXCEPT ![id] = IF resting[id] = Done THEN 0 ELSE @]
        /\ resting' = resting /\ total' = total
    BY DEF ReportFill
  <1>3. /\ fills'[id] = 0 /\ fills' \in [QueueIds -> Nat] /\ cancelled' \in [QueueIds -> Nat]
        /\ \A k \in QueueIds \ {id} : fills'[k] = fills[k] /\ cancelled'[k] = cancelled[k]
    BY <1>1, <1>2
  <1>4. Lines'
    <2>1. LevelTypes'
      BY <1>1, <1>2, <1>3 DEF LevelTypes, Everywhere
    <2>2. ASSUME NEW k \in QueueIds PROVE Within(k)'
      <3>1. Within(k)
        BY <1>1 DEF Lines
      <3>2. CASE k = id
        BY <1>2, <1>3, <3>1, <3>2 DEF Within
      <3>3. CASE k # id
        BY <1>2, <1>3, <3>1, <3>3 DEF Within
      <3> QED BY <3>2, <3>3
    <2> QED BY <1>1, <1>2, <2>1, <2>2 DEF Lines, Disjoint
  <1>5. ASSUME NEW s \in QueueSlots, queued'[s] # NotQueued, queued'[s] = queued[s],
               queued[s].id # id
        PROVE  Follows(queued[s])'
    <2>1. queued[s] \in Entry /\ Follows(queued[s])
      BY <1>5 DEF QueueInv
    <2>2. queued[s].id \in QueueIds \ {id}
      BY <1>5, <2>1, EntryFields
    <2> QED BY <1>2, <1>3, <1>5, <2>1, <2>2 DEF Follows
  <1> DEFINE f == Min(Tracking(id))
             kept == Tracking(id) # {} /\ queued[f].qty > fills[id]
  <1>6. CASE kept
    <2>1. PICK w \in QueueSlots : w = f /\ queued[w].id = id
      <3>1. Tracking(id) \in SUBSET Nat
        BY DEF Tracking, QueueSlots
      <3>2. f \in Tracking(id)
        BY <1>6, <3>1, MinMember
      <3> QED BY <3>2 DEF Tracking
    <2> DEFINE o == queued[w]
               n == [o EXCEPT !.qty = o.qty - fills[id], !.ahead_qty = 0]
    <2>2. queued' = [queued EXCEPT ![w].qty = @ - fills[id], ![w].ahead_qty = 0]
          /\ order_count' = order_count
      BY <1>2, <1>6, <2>1 DEF OrderFilled
    <2>3. queued[w].qty > fills[id]
      BY <1>6, <2>1
    <2>4. o \in Entry /\ o # NotQueued /\ Follows(o)
      BY <2>1, NoLevelApart DEF QueueInv, NotQueued
    <2>5. queued' = [queued EXCEPT ![w] = n] /\ queued \in [QueueSlots -> Entry \cup {NotQueued}]
      <3>1. queued \in [QueueSlots -> Entry \cup {NotQueued}]
        BY DEF QueueInv
      <3> QED BY <2>1, <2>2, <2>4, <3>1 DEF Entry
    <2>6. /\ n \in Entry /\ n.id = id /\ n.level = o.level /\ n.ahead_qty = 0
          /\ n.qty = o.qty - fills[id]
      <3> DEFINE q == o.qty - fills[id]
      <3>1. q \in Nat /\ 0 \in 0 .. MaxLots
        <4>1. o.qty \in Nat /\ fills[id] \in Nat /\ o.qty > fills[id]
          BY <1>1, <2>3, <2>4, EntryFields
        <4> QED BY <4>1, QueueAssumption
      <3>2. o.id = id
        BY <2>1
      <3> HIDE DEF q, o
      <3>3. [o EXCEPT !.qty = q, !.ahead_qty = 0] \in Entry
        BY <2>4, <3>1 DEF Entry
      <3>4. n = [o EXCEPT !.qty = q, !.ahead_qty = 0]
        BY DEF q, o
      <3>5. n.id = id /\ n.level = o.level /\ n.ahead_qty = 0 /\ n.qty = q
        BY <2>4, <3>2, <3>4 DEF Entry
      <3> QED BY <3>3, <3>4, <3>5 DEF q, o
    <2>7. n # NotQueued
      BY <2>6, EntryFields
    <2> HIDE DEF n
    <2>8. /\ queued' \in [QueueSlots -> Entry \cup {NotQueued}]
          /\ queued'[w] = n /\ \A s \in QueueSlots \ {w} : queued'[s] = queued[s]
      BY <2>1, <2>5, <2>6
    <2>9. OnePerOrder
      BY DEF QueueInv
    <2>10. \A s \in QueueSlots \ {w} : queued[s].id # id
      BY <2>1, <2>4, <2>9 DEF OnePerOrder
    <2>11. OnePerOrder'
      <3>1. \A s \in QueueSlots : queued'[s].id = queued[s].id
        BY <2>1, <2>6, <2>8
      <3>2. \A s \in QueueSlots : queued'[s] # NotQueued => queued[s] # NotQueued
        BY <2>4, <2>8
      <3> QED BY <2>9, <3>1, <3>2 DEF OnePerOrder
    <2>12. QueueFree' = QueueFree
      BY <2>1, <2>4, <2>7, <2>8 DEF QueueFree
    <2>13. Follows(queued[w])'
      <3>1. /\ resting[id] \in Seat /\ Within(id) /\ fills[id] \in Nat
            /\ cancelled'[id] \in Nat
        BY <1>1, <1>3 DEF Lines
      <3>2. /\ resting[id].status # "unsent"
            /\ resting[id].status = "resting" => resting[id].level = o.level
            /\ o.qty = resting[id].left + fills[id]
        BY <2>1, <2>4 DEF Follows
      <3>3. resting[id].left \in Nat /\ resting[id].left > 0
        BY <2>3, <3>1, <3>2 DEF Seat
      <3>4. resting[id].status # "done"
        BY <3>1, <3>3 DEF Within, Done, Unsent
      <3>5. resting[id].ahead = 0
        BY <1>2, <3>1 DEF Within
      <3>6. n.qty = resting[id].left + 0
        BY <2>6, <3>1, <3>2, <3>3
      <3>7. Apart(0, 0) <= cancelled'[id]
        BY <3>1 DEF Apart
      <3>8. /\ queued'[w].id = id /\ queued'[w].level = o.level /\ queued'[w].ahead_qty = 0
            /\ queued'[w].qty = resting[id].left + 0
        BY <2>6, <2>8, <3>6
      <3> HIDE DEF o
      <3> QED BY <1>2, <1>3, <3>2, <3>4, <3>5, <3>7, <3>8 DEF Follows
    <2>14. ASSUME NEW s \in QueueSlots, queued'[s] # NotQueued PROVE Follows(queued[s])'
      <3>1. CASE s = w
        BY <2>13, <3>1 DEF Follows
      <3>2. CASE s # w
        BY <1>5, <2>8, <2>10, <2>14, <3>2
      <3> QED BY <3>1, <3>2
    <2> QED BY <1>4, <2>2, <2>8, <2>11, <2>12, <2>14 DEF QueueInv
  <1>7. CASE ~kept
    <2>1. RemoveOrder(id)
      BY <1>2, <1>7 DEF OrderFilled
    <2>2. /\ QueueSlotTypes' /\ OnePerOrder'
          /\ (order_count = Cardinality(QueueSlots \ QueueFree))'
          /\ \A s \in QueueSlots : queued'[s] # NotQueued =>
                 queued'[s] = queued[s] /\ queued[s].id # id
      BY <2>1, RemoveOrderSlots
    <2> QED BY <1>4, <1>5, <2>2 DEF QueueInv, QueueSlotTypes
  <1> QED BY <1>6, <1>7

\* The estimator starts with the invariant.
LEMMA QueueStart == QueueInit => QueueInv
  <1> SUFFICES ASSUME QueueInit PROVE QueueInv
    OBVIOUS
  <1>1. /\ queued = [s \in QueueSlots |-> NotQueued] /\ order_count = 0
        /\ resting = [id \in QueueIds |-> Unsent] /\ fills = [id \in QueueIds |-> 0]
        /\ total = [l \in Levels |-> 0] /\ cancelled = [id \in QueueIds |-> 0]
    BY DEF QueueInit
  <1>2. Everywhere = 0
    <2>1. Everywhere = SumFunctionOnSet(total, Levels)
      BY <1>1 DEF Everywhere, SumFunction
    <2>2. \A l \in Levels : total[l] = 0 /\ total[l] \in Nat
      BY <1>1
    <2> QED BY <2>1, <2>2, QueueAssumption, SumSign
  <1>3. Unsent \in Seat /\ Unsent.status = "unsent"
    BY DEF Unsent, Seat
  <1>4. Lines
    BY <1>1, <1>2, <1>3, QueueAssumption DEF Lines, LevelTypes, Within, Disjoint
  <1>5. QueueSlots \ QueueFree = {}
    BY <1>1 DEF QueueFree
  <1>6. order_count = Cardinality(QueueSlots \ QueueFree)
    BY <1>1, <1>5, FS_EmptySet
  <1>7. OnePerOrder
    BY <1>1 DEF OnePerOrder
  <1> QED BY <1>1, <1>4, <1>6, <1>7 DEF QueueInv

\* Every step of the estimator preserves the invariant.
LEMMA QueueStep == QueueInv /\ [QueueNext]_queueVars => QueueInv'
  <1> SUFFICES ASSUME QueueInv, [QueueNext]_queueVars PROVE QueueInv'
    OBVIOUS
  <1>1. CASE UNCHANGED queueVars
    BY <1>1 DEF queueVars, estimator, market, QueueInv, Lines, LevelTypes, Everywhere, Within,
                Disjoint, Follows, OnePerOrder, QueueFree
  <1>2. ASSUME NEW id \in QueueIds, NEW l \in Levels, NEW lots \in 1 .. MaxTrade,
               PostOrder(id, l, lots)
        PROVE  QueueInv'
    BY <1>2, PostOrderStep
  <1>3. ASSUME NEW l \in Levels, NEW lots \in 1 .. MaxTrade, LevelGrows(l, lots)
        PROVE  QueueInv'
    BY <1>3, LevelGrowsStep
  <1>4. ASSUME NEW l \in Levels, NEW lots \in 1 .. MaxTrade, TradeAt(l, lots)
        PROVE  QueueInv'
    BY <1>4, TradeAtStep
  <1>5. ASSUME NEW l \in Levels, NEW p \in 0 .. MaxLots, NEW lots \in 1 .. MaxLots,
               LevelShrinks(l, p, lots)
        PROVE  QueueInv'
    BY <1>5, LevelShrinksStep
  <1>6. ASSUME NEW id \in QueueIds, ReportFill(id) PROVE QueueInv'
    BY <1>6, ReportFillStep
  <1>7. ASSUME NEW id \in QueueIds, CancelOrder(id) PROVE QueueInv'
    BY <1>7, CancelOrderStep
  <1>8. ASSUME NEW id \in QueueIds, ReportCancel(id) PROVE QueueInv'
    BY <1>8, ReportCancelStep
  <1> QED BY <1>1, <1>2, <1>3, <1>4, <1>5, <1>6, <1>7, <1>8 DEF QueueNext

\* The invariant holds always.
LEMMA QueueAlways == QueueSpec => []QueueInv
  BY QueueStart, QueueStep, PTL DEF QueueSpec

\* QueueSpec => []DriftBounded: on_trade, on_level_change and order_filled keep
\* the estimate within the lots cancelled since, for any number of orders and
\* levels, any sizes, any power, and reports that arrive late; also when the
\* estimate exceeds the level and an odd power makes the weight of the back
\* negative.
THEOREM DriftIsBounded == QueueSpec => []DriftBounded
  <1>1. QueueInv => DriftBounded
    BY DEF QueueInv, Follows, DriftBounded
  <1> QED BY <1>1, QueueAlways, PTL

\* QueueSpec => []TrackedExact: register_order, order_filled and remove_order
\* keep order_count exact and leak no slot, also when the table is full.
THEOREM TrackingIsExact == QueueSpec => []TrackedExact
  <1>1. QueueInv => TrackedExact
    BY DEF QueueInv, Follows, TrackedExact
  <1> QED BY <1>1, QueueAlways, PTL

-----------------------------------------------------------------------------
(* Take rates *)

\* An entry is empty only as a whole.
RateInv ==
    /\ take_rates \in [BookSides -> [RateSlots -> [instrument: Nat, mix: SUBSET (Nat \X BookSides)]]]
    /\ \A side \in BookSides, s \in RateSlots :
          take_rates[side][s].instrument = 0 => take_rates[side][s] = NoRate
    /\ RatesIsolated

\* A trade preserves the invariant of the rates.
LEMMA RateStep ==
    ASSUME RateInv, NEW l \in Levels, NEW lots, OnTrade(l, lots)
    PROVE  RateInv'
  <1> DEFINE d == l.side
             i == l.instrument
             R == take_rates[d]
             own == {s \in RateSlots : R[s].instrument = i}
             empty == {s \in RateSlots : R[s] = NoRate}
             z == RateSlot(R, i)
             e == [instrument |-> i,
                   mix |-> {<<i, d>>} \cup (IF R[z].instrument = i THEN R[z].mix ELSE {})]
  <1>1. d \in BookSides /\ i \in Nat \ {0}
    BY QueueAssumption
  <1>2. z \in RateSlots /\ (own # {} => z \in own)
    <2>1. own \in SUBSET Nat /\ empty \in SUBSET Nat /\ 1 \in RateSlots
      BY QueueAssumption DEF RateSlots
    <2>2. own # {} => Min(own) \in own
      BY <2>1, MinMember
    <2>3. empty # {} => Min(empty) \in empty
      BY <2>1, MinMember
    <2>4. z = IF own # {} THEN Min(own) ELSE IF empty # {} THEN Min(empty) ELSE 1
      BY DEF RateSlot
    <2>5. own \in SUBSET RateSlots /\ empty \in SUBSET RateSlots
      OBVIOUS
    <2> HIDE DEF own, empty, z
    <2> QED BY <2>1, <2>2, <2>3, <2>4, <2>5
  <1>3. /\ R \in [RateSlots -> [instrument: Nat, mix: SUBSET (Nat \X BookSides)]]
        /\ take_rates' = [take_rates EXCEPT ![d] = [R EXCEPT ![z] = e]]
    BY <1>1 DEF RateInv, OnTrade, MixedRate
  <1>4. e = [instrument |-> i, mix |-> {<<i, d>>}]
    <2>1. ASSUME R[z].instrument = i PROVE R[z].mix = {<<i, d>>}
      <3>1. R[z] # NoRate
        BY <1>1, <2>1 DEF NoRate
      <3>2. R[z].mix = {<<R[z].instrument, d>>}
        BY <1>1, <1>2, <3>1 DEF RateInv, RatesIsolated
      <3> QED BY <2>1, <3>2
    <2> HIDE DEF z
    <2>2. CASE R[z].instrument = i
      BY <2>1, <2>2
    <2>3. CASE R[z].instrument # i
      BY <2>3
    <2> QED BY <2>2, <2>3
  <1> HIDE DEF z, e
  <1>5. \A s \in RateSlots \ {z} : R[s].instrument # i
    <2> SUFFICES ASSUME NEW s \in RateSlots \ {z}, R[s].instrument = i PROVE FALSE
      OBVIOUS
    <2>1. R[z].instrument = i
      BY <1>2
    <2>2. R[z] # NoRate
      BY <1>1, <2>1 DEF NoRate
    <2> QED BY <1>1, <1>2, <2>1, <2>2 DEF RateInv, RatesIsolated
  <1>6. /\ e \in [instrument: Nat, mix: SUBSET (Nat \X BookSides)]
        /\ e.instrument = i /\ e.mix = {<<i, d>>}
    BY <1>1, <1>4
  <1>7. /\ \A side \in BookSides \ {d} : take_rates'[side] = take_rates[side]
        /\ take_rates'[d][z] = e
        /\ \A s \in RateSlots \ {z} : take_rates'[d][s] = R[s]
        /\ take_rates' \in [BookSides -> [RateSlots -> [instrument: Nat, mix: SUBSET (Nat \X BookSides)]]]
    BY <1>1, <1>2, <1>3, <1>6 DEF RateInv
  <1>8. ASSUME NEW side \in BookSides, NEW s \in RateSlots
        PROVE  /\ take_rates'[side][s].instrument = 0 => take_rates'[side][s] = NoRate
               /\ take_rates'[side][s] # NoRate =>
                     /\ take_rates'[side][s].mix = {<<take_rates'[side][s].instrument, side>>}
                     /\ \A t \in RateSlots \ {s} :
                           take_rates'[side][t].instrument # take_rates'[side][s].instrument
    <2>1. CASE side # d
      BY <1>7, <2>1 DEF RateInv, RatesIsolated
    <2>2. CASE side = d /\ s = z
      BY <1>1, <1>5, <1>6, <1>7, <2>2
    <2>3. CASE side = d /\ s # z
      <3>1. take_rates'[side][s] = R[s]
        BY <1>7, <2>3
      <3>2. /\ R[s].instrument = 0 => R[s] = NoRate
            /\ R[s] # NoRate => /\ R[s].mix = {<<R[s].instrument, d>>}
                                /\ \A t \in RateSlots \ {s} : R[t].instrument # R[s].instrument
        BY <1>1 DEF RateInv, RatesIsolated
      <3>3. ASSUME R[s] # NoRate, NEW t \in RateSlots \ {s}
            PROVE  take_rates'[side][t].instrument # R[s].instrument
        <4>1. CASE t = z
          BY <1>5, <1>6, <1>7, <2>3, <4>1
        <4>2. CASE t # z
          BY <1>7, <2>3, <3>2, <3>3, <4>2
        <4> QED BY <4>1, <4>2
      <3> QED BY <2>3, <3>1, <3>2, <3>3
    <2> QED BY <2>1, <2>2, <2>3
  <1> QED BY <1>7, <1>8 DEF RateInv, RatesIsolated

\* QueueSpec => []RatesIsolated: update_take_rate mixes no two instruments or
\* sides, however many instruments compete for the table.
THEOREM RatesAreIsolated == QueueSpec => []RatesIsolated
  <1>1. QueueInit => RateInv
    BY DEF QueueInit, RateInv, RatesIsolated, NoRate
  <1>2. RateInv /\ [QueueNext]_queueVars => RateInv'
    <2> SUFFICES ASSUME RateInv, [QueueNext]_queueVars PROVE RateInv'
      OBVIOUS
    <2>1. CASE take_rates' = take_rates
      BY <2>1 DEF RateInv, RatesIsolated
    <2>2. ASSUME NEW l \in Levels, NEW lots \in 1 .. MaxTrade, TradeAt(l, lots)
          PROVE  RateInv'
      <3>1. OnTrade(l, lots)
        BY <2>2 DEF TradeAt
      <3> QED BY <3>1, RateStep
    <2>3. ASSUME NEW id \in QueueIds, NEW l \in Levels, NEW lots \in 1 .. MaxTrade,
                 PostOrder(id, l, lots)
          PROVE  take_rates' = take_rates
      BY <2>3 DEF PostOrder
    <2>4. ASSUME NEW l \in Levels, NEW lots \in 1 .. MaxTrade, LevelGrows(l, lots)
          PROVE  take_rates' = take_rates
      BY <2>4 DEF LevelGrows
    <2>5. ASSUME NEW l \in Levels, NEW p \in 0 .. MaxLots, NEW lots \in 1 .. MaxLots,
                 LevelShrinks(l, p, lots)
          PROVE  take_rates' = take_rates
      BY <2>5 DEF LevelShrinks
    <2>6. ASSUME NEW id \in QueueIds, ReportFill(id) \/ CancelOrder(id) \/ ReportCancel(id)
          PROVE  take_rates' = take_rates
      BY <2>6 DEF ReportFill, CancelOrder, ReportCancel
    <2>7. UNCHANGED queueVars => take_rates' = take_rates
      BY DEF queueVars, estimator
    <2> QED BY <2>1, <2>2, <2>3, <2>4, <2>5, <2>6, <2>7 DEF QueueNext
  <1>3. RateInv => RatesIsolated
    BY DEF RateInv
  <1> QED BY <1>1, <1>2, <1>3, PTL DEF QueueSpec

=============================================================================
