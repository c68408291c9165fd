------------------------------- MODULE Orders -------------------------------
(***************************************************************************)
(* A strategy's view of its orders, crates/strategy: OrderTracker          *)
(* (order_tracker.rs), Position (position.rs) and the worst case of        *)
(* ExposureView (exposure.rs), for one instrument, against the venue that  *)
(* really holds the orders.                                                *)
(*                                                                         *)
(* The venue and the links are external: an order that was sent is         *)
(* accepted or rejected, an accepted one is filled in parts and may be     *)
(* cancelled, and each of these is reported once, some time later.         *)
(* Reports of different orders overtake each other; those of one order     *)
(* only if InOrder is FALSE.  The strategy calls, for every report, the    *)
(* tracker's handler and, for a fill, the position's.                      *)
(***************************************************************************)
EXTENDS Position, FiniteSetsExt, SequencesExt

CONSTANTS MaxTracked,  \* MAX_TRACKED_ORDERS
          MaxOrders,   \* bound: orders sent; client_order_id is 1, 2, ...
          MaxQty,      \* bound: lots of one order
          Prices,      \* raw prices of fills
          InOrder      \* the reports of one order arrive in order

ASSUME OrdersAssumption ==
    /\ MaxTracked \in Nat \ {0} /\ MaxOrders \in Nat /\ MaxQty \in Nat \ {0}
    /\ Prices \subseteq 0 .. I64Max
    /\ InOrder \in BOOLEAN

VARIABLES
    orders,        \* OrderTracker: the slots
    active_count,  \* OrderTracker
    venue,         \* per client_order_id, the order as the venue holds it
    reports,       \* per client_order_id, its reports under way, oldest first
    net            \* lots the venue has bought less sold for us

vars == <<orders, active_count, venue, reports, net, positionVars>>

Slots == 1 .. MaxTracked
OrderIds == 1 .. MaxOrders
Sides == {"Bid", "Ask"}

\* A TrackedOrder; NoOrder is the empty slot.
Order ==
    [id: OrderIds, side: Sides, original_qty: 1 .. MaxQty, filled_qty: 0 .. MaxQty,
     state: {"Pending", "Live", "Filled", "Cancelled", "Rejected"}]
NoOrder ==
    [id |-> 0, side |-> "Bid", original_qty |-> 0, filled_qty |-> 0, state |-> "None"]

\* A slip in remaining_qty: what was filled is forgotten.
RemainingQtyOriginal(o) == o.original_qty

IsActive(o) == o.state \in {"Pending", "Live"}
RemainingQty(o) == o.original_qty - o.filled_qty

\* The venue's order: lots left to fill, and whether it can still fill.
NotSent == [status |-> "unsent", side |-> "Bid", left |-> 0]
Open(id) == venue[id].status \in {"sent", "resting"}

Init ==
    /\ orders = [s \in Slots |-> NoOrder]
    /\ active_count = 0
    /\ venue = [id \in OrderIds |-> NotSent]
    /\ reports = [id \in OrderIds |-> <<>>]
    /\ net = 0
    /\ PositionInit

-----------------------------------------------------------------------------
(* OrderTracker *)

\* A slip in on_intent_sent: the first slot is taken whatever it holds.
ReusableAny == Slots

\* on_intent_sent takes the first slot that is empty or holds an order that
\* has ended.
Reusable == {s \in Slots : ~IsActive(orders[s])}

\* find_mut: the first slot with the id.
Holding(id) == {s \in Slots : orders[s].id = id}

\* active_count.saturating_sub(1)
OneLess(n) == IF n = 0 THEN 0 ELSE n - 1

\* on_ack, whatever state the order is in.
OnAck(s) ==
    /\ orders' = [orders EXCEPT ![s].state = "Live"]
    /\ UNCHANGED active_count

\* on_reject and on_cancel_ack, whatever state the order is in.
OnEnd(s, state) ==
    /\ orders' = [orders EXCEPT ![s].state = state]
    /\ active_count' = OneLess(active_count)

\* Slips in on_fill: a full fill is not counted out, and a fill of exactly the
\* remaining lots does not end the order.
OnTrackedFillKeepsCount(s, lots) ==
    /\ orders' = [orders EXCEPT ![s].filled_qty = @ + lots,
                                ![s].state = IF lots >= RemainingQty(orders[s])
                                             THEN "Filled" ELSE @]
    /\ UNCHANGED active_count
OnTrackedFillStrict(s, lots) ==
    /\ orders' = [orders EXCEPT ![s].filled_qty = @ + lots]
    /\ UNCHANGED active_count

\* on_fill of the tracker: ignored once the order has ended, clamped to the
\* order's quantity.
OnTrackedFill(s, lots) ==
    LET filled == orders[s].filled_qty + lots
    IN  \/ /\ ~IsActive(orders[s])
           /\ UNCHANGED <<orders, active_count>>
        \/ /\ IsActive(orders[s]) /\ filled < orders[s].original_qty
           /\ orders' = [orders EXCEPT ![s].filled_qty = filled]
           /\ UNCHANGED active_count
        \/ /\ IsActive(orders[s]) /\ filled >= orders[s].original_qty
           /\ orders' = [orders EXCEPT ![s].filled_qty = orders[s].original_qty,
                                       ![s].state = "Filled"]
           /\ active_count' = OneLess(active_count)

\* open_qty
OpenQty(side) ==
    SumFunction([s \in Slots |-> IF IsActive(orders[s]) /\ orders[s].side = side
                                 THEN RemainingQty(orders[s]) ELSE 0])

\* worst_case_qty of ExposureView
WorstCaseQty(side) == qty + Signed(side, OpenQty(side))

-----------------------------------------------------------------------------
(* The strategy *)

\* The strategy sends an order, once the tracker has taken it.
Post(id, side, lots) ==
    /\ venue[id] = NotSent /\ \A k \in 1 .. id - 1 : venue[k] # NotSent
    /\ Reusable # {}
    /\ orders' = [orders EXCEPT ![Min(Reusable)] =
                      [id |-> id, side |-> side, original_qty |-> lots, filled_qty |-> 0,
                       state |-> "Pending"]]
    /\ active_count' = active_count + 1
    /\ venue' = [venue EXCEPT ![id] = [status |-> "sent", side |-> side, left |-> lots]]
    /\ UNCHANGED <<reports, net, positionVars>>

\* What the tracker does with a report; one of an unknown order is ignored.
Track(id, r) ==
    \/ /\ Holding(id) = {}
       /\ UNCHANGED <<orders, active_count>>
    \/ /\ Holding(id) # {}
       /\ LET s == Min(Holding(id))
          IN  CASE r.kind = "Ack"       -> OnAck(s)
                [] r.kind = "Reject"    -> OnEnd(s, "Rejected")
                [] r.kind = "Cancelled" -> OnEnd(s, "Cancelled")
                [] r.kind = "Fill"      -> OnTrackedFill(s, r.lots)

Deliver(id, k) ==
    /\ k \in DOMAIN reports[id] /\ (InOrder => k = 1)
    /\ reports' = [reports EXCEPT ![id] = RemoveAt(@, k)]
    /\ LET r == reports[id][k]
       IN  /\ Track(id, r)
           /\ IF r.kind = "Fill" THEN OnFill(venue[id].side, r.lots, r.price)
                                 ELSE UNCHANGED positionVars
    /\ UNCHANGED <<venue, net>>

-----------------------------------------------------------------------------
(* The venue *)

\* A report; left is what the order has left after it (history).
Report(id, kind, lots, price) ==
    reports' = [reports EXCEPT ![id] =
                    Append(@, [kind |-> kind, lots |-> lots, price |-> price,
                               left |-> venue[id].left - lots])]

Accept(id) ==
    /\ venue[id].status = "sent"
    /\ venue' = [venue EXCEPT ![id].status = "resting"]
    /\ Report(id, "Ack", 0, 0)
    /\ UNCHANGED <<orders, active_count, net, positionVars>>

Reject(id) ==
    /\ venue[id].status = "sent"
    /\ venue' = [venue EXCEPT ![id].status = "done"]
    /\ Report(id, "Reject", 0, 0)
    /\ UNCHANGED <<orders, active_count, net, positionVars>>

Execute(id, lots, price) ==
    /\ venue[id].status = "resting" /\ lots \in 1 .. venue[id].left
    /\ venue' = [venue EXCEPT ![id] =
                     [status |-> IF @.left = lots THEN "done" ELSE "resting",
                      side |-> @.side, left |-> @.left - lots]]
    /\ net' = net + Signed(venue[id].side, lots)
    /\ Report(id, "Fill", lots, price)
    /\ UNCHANGED <<orders, active_count, positionVars>>

Cancel(id) ==
    /\ venue[id].status = "resting"
    /\ venue' = [venue EXCEPT ![id].status = "done"]
    /\ Report(id, "Cancelled", 0, 0)
    /\ UNCHANGED <<orders, active_count, net, positionVars>>

Next ==
    \E id \in OrderIds :
        \/ \E side \in Sides, lots \in 1 .. MaxQty : Post(id, side, lots)
        \/ \E k \in DOMAIN reports[id] : Deliver(id, k)
        \/ Accept(id) \/ Reject(id) \/ Cancel(id)
        \/ \E lots \in 1 .. MaxQty, price \in Prices : Execute(id, lots, price)

Spec == Init /\ [][Next]_vars

-----------------------------------------------------------------------------
(* Properties *)

TypeOK ==
    /\ orders \in [Slots -> Order \cup {NoOrder}]
    /\ active_count \in 0 .. MaxTracked
    /\ PositionTypeOK

\* active_count is the number of active orders, through rejections, partial
\* fills, cancellations that race with fills, and reuse of slots.
CountExact == active_count = Cardinality({s \in Slots : IsActive(orders[s])})

\* Lots of a side that can still be filled at the venue.
Resting(side) ==
    SumFunction([id \in OrderIds |-> IF Open(id) /\ venue[id].side = side
                                     THEN venue[id].left ELSE 0])

\* What risk checks see is never better than what can happen: with reports
\* under way or still to come, worst_case_qty covers the position if every
\* order that the venue holds on the side is filled; and it is that position
\* once all reports have arrived.
ExposureSound ==
    LET quiet == \A id \in OrderIds : reports[id] = <<>>
    IN  \A side \in Sides :
            LET truth == net + Signed(side, Resting(side))
                slack == Signed(side, WorstCaseQty(side) - truth)
            IN  slack >= 0 /\ (quiet => slack = 0)

\* No slot leaks: a slot is kept only for an order that the venue can still
\* fill or report on.
SlotsRecovered ==
    \A s \in Slots : IsActive(orders[s]) =>
        LET id == orders[s].id IN Open(id) \/ reports[id] # <<>>

=============================================================================
