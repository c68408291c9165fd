------------------------------- MODULE Events -------------------------------
(***************************************************************************)
(* crates/events: the HotEvent that travels through every queue, a header  *)
(* (header.rs, flags.rs) and a body (body.rs) that is one of eight kinds   *)
(* of payload (market.rs, execution.rs, control.rs), and its constructors  *)
(* (event.rs).                                                             *)
(*                                                                         *)
(* Layout and padding are left out, and so are recv_ts and source_id,      *)
(* which nothing modelled reads, and depth and timer_id, which nothing     *)
(* reads at all.  A set of flags stands for the bits of EventFlags.        *)
(***************************************************************************)
EXTENDS Integers

Sides == {"Bid", "Ask"}

-----------------------------------------------------------------------------
(* EventFlags and EventHeader *)

IS_SNAPSHOT == {"IS_SNAPSHOT"}
LAST_IN_BATCH == {"LAST_IN_BATCH"}
EventFlags == SUBSET (IS_SNAPSHOT \cup LAST_IN_BATCH)

EMPTY == {}
HasFlags(flags, other) == other \subseteq flags
With(flags, other) == flags \cup other

NO_INSTRUMENT == 0      \* InstrumentId::NONE

EventHeader == [seq: Nat, inst: Nat, flags: EventFlags]
Header(seq, inst, flags) == [seq |-> seq, inst |-> inst, flags |-> flags]

-----------------------------------------------------------------------------
(* Payloads *)

UpdateAction == {"New", "Change", "Delete"}
BookDeltaPayload == [price: Int, qty: Nat, side: Sides, action: UpdateAction]
TradePayload == [price: Int, qty: Nat, aggressor: Sides]
TopOfBookPayload == [price: [Sides -> Int], qty: [Sides -> Nat]]

OrderStatus == {"Accepted", "Cancelled", "Expired"}
OrderAckPayload == [order: Nat, status: OrderStatus]
FillPayload == [order: Nat, price: Int, qty: Nat, side: Sides]

RejectReason ==
    {"InsufficientFunds", "InvalidPrice", "InvalidQty", "DuplicateOrderId",
     "RiskLimitBreached", "VenueError", "Unknown"}
OrderRejectPayload == [order: Nat, reason: RejectReason]

TimerKind == {"StaleFeed", "Periodic", "Deadline"}
TimerPayload == [kind: TimerKind]
HeartbeatPayload == [counter: Nat]

-----------------------------------------------------------------------------
(* EventBody, EventKind and HotEvent *)

Variant(kind, payloads) == [kind: {kind}, payload: payloads]

EventBody ==
    Variant("BookDelta", BookDeltaPayload) \cup Variant("Trade", TradePayload)
        \cup Variant("TopOfBook", TopOfBookPayload) \cup Variant("OrderAck", OrderAckPayload)
        \cup Variant("Fill", FillPayload) \cup Variant("OrderReject", OrderRejectPayload)
        \cup Variant("Timer", TimerPayload) \cup Variant("Heartbeat", HeartbeatPayload)

HotEvent == [header: EventHeader, body: EventBody]

EventKind(e) == e.body.kind

HotEventOf(kind, header, payload) ==
    [header |-> header, body |-> [kind |-> kind, payload |-> payload]]

book_delta(seq, inst, flags, p) == HotEventOf("BookDelta", Header(seq, inst, flags), p)
trade(seq, inst, flags, p) == HotEventOf("Trade", Header(seq, inst, flags), p)
top_of_book(seq, inst, flags, p) == HotEventOf("TopOfBook", Header(seq, inst, flags), p)
order_ack(seq, inst, flags, p) == HotEventOf("OrderAck", Header(seq, inst, flags), p)
fill(seq, inst, flags, p) == HotEventOf("Fill", Header(seq, inst, flags), p)
order_reject(seq, inst, flags, p) == HotEventOf("OrderReject", Header(seq, inst, flags), p)
timer_event(seq, inst, flags, p) == HotEventOf("Timer", Header(seq, inst, flags), p)
heartbeat(seq, flags, p) == HotEventOf("Heartbeat", Header(seq, NO_INSTRUMENT, flags), p)

=============================================================================
