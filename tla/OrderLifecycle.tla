--------------------------- MODULE OrderLifecycle ---------------------------
(***************************************************************************)
(* The venue-order state machine of predictions/execution/ledger.py: which *)
(* state may follow which in the history of one venue order, and the test  *)
(* a stored history has to pass before recovery or reconciliation uses it. *)
(*                                                                         *)
(* An event is a record [state, ref, src]:                                 *)
(*   ref  "venue" for the order id the venue acknowledged, "synthetic" for *)
(*        the placeholder "intent:<intent id>" used before one is known;   *)
(*   src  where the event came from (a stream event id, or an origin).     *)
(* A history is the sequence of an intent's events in received_at order.   *)
(***************************************************************************)
EXTENDS Naturals, Sequences

OrderStates ==
  { "SUBMITTING", "ACK_MATCHED", "ACK_DELAYED", "ACK_LIVE_UNEXPECTED",
    "PARTIALLY_FILLED", "FILLED", "CANCEL_PENDING", "CANCELLED",
    "REJECTED", "UNKNOWN", "RECONCILED" }

TerminalStates == { "FILLED", "CANCELLED", "REJECTED", "RECONCILED" }

FillStates == { "PARTIALLY_FILLED", "FILLED" }

Refs == { "venue", "synthetic" }

\* _LEGAL_ORDER_TRANSITIONS; a state that is not a key (the terminal ones)
\* has no successor.
Successors(state) ==
  CASE state = "SUBMITTING" -> { "UNKNOWN", "REJECTED" }
    [] state \in { "ACK_MATCHED", "ACK_LIVE_UNEXPECTED" } ->
         { "PARTIALLY_FILLED", "FILLED", "CANCEL_PENDING", "CANCELLED",
           "REJECTED", "UNKNOWN", "RECONCILED" }
    [] state = "ACK_DELAYED" ->
         { "ACK_MATCHED", "PARTIALLY_FILLED", "FILLED", "REJECTED",
           "UNKNOWN", "RECONCILED" }
    [] state = "PARTIALLY_FILLED" ->
         { "PARTIALLY_FILLED", "FILLED", "CANCEL_PENDING", "CANCELLED",
           "UNKNOWN", "RECONCILED" }
    [] state = "CANCEL_PENDING" ->
         { "CANCEL_PENDING", "CANCELLED", "FILLED", "PARTIALLY_FILLED",
           "UNKNOWN", "RECONCILED" }
    [] state = "UNKNOWN" ->
         { "ACK_MATCHED", "PARTIALLY_FILLED", "FILLED", "CANCEL_PENDING",
           "CANCELLED", "REJECTED", "RECONCILED" }
    [] OTHER -> {}

LegalTransition(previous, current) == current \in Successors(previous)

\* The history of one order id holds the events of that id only; two events
\* are neighbours in it when no event of the same id lies between them.
Neighbours(h, j, k) ==
  /\ j < k
  /\ h[j].ref = h[k].ref
  /\ \A m \in (j + 1)..(k - 1) : h[m].ref # h[j].ref

\* _classify_order_histories: each order id's events form a legal chain.  A
\* terminal state has no successor, so nothing follows one.
LegalHistory(h) ==
  \A j, k \in 1..Len(h) :
    Neighbours(h, j, k) => LegalTransition(h[j].state, h[k].state)

HasState(h, states) == \E k \in 1..Len(h) : h[k].state \in states

\* _known_venue_order_ids is not empty.  The order is posted at most once, so
\* the venue hands out at most one id.
VenueIdKnown(h) == \E k \in 1..Len(h) : h[k].ref = "venue"

LatestState(h) == h[Len(h)].state
=============================================================================
