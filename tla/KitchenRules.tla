---------------------------- MODULE KitchenRules ----------------------------
(***************************************************************************)
(* The two status machines of the outlet edge and the functions that tie   *)
(* an order's status to the statuses of its kitchen tickets:               *)
(* services/edge/internal/model/model.go and the helpers at the end of     *)
(* services/edge/internal/store/store.go.  Constant level only.            *)
(***************************************************************************)

EXTENDS Naturals

OrderStatus == {"received", "accepted", "preparing", "ready", "completed", "cancelled"}

TicketStatus == {"queued", "fired", "preparing", "ready", "completed", "cancelled"}

\* "completed" and "cancelled" end both machines.
Terminal == {"completed", "cancelled"}

\* Neither machine leaves a terminal status; otherwise one step forward or cancel.
CanTransitionOrder(from, to) ==
  \/ to = "cancelled" /\ from \notin Terminal
  \/ <<from, to>> \in { <<"received", "accepted">>, <<"accepted", "preparing">>,
                        <<"preparing", "ready">>, <<"ready", "completed">> }

CanTransitionTicket(from, to) ==
  \/ to = "cancelled" /\ from \notin Terminal
  \/ <<from, to>> \in { <<"queued", "fired">>, <<"fired", "preparing">>,
                        <<"preparing", "ready">>, <<"ready", "completed">> }

\* The status an order command wants a ticket in; finished tickets keep theirs.
\* The code's second result, change, is (the value # current).
ticketStatusForOrder(status, current) ==
  IF current \in Terminal \/ status = "received" THEN current
  ELSE IF status = "accepted" THEN "fired"
  ELSE status

\* Faulty: "all tickets ready" asks only for some ready ticket.
deriveOrderStatusSomeReady(S) ==
  IF S = {} THEN "received"
  ELSE IF S \subseteq {"cancelled"} THEN "cancelled"
  ELSE IF S \subseteq Terminal THEN "completed"
  ELSE IF "ready" \in S THEN "ready"
  ELSE IF S \cap {"preparing", "completed"} # {} THEN "preparing"
  ELSE IF "fired" \in S THEN "accepted"
  ELSE "received"

\* What the set S of an order's ticket statuses says about the order.
deriveOrderStatus(S) ==
  IF S = {} THEN "received"
  ELSE IF S \subseteq {"cancelled"} THEN "cancelled"
  ELSE IF S \subseteq Terminal THEN "completed"
  ELSE IF S \subseteq {"ready"} \cup Terminal THEN "ready"
  ELSE IF S \cap {"preparing", "ready", "completed"} # {} THEN "preparing"
  ELSE IF "fired" \in S THEN "accepted"
  ELSE "received"

\* The rank map of shouldAdvanceOrder; a missing key ("cancelled") reads as 0.
Rank(status) ==
  IF status = "accepted" THEN 1
  ELSE IF status = "preparing" THEN 2
  ELSE IF status = "ready" THEN 3
  ELSE IF status = "completed" THEN 4
  ELSE 0

\* Faulty: the derived cancellation is ranked like any other status.
shouldAdvanceOrderRankOnly(current, candidate) == Rank(candidate) > Rank(current)

\* Whether the derived status replaces the stored one.
shouldAdvanceOrder(current, candidate) ==
  IF candidate = "cancelled" THEN current \notin Terminal
  ELSE Rank(candidate) > Rank(current)
=============================================================================
