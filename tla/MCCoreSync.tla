----------------------------- MODULE MCCoreSync -----------------------------
(* TLC instance of CoreSync: the operations two edges, one of them restored *)
(* from a backup, may send in any order and any number of times.            *)
EXTENDS CoreSync

CONSTANTS o1, o2, t1, t2

Op(id, type, agg, stream, ver, command, to, parent) ==
  [id |-> id, type |-> type, agg |-> agg, stream |-> stream, ver |-> ver,
   command |-> command, to |-> to, parent |-> parent]

MCSubmissions == {
  \* the life of o1 and of its ticket t1
  Op(1, "order", o1, o1, 1, "order.create", "received", None),
  Op(2, "order", o1, o1, 2, "kitchenTicket.transitionAll", "fired", None),
  Op(3, "order", o1, o1, 3, "order.transition", "completed", None),
  Op(4, "kitchenTicket", t1, o1, 2, "kitchenTicket.transition", "fired", o1),
  Op(5, "kitchenTicket", t1, o1, 3, "kitchenTicket.transition", "preparing", o1),
  \* the same id with another body, and another id with the same version
  Op(2, "order", o1, o1, 2, "kitchenTicket.transitionAll", "cancelled", None),
  Op(6, "order", o1, o1, 2, "order.transition", "cancelled", None),
  \* a ticket command of the direct route, which names no order
  Op(7, "kitchenTicket", t2, o1, 2, "kitchenTicket.transition", "fired", None),
  \* a malformed operation under the id of a good one
  Op(3, "order", o1, o1, 0, "order.transition", "cancelled", None),
  \* an unsupported command and one on the wrong aggregate type
  Op(8, "order", o1, o1, 1, "order.delete", "cancelled", None),
  Op(9, "kitchenTicket", t1, o1, 2, "kitchenTicket.transitionAll", "fired", o1),
  \* an order that core's staff move too
  Op(10, "order", o2, o2, 1, "order.create", "received", None),
  Op(11, "order", o2, o2, 2, "kitchenTicket.transitionAll", "fired", None) }

MCOps == 1..11
=============================================================================
