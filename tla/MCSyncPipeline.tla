--------------------------- MODULE MCSyncPipeline ---------------------------
(* TLC instances of SyncPipeline. *)
EXTENDS SyncPipeline, TLC

CONSTANT Operations   \* bound: commands in a behaviour

MCOps == 1..Operations
MCEnvelopes == {[id |-> i, key |-> i] : i \in MCOps}

AllCommands ==
  ({"order.transition"} \X OrderStatus)
    \cup ({"kitchenTicket.transitionAll", "kitchenTicket.transition", "direct ticket"}
            \X TicketStatus)

\* Kitchens that move whole orders, by either command.
WholeOrderCommands ==
  {c \in AllCommands : c[1] \in {"order.transition", "kitchenTicket.transitionAll"}}

\* A ticket is fired from the kitchen display, then the order moves on.
MixedCommands == { <<"kitchenTicket.transition", "fired">>, <<"order.transition", "preparing">> }

\* An order's way to completion.
CompletingCommands == {"order.transition"} \X {"accepted", "preparing", "ready", "completed"}

\* One status of every command, enough for a second operation of each kind.
SomeCommands ==
  { <<"order.transition", "accepted">>, <<"kitchenTicket.transitionAll", "fired">>,
    <<"kitchenTicket.transition", "fired">>, <<"direct ticket", "cancelled">> }

Symmetry == Permutations(Orders) \cup Permutations(Tickets) \cup Permutations(Slots)
=============================================================================
