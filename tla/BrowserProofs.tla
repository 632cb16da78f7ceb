--------------------------- MODULE BrowserProofs ----------------------------
(***************************************************************************)
(* Proofs about the browser in front of the edge: its commands are taken   *)
(* once and in order (QueueInv, DrainInv), and what is pending stays shown *)
(* whatever a pull fetched (ViewInv, FetchInv, PendingInv).                *)
(***************************************************************************)
EXTENDS KitchenProofs, Browser

\* The events given so far, each in the outbox or recorded at the edge.
QueueInv ==
  /\ issued \in Nat
  /\ outbox \subseteq OutboxEvent
  /\ recorded \in Seq(Nat)
  /\ \A e \in outbox : e.id \in 1..issued
  /\ \A e, f \in outbox : e.id = f.id => e = f
  /\ \A i \in DOMAIN recorded : recorded[i] \in 1..issued
  /\ \A i, j \in DOMAIN recorded : i < j => recorded[i] < recorded[j]
  /\ \A e \in listOutbox : ~Known(e) => \A i \in DOMAIN recorded : recorded[i] < e.id
  /\ \A n \in 1..issued : (\E i \in DOMAIN recorded : recorded[i] = n) \/ (\E e \in outbox : e.id = n)

\* A drain holds the oldest pending events; an answer is about the first of them.
DrainInv ==
  /\ batch \subseteq listOutbox
  /\ \A e \in batch, f \in listOutbox \ batch : e.id < f.id
  /\ answer = "ok" => \A e \in batch : First(e) => Known(e)
  /\ batch = {} => answer = None

\* What is shown as the edge's is not ahead of the edge, and a ticket is shown at its order.
ViewInv ==
  /\ shown \in [Orders -> KitchenOrder \cup {None}]
  /\ shownTickets \in [Tickets -> KitchenTicket \cup {None}]
  /\ \A o \in Orders : shown[o] # None /\ shown[o].origin = "edge" =>
       Exists(o) /\ shown[o].version <= orderVersion[o]
  /\ \A t \in Tickets : shownTickets[t] # None /\ shownTickets[t].origin = "edge" =>
       ticketOrder[t] # None /\ shownTickets[t].version <= ticketVersion[t]
  /\ \A t \in Tickets : shownTickets[t] # None /\ ticketOrder[t] # None =>
       shownTickets[t].order = ticketOrder[t]

\* The rows a pull holds lie between what was shown as the edge's before and the edge's rows.
FetchedOrder(o, row) ==
  /\ row \in KitchenOrder /\ row.origin = "edge"
  /\ Exists(o) /\ row.version <= orderVersion[o]
  /\ shown[o] # None /\ shown[o].origin = "edge" => shown[o].version <= row.version
FetchedTicket(t, row) ==
  /\ row \in KitchenTicket /\ row.origin = "edge"
  /\ ticketOrder[t] # None /\ row.order = ticketOrder[t] /\ row.version <= ticketVersion[t]
  /\ shownTickets[t] # None /\ shownTickets[t].origin = "edge" =>
       shownTickets[t].version <= row.version
FetchInv ==
  fetched # None =>
    /\ DOMAIN fetched.orders = Orders /\ DOMAIN fetched.tickets = Tickets
    /\ \A o \in Orders : fetched.orders[o] # {} /\ \A row \in fetched.orders[o] : row = None \/ FetchedOrder(o, row)
    /\ \A t \in Tickets : fetched.tickets[t] # {} /\ \A row \in fetched.tickets[t] : row = None \/ FetchedTicket(t, row)

\* The rows of a pending event are shown at its versions or later ones, tickets at its order.
OrderShown(e, o) == o = e.order /\ shown[o] # None /\ shown[o].version >= e.rows[o]
TicketShown(e, t) ==
  /\ shownTickets[t] # None /\ shownTickets[t].version >= e.rows[t]
  /\ shownTickets[t].order = e.order
EventShown(e) ==
  /\ \A o \in Orders : o \in DOMAIN e.rows => OrderShown(e, o)
  /\ \A t \in Tickets : t \in DOMAIN e.rows => TicketShown(e, t)
  /\ e.kind = "create" => e.tickets \subseteq DOMAIN e.rows
  /\ e.kind = "ticket" => e.ticket \in Tickets
PendingInv == \A e \in listOutbox : EventShown(e)
-----------------------------------------------------------------------------
(* The queue of commands *)

\* A new command is numbered after all others.
LEMMA CommitKeepsQueue ==
  ASSUME QueueInv, DrainInv, NEW ev \in OutboxEvent, ev.id = issued + 1,
         ev.disposition = "pending", Commit(ev)
  PROVE  QueueInv' /\ DrainInv'
<1>1. /\ issued' = issued + 1 /\ outbox' = outbox \cup {ev}
      /\ recorded' = recorded /\ batch' = batch /\ answer' = answer
  BY DEF Commit
<1>2. /\ issued \in Nat /\ recorded \in Seq(Nat) /\ \A e \in outbox : e.id \in 1..issued
      /\ \A i \in DOMAIN recorded : recorded[i] \in 1..issued
  BY DEF QueueInv
<1>3. issued' \in Nat /\ outbox' \subseteq OutboxEvent /\ recorded' \in Seq(Nat)
  BY <1>1, <1>2 DEF QueueInv
<1>4. \A e \in outbox' : e.id \in 1..issued'
  BY <1>1, <1>2
<1>5. \A e, f \in outbox' : e.id = f.id => e = f
  <2>1. \A e \in outbox : e.id # ev.id
    BY <1>2
  <2> QED
    BY <1>1, <2>1 DEF QueueInv
<1>6. /\ \A i \in DOMAIN recorded' : recorded'[i] \in 1..issued'
      /\ \A i, j \in DOMAIN recorded' : i < j => recorded'[i] < recorded'[j]
  BY <1>1, <1>2 DEF QueueInv
<1>7. ASSUME NEW e \in listOutbox', ~Known(e)'
      PROVE  \A i \in DOMAIN recorded' : recorded'[i] < e.id
  <2>1. e = ev \/ (e \in listOutbox /\ ~Known(e))
    BY <1>1, <1>7 DEF listOutbox, Known
  <2> QED
    BY <1>1, <1>2, <2>1 DEF QueueInv
<1>8. ASSUME NEW n \in 1..issued'
      PROVE  (\E i \in DOMAIN recorded' : recorded'[i] = n) \/ (\E e \in outbox' : e.id = n)
  <2>1. n \in 1..issued \/ n = ev.id
    BY <1>1, <1>2
  <2> QED
    BY <1>1, <2>1 DEF QueueInv
<1>9. QueueInv'
  BY <1>3, <1>4, <1>5, <1>6, <1>7, <1>8 DEF QueueInv
<1>10. batch' \subseteq listOutbox'
  BY <1>1 DEF DrainInv, listOutbox
<1>11. ASSUME NEW e \in batch', NEW f \in listOutbox' \ batch'
       PROVE  e.id < f.id
  <2>1. e \in batch /\ e \in outbox
    BY <1>1 DEF DrainInv, listOutbox
  <2>2. f = ev \/ f \in listOutbox \ batch
    BY <1>1 DEF listOutbox
  <2> QED
    BY <1>2, <2>1, <2>2 DEF DrainInv
<1>12. answer' = "ok" => \A e \in batch' : First(e)' => Known(e)'
  BY <1>1 DEF DrainInv, First, Known
<1>13. batch' = {} => answer' = None
  BY <1>1 DEF DrainInv
<1> QED
  BY <1>9, <1>10, <1>11, <1>12, <1>13 DEF DrainInv

\* Steps outside of outbox and drain.
LEMMA QueueFrame ==
  ASSUME QueueInv, DrainInv, UNCHANGED <<outbox, issued, batch, answer, recorded>>
  PROVE  QueueInv' /\ DrainInv'
BY DEF QueueInv, DrainInv, listOutbox, Known, First

\* A drain starts with all that is pending, and ends with nothing.
LEMMA DrainKeepsQueue ==
  ASSUME QueueInv, DrainInv, UNCHANGED <<outbox, issued, recorded>>,
         \/ batch = {} /\ batch' = listOutbox /\ answer' = answer
         \/ batch' = {} /\ answer' = None
  PROVE  QueueInv' /\ DrainInv'
<1>1. QueueInv'
  BY DEF QueueInv, listOutbox, Known
<1>2. listOutbox' = listOutbox
  BY DEF listOutbox
<1> QED
  BY <1>1, <1>2, BrowserAssumption DEF DrainInv

\* The edge handles the first event of the drain: every other pending event is later.
LEMMA TransmitKeepsQueue ==
  ASSUME QueueInv, DrainInv, NEW e \in batch, Transmit(e)
  PROVE  QueueInv' /\ DrainInv'
<1>1. /\ First(e) /\ UNCHANGED <<outbox, issued, batch>>
      /\ \/ Known(e) /\ answer' = "ok" /\ recorded' = recorded
         \/ ~Known(e) /\ answer' = "ok" /\ recorded' = Append(recorded, e.id)
         \/ answer' = "refused" /\ recorded' = recorded
  BY DEF Transmit, deviceVars
<1>2. listOutbox' = listOutbox
  BY <1>1 DEF listOutbox
<1>3. /\ issued \in Nat /\ recorded \in Seq(Nat) /\ \A f \in outbox : f.id \in 1..issued
      /\ \A f, g \in outbox : f.id = g.id => f = g
      /\ \A i \in DOMAIN recorded : recorded[i] \in 1..issued
      /\ \A i, j \in DOMAIN recorded : i < j => recorded[i] < recorded[j]
      /\ \A f \in listOutbox : ~Known(f) => \A i \in DOMAIN recorded : recorded[i] < f.id
  BY DEF QueueInv
<1>4. e \in listOutbox /\ e \in outbox /\ listOutbox \subseteq outbox
  BY DEF DrainInv, listOutbox
<1>5. CASE recorded' = recorded
  <2>1. QueueInv'
    BY <1>1, <1>5 DEF QueueInv, listOutbox, Known
  <2>2. answer' = "ok" => \A f \in batch' : First(f)' => Known(f)'
    <3> SUFFICES ASSUME answer' = "ok", NEW f \in batch', First(f)' PROVE Known(f)'
      OBVIOUS
    <3>1. f \in outbox /\ f.id <= e.id /\ e.id <= f.id
      BY <1>1, <1>4 DEF First, DrainInv
    <3>2. f = e
      BY <1>3, <1>4, <3>1
    <3> QED
      BY <1>1, <1>5, <3>2 DEF Known
  <2> QED
    BY <1>1, <1>2, <2>1, <2>2 DEF DrainInv
<1>6. CASE ~Known(e) /\ answer' = "ok" /\ recorded' = Append(recorded, e.id)
  <2>1. /\ recorded' \in Seq(Nat) /\ DOMAIN recorded' = 1..(Len(recorded) + 1)
        /\ DOMAIN recorded = 1..Len(recorded) /\ Len(recorded) \in Nat
        /\ \A i \in DOMAIN recorded : recorded'[i] = recorded[i]
        /\ recorded'[Len(recorded) + 1] = e.id
    BY <1>3, <1>4, <1>6
  <2>2. \A i \in DOMAIN recorded' : i \in DOMAIN recorded \/ i = Len(recorded) + 1
    BY <2>1
  <2>3. \A i \in DOMAIN recorded : recorded[i] < e.id
    BY <1>3, <1>4, <1>6
  <2>4. \A i \in DOMAIN recorded' : recorded'[i] \in 1..issued'
    BY <1>1, <1>3, <1>4, <2>1, <2>2
  <2>5. \A i, j \in DOMAIN recorded' : i < j => recorded'[i] < recorded'[j]
    <3> SUFFICES ASSUME NEW i \in DOMAIN recorded', NEW j \in DOMAIN recorded', i < j
                 PROVE  recorded'[i] < recorded'[j]
      OBVIOUS
    <3>1. i \in DOMAIN recorded
      BY <2>1
    <3> QED
      BY <1>3, <2>1, <2>2, <2>3, <3>1
  <2>6. \A f : Known(f) => Known(f)'
    BY <2>1 DEF Known
  <2>7. Known(e)'
    BY <2>1 DEF Known
  <2>8. ASSUME NEW f \in listOutbox', ~Known(f)', NEW i \in DOMAIN recorded'
        PROVE  recorded'[i] < f.id
    <3>1. f \in listOutbox /\ ~Known(f) /\ f # e
      BY <1>2, <2>6, <2>7, <2>8
    <3>2. f.id # e.id /\ f.id \in Nat /\ e.id \in Nat
      BY <1>3, <1>4, <3>1
    <3>3. e.id < f.id
      BY <1>1, <3>1, <3>2 DEF First, DrainInv
    <3> QED
      BY <1>3, <2>1, <2>2, <3>1, <3>3
  <2>9. ASSUME NEW n \in 1..issued'
        PROVE  (\E i \in DOMAIN recorded' : recorded'[i] = n) \/ (\E f \in outbox' : f.id = n)
    <3>1. (\E i \in DOMAIN recorded : recorded[i] = n) \/ (\E f \in outbox : f.id = n)
      BY <1>1 DEF QueueInv
    <3> QED
      BY <1>1, <2>1, <3>1
  <2>10. QueueInv'
    <3>1. issued' \in Nat /\ outbox' \subseteq OutboxEvent
      BY <1>1 DEF QueueInv
    <3>2. /\ \A f \in outbox' : f.id \in 1..issued'
          /\ \A f, g \in outbox' : f.id = g.id => f = g
      BY <1>1, <1>3
    <3> QED
      BY <2>1, <2>4, <2>5, <2>8, <2>9, <3>1, <3>2 DEF QueueInv
  <2>11. \A f \in batch' : First(f)' => Known(f)'
    <3> SUFFICES ASSUME NEW f \in batch', First(f)' PROVE Known(f)'
      OBVIOUS
    <3>1. f \in outbox /\ f.id <= e.id /\ e.id <= f.id
      BY <1>1, <1>4 DEF First, DrainInv
    <3> QED
      BY <1>3, <1>4, <2>7, <3>1
  <2> QED
    BY <1>1, <1>2, <2>10, <2>11 DEF DrainInv
<1> QED
  BY <1>1, <1>5, <1>6

\* An answered event leaves the outbox if it was taken, and is set aside if it was refused.
LEMMA AnswerKeepsQueue ==
  ASSUME QueueInv, DrainInv, NEW e \in batch, Answered(e)
  PROVE  QueueInv' /\ DrainInv' /\ listOutbox' \subseteq listOutbox
<1>1. /\ First(e) /\ UNCHANGED <<issued, recorded>> /\ batch' = batch \ {e} /\ answer' = None
      /\ outbox' = IF answer = "ok" THEN {f \in outbox : f.id # e.id}
                   ELSE {IF f.id = e.id THEN [f EXCEPT !.disposition = "quarantined"] ELSE f : f \in outbox}
  BY DEF Answered
<1>2. e \in outbox /\ outbox \subseteq OutboxEvent /\ \A f, g \in outbox : f.id = g.id => f = g
  BY DEF DrainInv, listOutbox, QueueInv
<1>3. PICK q : q = [e EXCEPT !.disposition = "quarantined"]
  OBVIOUS
<1>4. q \in OutboxEvent /\ q.id = e.id /\ q.disposition = "quarantined"
  BY <1>2, <1>3 DEF OutboxEvent
<1>5. /\ \A f \in outbox : f.id # e.id => f \in outbox'
      /\ \A f \in outbox' : (f \in outbox /\ f.id # e.id) \/ f = q
      /\ answer # "ok" => q \in outbox'
  BY <1>1, <1>2, <1>3
<1>6. listOutbox' = {f \in listOutbox : f.id # e.id}
  BY <1>4, <1>5 DEF listOutbox
<1>7. answer = "ok" => \E i \in DOMAIN recorded : recorded[i] = e.id
  BY <1>1 DEF DrainInv, Known
<1>8. QueueInv'
  <2>1. issued' \in Nat /\ outbox' \subseteq OutboxEvent /\ recorded' \in Seq(Nat)
    BY <1>1, <1>4, <1>5 DEF QueueInv
  <2>2. \A f \in outbox' : f.id \in 1..issued'
    BY <1>1, <1>2, <1>4, <1>5 DEF QueueInv
  <2>3. \A f, g \in outbox' : f.id = g.id => f = g
    BY <1>2, <1>4, <1>5
  <2>4. /\ \A i \in DOMAIN recorded' : recorded'[i] \in 1..issued'
        /\ \A i, j \in DOMAIN recorded' : i < j => recorded'[i] < recorded'[j]
    BY <1>1 DEF QueueInv
  <2>5. \A f \in listOutbox' : ~Known(f)' => \A i \in DOMAIN recorded' : recorded'[i] < f.id
    BY <1>1, <1>6 DEF QueueInv, Known
  <2>6. ASSUME NEW n \in 1..issued'
        PROVE  (\E i \in DOMAIN recorded' : recorded'[i] = n) \/ (\E f \in outbox' : f.id = n)
    <3>1. (\E i \in DOMAIN recorded : recorded[i] = n) \/ (\E f \in outbox : f.id = n)
      BY <1>1 DEF QueueInv
    <3> QED
      BY <1>1, <1>4, <1>5, <1>7, <3>1
  <2> QED
    BY <2>1, <2>2, <2>3, <2>4, <2>5, <2>6 DEF QueueInv
<1>9. batch' \subseteq listOutbox'
  <2>1. \A f \in batch' : f \in outbox /\ f \in listOutbox /\ f # e
    BY <1>1 DEF DrainInv, listOutbox
  <2> QED
    BY <1>2, <1>6, <2>1
<1>10. \A f \in batch', g \in listOutbox' \ batch' : f.id < g.id
  BY <1>1, <1>6 DEF DrainInv
<1> QED
  BY <1>1, <1>6, <1>8, <1>9, <1>10, BrowserAssumption DEF DrainInv
-----------------------------------------------------------------------------
(* The rows of the edge *)

\* What the browser makes of an order or a ticket of the edge.
MappedRows ==
  /\ \A o \in Orders : IF Exists(o)
                       THEN /\ mapEdgeOrder(o) \in KitchenOrder /\ mapEdgeOrder(o).origin = "edge"
                            /\ mapEdgeOrder(o).version = orderVersion[o]
                       ELSE mapEdgeOrder(o) = None
  /\ \A t \in Tickets : IF ticketOrder[t] # None
                        THEN /\ mapEdgeTicket(t) \in KitchenTicket /\ mapEdgeTicket(t).origin = "edge"
                             /\ mapEdgeTicket(t).version = ticketVersion[t]
                             /\ mapEdgeTicket(t).order = ticketOrder[t]
                        ELSE mapEdgeTicket(t) = None

\* The browser's rows are typed, and absent where the edge's are.
LEMMA RowsAreMapped == KitchenInv => MappedRows
<1> SUFFICES ASSUME KitchenInv PROVE MappedRows
  OBVIOUS
<1>1. KitchenTypeOK /\ RowsComplete
  BY DEF KitchenInv
<1>2. ASSUME NEW o \in Orders, Exists(o)
      PROVE  /\ mapEdgeOrder(o) \in KitchenOrder /\ mapEdgeOrder(o).origin = "edge"
             /\ mapEdgeOrder(o).version = orderVersion[o]
  <2>1. PICK s : s = statusMap(orderStatus[o])
    OBVIOUS
  <2>2. s \in TicketStatus
    BY <1>1, <1>2, <2>1 DEF statusMap, KitchenTypeOK, OrderStatus, TicketStatus, Exists
  <2>3. mapEdgeOrder(o) = [status |-> s, version |-> orderVersion[o], origin |-> "edge", ref |-> None]
    BY <1>2, <2>1 DEF mapEdgeOrder
  <2>4. orderVersion[o] \in Nat
    BY <1>1 DEF KitchenTypeOK
  <2> QED
    BY <2>2, <2>3, <2>4 DEF KitchenOrder
<1>3. ASSUME NEW t \in Tickets, ticketOrder[t] # None
      PROVE  /\ mapEdgeTicket(t) \in KitchenTicket /\ mapEdgeTicket(t).origin = "edge"
             /\ mapEdgeTicket(t).version = ticketVersion[t] /\ mapEdgeTicket(t).order = ticketOrder[t]
  <2>1. mapEdgeTicket(t) = [status |-> ticketStatus[t], version |-> ticketVersion[t],
                            origin |-> "edge", order |-> ticketOrder[t]]
    BY <1>3 DEF mapEdgeTicket
  <2>2. ticketStatus[t] \in TicketStatus /\ ticketVersion[t] \in Nat /\ ticketOrder[t] \in Orders
    BY <1>1, <1>3 DEF KitchenTypeOK, RowsComplete
  <2> QED
    BY <2>1, <2>2 DEF KitchenTicket
<1>4. /\ \A o \in Orders : ~Exists(o) => mapEdgeOrder(o) = None
      /\ \A t \in Tickets : ticketOrder[t] = None => mapEdgeTicket(t) = None
  BY DEF mapEdgeOrder, mapEdgeTicket
<1> QED
  BY <1>2, <1>3, <1>4 DEF MappedRows

\* Rows of the edge are never removed, nor given to another order.
LEMMA EdgeRowsStay ==
  ASSUME KitchenInv, AllAdvance
  PROVE  /\ \A o \in Orders : Exists(o) => Exists(o)' /\ orderVersion[o] <= orderVersion'[o]
         /\ \A t \in Tickets : ticketOrder[t] # None =>
              ticketOrder'[t] = ticketOrder[t] /\ ticketVersion[t] <= ticketVersion'[t]
<1>1. KitchenTypeOK
  BY DEF KitchenInv
<1>2. ASSUME NEW o \in Orders, Exists(o) PROVE Exists(o)' /\ orderVersion[o] <= orderVersion'[o]
  <2>1. OrderAdvances(o) /\ orderVersion[o] \in Nat
    BY <1>1 DEF AllAdvance, KitchenTypeOK
  <2>2. Rank(None) = 0 /\ Rank(orderStatus[o]) \in Nat /\ None # "cancelled"
    BY NoneAssumption DEF Rank, OrderStatus
  <2> QED
    BY <1>2, <2>1, <2>2 DEF OrderAdvances, Exists
<1>3. ASSUME NEW t \in Tickets, ticketOrder[t] # None
      PROVE  ticketOrder'[t] = ticketOrder[t] /\ ticketVersion[t] <= ticketVersion'[t]
  BY <1>1, <1>3 DEF AllAdvance, TicketAdvances, KitchenTypeOK
<1> QED
  BY <1>2, <1>3

\* Whatever the edge does, and whenever a pull reads it.
LEMMA EdgeKeepsViews ==
  ASSUME KitchenInv, KitchenInv', AllAdvance, ViewInv, FetchInv,
         UNCHANGED <<shown, shownTickets>>, fetched' = Observed,
         \A t \in Tickets : ticketOrder[t] = None /\ ticketOrder'[t] # None /\ shownTickets[t] # None =>
           shownTickets[t].order = ticketOrder'[t]
  PROVE  ViewInv' /\ FetchInv'
<1>1. /\ \A o \in Orders : Exists(o) => Exists(o)' /\ orderVersion[o] <= orderVersion'[o]
      /\ \A t \in Tickets : ticketOrder[t] # None =>
           ticketOrder'[t] = ticketOrder[t] /\ ticketVersion[t] <= ticketVersion'[t]
  BY EdgeRowsStay
<1>2. MappedRows'
  BY RowsAreMapped, PTL
<1>3. /\ orderVersion \in [Orders -> Nat] /\ orderVersion' \in [Orders -> Nat]
      /\ ticketVersion \in [Tickets -> Nat] /\ ticketVersion' \in [Tickets -> Nat]
  BY DEF KitchenInv, KitchenTypeOK
<1>4. /\ \A o \in Orders : shown[o] # None => shown[o].version \in Nat
      /\ \A t \in Tickets : shownTickets[t] # None => shownTickets[t].version \in Nat
  BY DEF ViewInv, KitchenOrder, KitchenTicket
<1>5. ViewInv'
  <2>1. \A o \in Orders : shown'[o] # None /\ shown'[o].origin = "edge" =>
          Exists(o)' /\ shown'[o].version <= orderVersion'[o]
    BY <1>1, <1>3, <1>4 DEF ViewInv
  <2>2. \A t \in Tickets : shownTickets'[t] # None /\ shownTickets'[t].origin = "edge" =>
          ticketOrder'[t] # None /\ shownTickets'[t].version <= ticketVersion'[t]
    BY <1>1, <1>3, <1>4 DEF ViewInv
  <2>3. \A t \in Tickets : shownTickets'[t] # None /\ ticketOrder'[t] # None =>
          shownTickets'[t].order = ticketOrder'[t]
    BY <1>1 DEF ViewInv
  <2>4. /\ shown' \in [Orders -> KitchenOrder \cup {None}]
        /\ shownTickets' \in [Tickets -> KitchenTicket \cup {None}]
    BY DEF ViewInv
  <2> QED
    BY <2>1, <2>2, <2>3, <2>4 DEF ViewInv
<1>6. FetchInv'
  <2>0. CASE fetched = None
    BY <2>0 DEF Observed, FetchInv
  <2> SUFFICES ASSUME fetched # None PROVE FetchInv'
    BY <2>0
  <2>1. /\ \A o \in Orders : fetched.orders[o] # {} /\ \A row \in fetched.orders[o] : row = None \/ FetchedOrder(o, row)
        /\ \A t \in Tickets : fetched.tickets[t] # {} /\ \A row \in fetched.tickets[t] : row = None \/ FetchedTicket(t, row)
    BY DEF FetchInv
  <2>2. /\ fetched'.orders = [o \in Orders |-> fetched.orders[o] \cup {mapEdgeOrder(o)'}]
        /\ fetched'.tickets = [t \in Tickets |-> fetched.tickets[t] \cup {mapEdgeTicket(t)'}]
    BY DEF Observed
  <2>3. ASSUME NEW o \in Orders, NEW row \in fetched'.orders[o] PROVE row = None \/ FetchedOrder(o, row)'
    <3>1. CASE row \in fetched.orders[o]
      <4>1. row = None \/ FetchedOrder(o, row)
        BY <2>1, <3>1
      <4> QED
        BY <4>1, <1>1, <1>3 DEF FetchedOrder, KitchenOrder
    <3>2. CASE row = mapEdgeOrder(o)'
      <4>1. CASE Exists(o)'
        <5>1. row \in KitchenOrder /\ row.origin = "edge" /\ row.version = orderVersion'[o]
          BY <1>2, <3>2, <4>1 DEF MappedRows
        <5>2. shown'[o] # None /\ shown'[o].origin = "edge" => shown'[o].version <= orderVersion'[o]
          BY <1>5 DEF ViewInv
        <5> QED
          BY <1>3, <4>1, <5>1, <5>2 DEF FetchedOrder
      <4>2. CASE ~Exists(o)'
        BY <1>2, <3>2, <4>2 DEF MappedRows
      <4> QED
        BY <4>1, <4>2
    <3> QED
      BY <2>2, <3>1, <3>2
  <2>4. ASSUME NEW t \in Tickets, NEW row \in fetched'.tickets[t] PROVE row = None \/ FetchedTicket(t, row)'
    <3>1. CASE row \in fetched.tickets[t]
      <4>1. row = None \/ FetchedTicket(t, row)
        BY <2>1, <3>1
      <4> QED
        BY <4>1, <1>1, <1>3 DEF FetchedTicket, KitchenTicket
    <3>2. CASE row = mapEdgeTicket(t)'
      <4>1. CASE ticketOrder'[t] # None
        <5>1. /\ row \in KitchenTicket /\ row.origin = "edge" /\ row.version = ticketVersion'[t]
              /\ row.order = ticketOrder'[t]
          BY <1>2, <3>2, <4>1 DEF MappedRows
        <5>2. shownTickets'[t] # None /\ shownTickets'[t].origin = "edge" =>
                shownTickets'[t].version <= ticketVersion'[t]
          BY <1>5 DEF ViewInv
        <5> QED
          BY <1>3, <4>1, <5>1, <5>2 DEF FetchedTicket
      <4>2. CASE ticketOrder'[t] = None
        BY <1>2, <3>2, <4>2 DEF MappedRows
      <4> QED
        BY <4>1, <4>2
    <3> QED
      BY <2>2, <3>1, <3>2
  <2>5. /\ DOMAIN fetched'.orders = Orders /\ DOMAIN fetched'.tickets = Tickets
        /\ \A o \in Orders : fetched'.orders[o] # {}
        /\ \A t \in Tickets : fetched'.tickets[t] # {}
    BY <2>2
  <2> QED
    BY <2>3, <2>4, <2>5 DEF FetchInv
<1> QED
  BY <1>5, <1>6
-----------------------------------------------------------------------------
(* Pulls *)

\* What a reading of the edge holds was a row of the edge during the pull.
LEMMA ReadingFacts ==
  ASSUME NEW table, \A r \in DOMAIN table : table[r] # {}, NEW g \in Readings(table)
  PROVE  \A r \in DOMAIN table : g[r] = None \/ g[r] \in table[r]
<1> DEFINE moving == {r \in DOMAIN table : Cardinality(table[r]) > 1}
           read   == [moving -> {None} \cup UNION {table[r] : r \in moving}]
<1>1. PICK f \in {h \in read : \A r \in moving : h[r] \in table[r] \cup {None}} :
        g = [r \in DOMAIN table |-> IF r \in moving THEN f[r] ELSE CHOOSE row \in table[r] : TRUE]
  BY DEF Readings
<1>2. \A r \in moving : f[r] \in table[r] \cup {None}
  BY <1>1
<1>3. \A r \in DOMAIN table : (CHOOSE row \in table[r] : TRUE) \in table[r]
  OBVIOUS
<1> HIDE DEF moving, read
<1> QED
  BY <1>1, <1>2, <1>3

\* A pull that starts holds the rows of the edge as they are.
LEMMA StartPullKeeps ==
  ASSUME KitchenInv, ViewInv, StartPull
  PROVE  ViewInv' /\ FetchInv'
<1>1. /\ UNCHANGED <<shown, shownTickets, orderStatus, orderVersion, ticketOrder, ticketVersion>>
      /\ fetched' = [orders  |-> [o \in Orders  |-> {mapEdgeOrder(o)}],
                     tickets |-> [t \in Tickets |-> {mapEdgeTicket(t)}]]
  BY DEF StartPull, kitchenVars, deviceVars
<1>2. ViewInv'
  BY <1>1 DEF ViewInv, Exists
<1>3. MappedRows
  BY RowsAreMapped
<1>4. /\ orderVersion \in [Orders -> Nat] /\ ticketVersion \in [Tickets -> Nat]
  BY DEF KitchenInv, KitchenTypeOK
<1>5. /\ fetched'.orders = [o \in Orders  |-> {mapEdgeOrder(o)}]
      /\ fetched'.tickets = [t \in Tickets |-> {mapEdgeTicket(t)}]
  BY <1>1
<1>6. \A o \in Orders : mapEdgeOrder(o) = None \/ FetchedOrder(o, mapEdgeOrder(o))'
  <2> TAKE o \in Orders
  <2>1. PICK row : row = mapEdgeOrder(o)
    OBVIOUS
  <2>2. row = None \/ (row \in KitchenOrder /\ row.origin = "edge" /\ row.version = orderVersion[o] /\ Exists(o))
    BY <1>3, <2>1 DEF MappedRows
  <2>3. row = None \/ FetchedOrder(o, row)
    BY <1>4, <2>2 DEF ViewInv, FetchedOrder
  <2>4. row = None \/ FetchedOrder(o, row)'
    BY <1>1, <2>3 DEF FetchedOrder, Exists
  <2>5. mapEdgeOrder(o)' = mapEdgeOrder(o)
    BY DEF mapEdgeOrder, Exists, StartPull, kitchenVars
  <2> QED
    BY <2>1, <2>4, <2>5
<1>7. \A t \in Tickets : mapEdgeTicket(t) = None \/ FetchedTicket(t, mapEdgeTicket(t))'
  <2> TAKE t \in Tickets
  <2>1. PICK row : row = mapEdgeTicket(t)
    OBVIOUS
  <2>2. row = None \/ (row \in KitchenTicket /\ row.origin = "edge" /\ row.version = ticketVersion[t]
                         /\ ticketOrder[t] # None /\ row.order = ticketOrder[t])
    BY <1>3, <2>1 DEF MappedRows
  <2>3. row = None \/ FetchedTicket(t, row)
    BY <1>4, <2>2 DEF ViewInv, FetchedTicket
  <2>4. row = None \/ FetchedTicket(t, row)'
    BY <1>1, <2>3 DEF FetchedTicket
  <2>5. mapEdgeTicket(t)' = mapEdgeTicket(t)
    BY DEF mapEdgeTicket, StartPull, kitchenVars
  <2> QED
    BY <2>1, <2>4, <2>5
<1>8. /\ \A o \in Orders : fetched'.orders[o] = {mapEdgeOrder(o)}
      /\ \A t \in Tickets : fetched'.tickets[t] = {mapEdgeTicket(t)}
      /\ DOMAIN fetched'.orders = Orders /\ DOMAIN fetched'.tickets = Tickets
  BY <1>5
<1>9. /\ \A o \in Orders : mapEdgeOrder(o)' = mapEdgeOrder(o)
      /\ \A t \in Tickets : mapEdgeTicket(t)' = mapEdgeTicket(t)
  BY DEF mapEdgeOrder, mapEdgeTicket, Exists, StartPull, kitchenVars
<1>10. FetchInv'
  BY <1>6, <1>7, <1>8, <1>9 DEF FetchInv
<1> QED
  BY <1>2, <1>10

\* A row that is shown and pending is replaced by a row that is not older, and never dropped.
LEMMA MergeKeeps ==
  ASSUME QueueInv, ViewInv, FetchInv, PendingInv, MergePull
  PROVE  ViewInv' /\ FetchInv' /\ PendingInv'
<1>1. PICK orders \in Readings(fetched.orders), tickets \in Readings(fetched.tickets) :
        /\ shown' = [o \in Orders |-> MergedRow(shown[o], orders[o], o \in pendingOrderIDs)]
        /\ shownTickets' = [t \in Tickets |->
             MergedRow(shownTickets[t], tickets[t], t \in pendingTicketIDs)]
  BY DEF MergePull
<1>2. fetched # None /\ fetched' = None /\ UNCHANGED <<outbox, orderStatus, orderVersion, ticketOrder, ticketVersion>>
  BY DEF MergePull, kitchenVars
<1>3. FetchInv'
  BY <1>2 DEF FetchInv
<1>4. \A o \in Orders : orders[o] = None \/ FetchedOrder(o, orders[o])
  <2>1. DOMAIN fetched.orders = Orders /\ \A o \in Orders : fetched.orders[o] # {}
    BY <1>2 DEF FetchInv
  <2>2. \A o \in Orders : orders[o] = None \/ orders[o] \in fetched.orders[o]
    BY <2>1, ReadingFacts
  <2> QED
    BY <1>2, <2>2 DEF FetchInv
<1>5. \A t \in Tickets : tickets[t] = None \/ FetchedTicket(t, tickets[t])
  <2>1. DOMAIN fetched.tickets = Tickets /\ \A t \in Tickets : fetched.tickets[t] # {}
    BY <1>2 DEF FetchInv
  <2>2. \A t \in Tickets : tickets[t] = None \/ tickets[t] \in fetched.tickets[t]
    BY <2>1, ReadingFacts
  <2> QED
    BY <1>2, <2>2 DEF FetchInv
<1>6. \A o \in Orders : /\ shown'[o] \in {shown[o], orders[o], None}
                        /\ o \in pendingOrderIDs /\ shown[o] # None =>
                             \/ shown'[o] = shown[o]
                             \/ /\ shown'[o] = orders[o] /\ orders[o] # None
                                /\ ~(shown[o].origin = "local" /\ shown[o].version > orders[o].version)
  <2> TAKE o \in Orders
  <2>1. shown'[o] = MergedRow(shown[o], orders[o], o \in pendingOrderIDs)
    BY <1>1
  <2> QED
    BY <2>1 DEF MergedRow
<1>7. \A t \in Tickets : /\ shownTickets'[t] \in {shownTickets[t], tickets[t], None}
                         /\ t \in pendingTicketIDs /\ shownTickets[t] # None =>
                              \/ shownTickets'[t] = shownTickets[t]
                              \/ /\ shownTickets'[t] = tickets[t] /\ tickets[t] # None
                                 /\ ~(shownTickets[t].origin = "local" /\ shownTickets[t].version > tickets[t].version)
  <2> TAKE t \in Tickets
  <2>1. shownTickets'[t] = MergedRow(shownTickets[t], tickets[t], t \in pendingTicketIDs)
    BY <1>1
  <2> QED
    BY <2>1 DEF MergedRow
<1>8. ViewInv'
  <2>1. shown' \in [Orders -> KitchenOrder \cup {None}]
    <3>1. \A o \in Orders : shown'[o] \in KitchenOrder \cup {None}
      BY <1>4, <1>6 DEF ViewInv, FetchedOrder
    <3> QED
      BY <1>1, <3>1
  <2>2. shownTickets' \in [Tickets -> KitchenTicket \cup {None}]
    <3>1. \A t \in Tickets : shownTickets'[t] \in KitchenTicket \cup {None}
      BY <1>5, <1>7 DEF ViewInv, FetchedTicket
    <3> QED
      BY <1>1, <3>1
  <2>3. \A o \in Orders : shown'[o] # None /\ shown'[o].origin = "edge" =>
          Exists(o)' /\ shown'[o].version <= orderVersion'[o]
    BY <1>2, <1>4, <1>6 DEF ViewInv, FetchedOrder, Exists
  <2>4. \A t \in Tickets : shownTickets'[t] # None /\ shownTickets'[t].origin = "edge" =>
          ticketOrder'[t] # None /\ shownTickets'[t].version <= ticketVersion'[t]
    BY <1>2, <1>5, <1>7 DEF ViewInv, FetchedTicket
  <2>5. \A t \in Tickets : shownTickets'[t] # None /\ ticketOrder'[t] # None =>
          shownTickets'[t].order = ticketOrder'[t]
    BY <1>2, <1>5, <1>7 DEF ViewInv, FetchedTicket
  <2> QED
    BY <2>1, <2>2, <2>3, <2>4, <2>5 DEF ViewInv
<1>9. ASSUME NEW e \in listOutbox PROVE EventShown(e)'
  <2>1. EventShown(e) /\ e \in OutboxEvent /\ e.order \in pendingOrderIDs
    BY DEF PendingInv, QueueInv, listOutbox, pendingOrderIDs
  <2>2. \A r \in DOMAIN e.rows : e.rows[r] \in Nat
    BY <2>1 DEF OutboxEvent
  <2>3. ASSUME NEW o \in Orders, o \in DOMAIN e.rows PROVE OrderShown(e, o)'
    <3>1. o = e.order /\ shown[o] # None /\ shown[o].version >= e.rows[o] /\ e.rows[o] \in Nat
      BY <2>1, <2>2, <2>3 DEF EventShown, OrderShown
    <3>2. shown[o].version \in Nat /\ shown[o].origin \in {"local", "edge"}
      BY <3>1 DEF ViewInv, KitchenOrder
    <3>3. CASE shown'[o] = shown[o]
      BY <3>1, <3>3 DEF OrderShown
    <3>4. CASE /\ shown'[o] = orders[o] /\ orders[o] # None
               /\ ~(shown[o].origin = "local" /\ shown[o].version > orders[o].version)
      <4>1. orders[o].version \in Nat /\ (shown[o].origin = "edge" => shown[o].version <= orders[o].version)
        BY <1>4, <3>1, <3>4 DEF FetchedOrder, KitchenOrder
      <4> QED
        BY <3>1, <3>2, <3>4, <4>1 DEF OrderShown
    <3> QED
      BY <1>6, <2>1, <3>1, <3>3, <3>4
  <2>4. ASSUME NEW t \in Tickets, t \in DOMAIN e.rows PROVE TicketShown(e, t)'
    <3>1. shownTickets[t] # None /\ shownTickets[t].version >= e.rows[t] /\ shownTickets[t].order = e.order
          /\ e.rows[t] \in Nat
      BY <2>1, <2>2, <2>4 DEF EventShown, TicketShown
    <3>2. shownTickets[t].version \in Nat /\ shownTickets[t].origin \in {"local", "edge"}
      BY <3>1 DEF ViewInv, KitchenTicket
    <3>3. t \in pendingTicketIDs
      BY <2>1, <3>1 DEF pendingTicketIDs
    <3>4. CASE shownTickets'[t] = shownTickets[t]
      BY <3>1, <3>4 DEF TicketShown
    <3>5. CASE /\ shownTickets'[t] = tickets[t] /\ tickets[t] # None
               /\ ~(shownTickets[t].origin = "local" /\ shownTickets[t].version > tickets[t].version)
      <4>1. /\ tickets[t].version \in Nat
            /\ shownTickets[t].origin = "edge" => shownTickets[t].version <= tickets[t].version
            /\ ticketOrder[t] # None /\ tickets[t].order = ticketOrder[t]
        BY <1>5, <3>1, <3>5 DEF FetchedTicket, KitchenTicket
      <4>2. shownTickets[t].order = ticketOrder[t]
        BY <3>1, <4>1 DEF ViewInv
      <4> QED
        BY <3>1, <3>2, <3>5, <4>1, <4>2 DEF TicketShown
    <3> QED
      BY <1>7, <3>1, <3>3, <3>4, <3>5
  <2> QED
    BY <2>1, <2>3, <2>4 DEF EventShown
<1>10. listOutbox' = listOutbox
  BY <1>2 DEF listOutbox
<1> QED
  BY <1>3, <1>8, <1>9, <1>10 DEF PendingInv

\* Steps that leave the snapshot alone and add no event.
LEMMA PendingFrame ==
  ASSUME PendingInv, UNCHANGED <<shown, shownTickets>>, listOutbox' \subseteq listOutbox
  PROVE  PendingInv'
BY DEF PendingInv, EventShown, OrderShown, TicketShown

\* Steps of the browser that change neither snapshot nor edge.
LEMMA ViewFrame ==
  ASSUME ViewInv, FetchInv, UNCHANGED <<shown, shownTickets, orderStatus, orderVersion, ticketOrder, ticketVersion>>,
         fetched' = None \/ fetched' = fetched
  PROVE  ViewInv' /\ FetchInv'
<1>1. ViewInv'
  BY DEF ViewInv, Exists
<1>2. /\ \A o \in Orders : \A row : FetchedOrder(o, row) => FetchedOrder(o, row)'
      /\ \A t \in Tickets : \A row : FetchedTicket(t, row) => FetchedTicket(t, row)'
  BY DEF FetchedOrder, FetchedTicket, Exists
<1>3. FetchInv'
  BY <1>2 DEF FetchInv
<1> QED
  BY <1>1, <1>3
-----------------------------------------------------------------------------
(* Commands *)

\* What a command does to the snapshot: rows rise, new tickets are unknown to the edge.
Rises ==
  /\ shown' \in [Orders -> KitchenOrder \cup {None}]
  /\ shownTickets' \in [Tickets -> KitchenTicket \cup {None}]
  /\ \A o \in Orders :
       \/ shown'[o] = shown[o]
       \/ /\ shown'[o] # None /\ shown'[o].origin = "local"
          /\ shown[o] # None => shown'[o].version >= shown[o].version
  /\ \A t \in Tickets :
       \/ shownTickets'[t] = shownTickets[t]
       \/ /\ shownTickets'[t] # None /\ shownTickets'[t].origin = "local"
          /\ shownTickets[t] # None => /\ shownTickets'[t].version >= shownTickets[t].version
                                       /\ shownTickets'[t].order = shownTickets[t].order
          /\ shownTickets[t] = None => ticketOrder[t] = None

\* A command that raises rows and shows its own event keeps all that is pending shown.
LEMMA CommandKeeps ==
  ASSUME QueueInv, ViewInv, FetchInv, PendingInv, Rises, NEW ev, EventShown(ev)', Commit(ev)
  PROVE  ViewInv' /\ FetchInv' /\ PendingInv'
<1>1. /\ UNCHANGED <<orderStatus, orderVersion, ticketOrder, ticketVersion, fetched>>
      /\ outbox' = outbox \cup {ev}
  BY DEF Commit, kitchenVars
<1>2. ViewInv'
  <2>1. \A o \in Orders : shown'[o] # None /\ shown'[o].origin = "edge" =>
          Exists(o)' /\ shown'[o].version <= orderVersion'[o]
    BY <1>1 DEF ViewInv, Rises, Exists
  <2>2. \A t \in Tickets : shownTickets'[t] # None /\ shownTickets'[t].origin = "edge" =>
          ticketOrder'[t] # None /\ shownTickets'[t].version <= ticketVersion'[t]
    BY <1>1 DEF ViewInv, Rises
  <2>3. \A t \in Tickets : shownTickets'[t] # None /\ ticketOrder'[t] # None =>
          shownTickets'[t].order = ticketOrder'[t]
    BY <1>1 DEF ViewInv, Rises
  <2> QED
    BY <2>1, <2>2, <2>3 DEF ViewInv, Rises
<1>3. FetchInv'
  <2>1. \A o \in Orders : \A row : FetchedOrder(o, row) => FetchedOrder(o, row)'
    BY <1>1 DEF FetchedOrder, Exists, Rises
  <2>2. \A t \in Tickets : \A row : FetchedTicket(t, row) => FetchedTicket(t, row)'
    BY <1>1 DEF FetchedTicket, Rises
  <2> QED
    BY <1>1, <2>1, <2>2 DEF FetchInv
<1>4. ASSUME NEW e \in listOutbox PROVE EventShown(e)'
  <2>1. EventShown(e) /\ e \in OutboxEvent
    BY DEF PendingInv, QueueInv, listOutbox
  <2>2. \A r \in DOMAIN e.rows : e.rows[r] \in Nat
    BY <2>1 DEF OutboxEvent
  <2>3. ASSUME NEW o \in Orders, o \in DOMAIN e.rows PROVE OrderShown(e, o)'
    <3>1. o = e.order /\ shown[o] # None /\ shown[o].version >= e.rows[o] /\ e.rows[o] \in Nat
      BY <2>1, <2>2, <2>3 DEF EventShown, OrderShown
    <3>2. shown[o].version \in Nat
      BY <3>1 DEF ViewInv, KitchenOrder
    <3>3. shown'[o] # None /\ shown'[o].version \in Nat /\ shown'[o].version >= shown[o].version
      BY <3>1, <3>2 DEF Rises, KitchenOrder
    <3> QED
      BY <3>1, <3>2, <3>3 DEF OrderShown
  <2>4. ASSUME NEW t \in Tickets, t \in DOMAIN e.rows PROVE TicketShown(e, t)'
    <3>1. shownTickets[t] # None /\ shownTickets[t].version >= e.rows[t] /\ shownTickets[t].order = e.order
          /\ e.rows[t] \in Nat
      BY <2>1, <2>2, <2>4 DEF EventShown, TicketShown
    <3>2. shownTickets[t].version \in Nat
      BY <3>1 DEF ViewInv, KitchenTicket
    <3>3. /\ shownTickets'[t] # None /\ shownTickets'[t].version \in Nat
          /\ shownTickets'[t].version >= shownTickets[t].version
          /\ shownTickets'[t].order = shownTickets[t].order
      BY <3>1, <3>2 DEF Rises, KitchenTicket
    <3> QED
      BY <3>1, <3>2, <3>3 DEF TicketShown
  <2> QED
    BY <2>1, <2>3, <2>4 DEF EventShown
<1>5. \A e \in listOutbox' : e \in listOutbox \/ e = ev
  BY <1>1 DEF listOutbox
<1> QED
  BY <1>2, <1>3, <1>4, <1>5 DEF PendingInv

\* A row that moves on rises by one version and is local.
LEMMA MovedFacts ==
  ASSUME NEW s \in TicketStatus
  PROVE  /\ \A row \in KitchenOrder : /\ Moved(row, s) \in KitchenOrder /\ Moved(row, s).origin = "local"
                                      /\ Moved(row, s).version = row.version + 1
         /\ \A row \in KitchenTicket : /\ Moved(row, s) \in KitchenTicket /\ Moved(row, s).origin = "local"
                                       /\ Moved(row, s).version = row.version + 1
                                       /\ Moved(row, s).order = row.order
<1>1. ASSUME NEW row \in KitchenOrder
      PROVE  /\ Moved(row, s) \in KitchenOrder /\ Moved(row, s).origin = "local"
             /\ Moved(row, s).version = row.version + 1
  <2>1. PICK a : a = [row EXCEPT !.status = s]
    OBVIOUS
  <2>2. a \in KitchenOrder /\ a.version = row.version
    BY <2>1 DEF KitchenOrder
  <2>3. PICK b : b = [a EXCEPT !.version = @ + 1]
    OBVIOUS
  <2>4. b \in KitchenOrder /\ b.version = row.version + 1
    BY <2>2, <2>3 DEF KitchenOrder
  <2>5. Moved(row, s) = [b EXCEPT !.origin = "local"]
    BY <2>1, <2>3 DEF Moved
  <2> QED
    BY <2>4, <2>5 DEF KitchenOrder
<1>2. ASSUME NEW row \in KitchenTicket
      PROVE  /\ Moved(row, s) \in KitchenTicket /\ Moved(row, s).origin = "local"
             /\ Moved(row, s).version = row.version + 1 /\ Moved(row, s).order = row.order
  <2>1. PICK a : a = [row EXCEPT !.status = s]
    OBVIOUS
  <2>2. a \in KitchenTicket /\ a.version = row.version /\ a.order = row.order
    BY <2>1 DEF KitchenTicket
  <2>3. PICK b : b = [a EXCEPT !.version = @ + 1]
    OBVIOUS
  <2>4. b \in KitchenTicket /\ b.version = row.version + 1 /\ b.order = row.order
    BY <2>2, <2>3 DEF KitchenTicket
  <2>5. Moved(row, s) = [b EXCEPT !.origin = "local"]
    BY <2>1, <2>3 DEF Moved
  <2> QED
    BY <2>4, <2>5 DEF KitchenTicket
<1> QED
  BY <1>1, <1>2

\* The next step of a status is a status.
LEMMA NextStatus == \A s \in DOMAIN transitionMap : transitionMap[s] \in TicketStatus
BY DEF transitionMap, TicketStatus

\* A command gives one new event, whose rows are shown as it left them.
Gives(ev) ==
  /\ ev \in OutboxEvent /\ ev.id = issued + 1 /\ ev.disposition = "pending"
  /\ Commit(ev) /\ Rises /\ EventShown(ev)'

\* A new order is shown with its tickets, none of which the edge has.
LEMMA SubmitGives ==
  ASSUME QueueInv, ViewInv, NEW o \in Orders, NEW T \in SUBSET Tickets,
         NEW ref \in Refs \cup {None}, submitOrder(o, T, ref)
  PROVE  \E ev : Gives(ev)
<1>1. PICK ev : ev = Event("create", o, None, "queued", 0, T, ref, [r \in {o} \cup T |-> 1])
  OBVIOUS
<1>2. /\ Commit(ev) /\ shown[o] = None
      /\ \A t \in T : ticketOrder[t] = None /\ shownTickets[t] = None
      /\ shown' = [shown EXCEPT ![o] = [status |-> "queued", version |-> 1, origin |-> "local", ref |-> ref]]
      /\ shownTickets' = [t \in Tickets |->
           IF t \in T THEN [status |-> "queued", version |-> 1, origin |-> "local", order |-> o]
                      ELSE shownTickets[t]]
  BY <1>1 DEF submitOrder
<1>3. PICK rows : rows = [r \in {o} \cup T |-> 1]
  OBVIOUS
<1>4. rows \in [{o} \cup T -> Nat] /\ {o} \cup T \in SUBSET (Orders \cup Tickets)
  BY <1>3
<1>5. "queued" \in TicketStatus
  BY DEF TicketStatus
<1>6. /\ ev \in OutboxEvent /\ ev.id = issued + 1 /\ ev.disposition = "pending"
      /\ ev.kind = "create" /\ ev.order = o /\ ev.tickets = T /\ ev.rows = rows
  <2>0. [{o} \cup T -> Nat] \in {[D -> Nat] : D \in SUBSET (Orders \cup Tickets)}
    BY <1>4
  <2>1. rows \in UNION {[D -> Nat] : D \in SUBSET (Orders \cup Tickets)}
    BY <1>4, <2>0
  <2>2. issued + 1 \in Nat
    BY DEF QueueInv
  <2> QED
    BY <1>1, <1>3, <1>5, <2>1, <2>2 DEF Event, OutboxEvent
<1>7. PICK row : row = [status |-> "queued", version |-> 1, origin |-> "local", ref |-> ref]
  OBVIOUS
<1>8. row \in KitchenOrder /\ row.version = 1 /\ row.origin = "local" /\ row # None
  BY <1>5, <1>7, BrowserAssumption DEF KitchenOrder
<1>9. PICK line : line = [status |-> "queued", version |-> 1, origin |-> "local", order |-> o]
  OBVIOUS
<1>10. line \in KitchenTicket /\ line.version = 1 /\ line.origin = "local" /\ line.order = o /\ line # None
  BY <1>5, <1>9, BrowserAssumption DEF KitchenTicket
<1>11. /\ shown' \in [Orders -> KitchenOrder \cup {None}] /\ shown'[o] = row
       /\ \A p \in Orders : p # o => shown'[p] = shown[p]
  BY <1>2, <1>7, <1>8 DEF ViewInv
<1>12. /\ shownTickets' \in [Tickets -> KitchenTicket \cup {None}]
       /\ \A t \in T : shownTickets'[t] = line
       /\ \A t \in Tickets \ T : shownTickets'[t] = shownTickets[t]
  BY <1>2, <1>9, <1>10 DEF ViewInv
<1>13. Rises
  BY <1>2, <1>8, <1>10, <1>11, <1>12 DEF Rises
<1>14. EventShown(ev)'
  <2>1. \A p \in Orders : p \in DOMAIN ev.rows => OrderShown(ev, p)'
    <3>1. \A p \in Orders : p \in {o} \cup T => p = o
      BY BrowserAssumption
    <3> QED
      BY <1>3, <1>6, <1>8, <1>11, <3>1 DEF OrderShown
  <2>2. \A t \in Tickets : t \in DOMAIN ev.rows => TicketShown(ev, t)'
    <3>1. \A t \in Tickets : t \in {o} \cup T => t \in T
      BY BrowserAssumption
    <3> QED
      BY <1>3, <1>6, <1>10, <1>12, <3>1 DEF TicketShown
  <2>3. T \subseteq DOMAIN ev.rows
    BY <1>3, <1>6
  <2> QED
    BY <1>6, <2>1, <2>2, <2>3 DEF EventShown
<1> QED
  BY <1>2, <1>6, <1>13, <1>14 DEF Gives

\* Moving an order moves its tickets that are not there yet.
LEMMA MoveOrderGives ==
  ASSUME QueueInv, ViewInv, NEW o \in Orders, moveOrderForward(o)
  PROVE  \E ev : Gives(ev)
<1> DEFINE moved(n) == {t \in ShownTicketsOf(o) : shownTickets[t].status # n}
           given(n) == [r \in {o} \cup moved(n) |-> IF r = o THEN shown'[r].version ELSE shownTickets'[r].version]
<1>1. PICK next : next = transitionMap[shown[o].status]
  OBVIOUS
<1>2. shown[o] # None /\ shown[o].status \in DOMAIN transitionMap
  BY DEF moveOrderForward, canAdvanceOrder
<1>3. next \in TicketStatus
  BY <1>1, <1>2, NextStatus
<1>4. PICK M : M = moved(next)
  OBVIOUS
<1>5. \A t \in M : t \in Tickets /\ shownTickets[t] # None /\ shownTickets[t].order = o
  BY <1>4 DEF ShownTicketsOf
<1>6. PICK rows : rows = given(next)
  OBVIOUS
<1>7. PICK ev : ev = Event("order", o, None, next, shown[o].version, {}, None, rows)
  OBVIOUS
<1>8. /\ Commit(ev)
      /\ shown' = [shown EXCEPT ![o] = Moved(@, next)]
      /\ shownTickets' = [t \in Tickets |-> IF t \in M THEN Moved(shownTickets[t], next) ELSE shownTickets[t]]
  BY <1>1, <1>4, <1>6, <1>7 DEF moveOrderForward
<1>9. shown[o] \in KitchenOrder /\ shown[o].version \in Nat
  BY <1>2 DEF ViewInv, KitchenOrder
<1>10. PICK row : row = Moved(shown[o], next)
  OBVIOUS
<1>11. row \in KitchenOrder /\ row.version = shown[o].version + 1 /\ row.origin = "local" /\ row # None
  BY <1>3, <1>9, <1>10, MovedFacts, BrowserAssumption
<1>12. /\ shown' \in [Orders -> KitchenOrder \cup {None}] /\ shown'[o] = row
       /\ \A p \in Orders : p # o => shown'[p] = shown[p]
  BY <1>8, <1>10, <1>11 DEF ViewInv
<1>13. ASSUME NEW t \in M
       PROVE  /\ Moved(shownTickets[t], next) \in KitchenTicket /\ Moved(shownTickets[t], next).origin = "local"
              /\ Moved(shownTickets[t], next) # None
              /\ shownTickets[t].version \in Nat
              /\ Moved(shownTickets[t], next).version = shownTickets[t].version + 1
              /\ Moved(shownTickets[t], next).order = o
  <2>1. shownTickets[t] \in KitchenTicket
    BY <1>5 DEF ViewInv
  <2>2. shownTickets[t].version \in Nat
    BY <2>1 DEF KitchenTicket
  <2> QED
    BY <1>3, <1>5, <2>1, <2>2, MovedFacts, BrowserAssumption
<1>14. /\ \A t \in M : shownTickets'[t] = Moved(shownTickets[t], next)
       /\ \A t \in Tickets : t \notin M => shownTickets'[t] = shownTickets[t]
  BY <1>5, <1>8
<1>15. shownTickets' \in [Tickets -> KitchenTicket \cup {None}]
  BY <1>8, <1>13 DEF ViewInv
<1>16. Rises
  BY <1>5, <1>9, <1>11, <1>12, <1>13, <1>14, <1>15 DEF Rises
<1>17. /\ DOMAIN rows = {o} \cup M /\ rows[o] = row.version
       /\ \A t \in M : rows[t] = shownTickets'[t].version
  <2>1. o \notin M
    BY <1>5, BrowserAssumption
  <2> QED
    BY <1>4, <1>6, <1>12, <2>1
<1>18. rows \in [{o} \cup M -> Nat] /\ {o} \cup M \in SUBSET (Orders \cup Tickets)
  <2>1. \A r \in {o} \cup M : rows[r] \in Nat
    BY <1>9, <1>11, <1>13, <1>14, <1>17
  <2>2. rows = [r \in {o} \cup M |-> rows[r]]
    BY <1>4, <1>6, <1>17
  <2> QED
    BY <1>5, <2>1, <2>2
<1>19. /\ ev \in OutboxEvent /\ ev.id = issued + 1 /\ ev.disposition = "pending"
       /\ ev.kind = "order" /\ ev.order = o /\ ev.rows = rows
  <2>0. [{o} \cup M -> Nat] \in {[D -> Nat] : D \in SUBSET (Orders \cup Tickets)}
    BY <1>18
  <2>1. rows \in UNION {[D -> Nat] : D \in SUBSET (Orders \cup Tickets)}
    BY <1>18, <2>0
  <2>2. issued + 1 \in Nat
    BY DEF QueueInv
  <2> QED
    BY <1>3, <1>7, <1>9, <2>1, <2>2 DEF Event, OutboxEvent
<1>20. EventShown(ev)'
  <2>1. \A p \in Orders : p \in DOMAIN ev.rows => OrderShown(ev, p)'
    <3>1. \A p \in Orders : p \in {o} \cup M => p = o
      BY <1>5, BrowserAssumption
    <3>2. shown'[o].version >= rows[o]
      BY <1>9, <1>11, <1>12, <1>17
    <3> QED
      BY <1>11, <1>12, <1>17, <1>19, <3>1, <3>2 DEF OrderShown
  <2>2. \A t \in Tickets : t \in DOMAIN ev.rows => TicketShown(ev, t)'
    <3>1. \A t \in Tickets : t \in {o} \cup M => t \in M
      BY BrowserAssumption
    <3> QED
      BY <1>13, <1>14, <1>17, <1>19, <3>1 DEF TicketShown
  <2> QED
    BY <1>19, <2>1, <2>2 DEF EventShown
<1> QED
  BY <1>8, <1>16, <1>19, <1>20 DEF Gives

\* Moving a ticket moves its order when the derived status differs.
LEMMA MoveTicketGives ==
  ASSUME QueueInv, ViewInv, NEW t \in Tickets, moveTicketForward(t)
  PROVE  \E ev : Gives(ev)
<1>1. PICK next : next = transitionMap[shownTickets[t].status]
  OBVIOUS
<1>2. PICK o : o = shownTickets[t].order
  OBVIOUS
<1>3. shownTickets[t] # None /\ shown[o] # None /\ shownTickets[t].status \in DOMAIN transitionMap
  BY <1>2 DEF moveTicketForward
<1>4. next \in TicketStatus
  BY <1>1, <1>3, NextStatus
<1>5. shownTickets[t] \in KitchenTicket /\ o \in Orders /\ shownTickets[t].version \in Nat
  BY <1>2, <1>3 DEF ViewInv, KitchenTicket
<1>6. shown[o] \in KitchenOrder /\ shown[o].version \in Nat
  BY <1>3, <1>5 DEF ViewInv, KitchenOrder
<1>7. PICK derived : derived = derivedStatus({shownTickets'[u].status : u \in ShownTicketsOf(o)})
  OBVIOUS
<1>8. derived \in TicketStatus
  BY <1>7 DEF derivedStatus, statusMap, deriveOrderStatus, TicketStatus
<1>9. PICK D : D = {t} \cup (IF derived = shown[o].status THEN {} ELSE {o})
  OBVIOUS
<1>10. PICK rows : rows = [r \in D |-> IF r = t THEN shownTickets'[r].version ELSE shown'[r].version]
  OBVIOUS
<1>11. PICK ev : ev = Event("ticket", o, t, next, shownTickets[t].version, {}, None, rows)
  OBVIOUS
<1>12. /\ Commit(ev)
       /\ shownTickets' = [shownTickets EXCEPT ![t] = Moved(@, next)]
       /\ shown' = IF derived = shown[o].status THEN shown ELSE [shown EXCEPT ![o] = Moved(@, derived)]
  BY <1>1, <1>2, <1>7, <1>9, <1>10, <1>11 DEF moveTicketForward
<1>13. PICK line : line = Moved(shownTickets[t], next)
  OBVIOUS
<1>14. /\ line \in KitchenTicket /\ line.version = shownTickets[t].version + 1 /\ line.origin = "local"
       /\ line # None /\ line.order = o
  BY <1>2, <1>4, <1>5, <1>13, MovedFacts, BrowserAssumption
<1>15. PICK row : row = Moved(shown[o], derived)
  OBVIOUS
<1>16. row \in KitchenOrder /\ row.version = shown[o].version + 1 /\ row.origin = "local" /\ row # None
  BY <1>6, <1>8, <1>15, MovedFacts, BrowserAssumption
<1>17. /\ shownTickets' \in [Tickets -> KitchenTicket \cup {None}] /\ shownTickets'[t] = line
       /\ \A u \in Tickets : u # t => shownTickets'[u] = shownTickets[u]
  BY <1>12, <1>13, <1>14 DEF ViewInv
<1>18. /\ shown' \in [Orders -> KitchenOrder \cup {None}]
       /\ shown'[o] = shown[o] \/ shown'[o] = row
       /\ \A p \in Orders : p # o => shown'[p] = shown[p]
  BY <1>5, <1>12, <1>15, <1>16 DEF ViewInv
<1>19. Rises
  BY <1>2, <1>3, <1>5, <1>6, <1>14, <1>16, <1>17, <1>18 DEF Rises
<1>20. shown'[o] # None /\ shown'[o].version \in Nat /\ line.version \in Nat /\ o # t
  BY <1>3, <1>5, <1>6, <1>14, <1>16, <1>18, BrowserAssumption
<1>21. /\ DOMAIN rows = D /\ D \subseteq {o, t} /\ t \in D /\ rows[t] = line.version
       /\ o \in D => rows[o] = shown'[o].version
  BY <1>9, <1>10, <1>17, <1>20
<1>22. rows \in [D -> Nat] /\ D \in SUBSET (Orders \cup Tickets)
  <2>1. \A r \in D : rows[r] \in Nat
    BY <1>20, <1>21
  <2>2. rows = [r \in D |-> rows[r]]
    BY <1>10, <1>21
  <2> QED
    BY <1>5, <1>21, <2>1, <2>2
<1>23. /\ ev \in OutboxEvent /\ ev.id = issued + 1 /\ ev.disposition = "pending"
       /\ ev.kind = "ticket" /\ ev.order = o /\ ev.ticket = t /\ ev.rows = rows
  <2>1. [D -> Nat] \in {[E -> Nat] : E \in SUBSET (Orders \cup Tickets)}
    BY <1>22
  <2>2. rows \in UNION {[E -> Nat] : E \in SUBSET (Orders \cup Tickets)}
    BY <1>22, <2>1
  <2>3. issued + 1 \in Nat
    BY DEF QueueInv
  <2> QED
    BY <1>4, <1>5, <1>11, <2>2, <2>3 DEF Event, OutboxEvent
<1>24. EventShown(ev)'
  <2>1. \A p \in Orders : p \in DOMAIN ev.rows => OrderShown(ev, p)'
    <3>1. \A p \in Orders : p \in D => p = o
      BY <1>21, BrowserAssumption
    <3> QED
      BY <1>20, <1>21, <1>23, <3>1 DEF OrderShown
  <2>2. \A u \in Tickets : u \in DOMAIN ev.rows => TicketShown(ev, u)'
    <3>1. \A u \in Tickets : u \in D => u = t
      BY <1>5, <1>21, BrowserAssumption
    <3> QED
      BY <1>14, <1>17, <1>20, <1>21, <1>23, <3>1 DEF TicketShown
  <2> QED
    BY <1>23, <2>1, <2>2 DEF EventShown
<1> QED
  BY <1>12, <1>19, <1>23, <1>24 DEF Gives
-----------------------------------------------------------------------------
(* Theorems *)

BrowserInv == KitchenInv /\ QueueInv /\ DrainInv /\ ViewInv /\ FetchInv /\ PendingInv

\* A command of this browser.
LEMMA GivenKeeps ==
  ASSUME BrowserInv, NEW ev, Gives(ev)
  PROVE  BrowserInv'
<1>1. KitchenInv'
  <2>1. UNCHANGED kitchenVars
    BY DEF Gives, Commit
  <2> QED
    BY <2>1, StutterStep DEF BrowserInv
<1>2. QueueInv' /\ DrainInv'
  BY CommitKeepsQueue DEF BrowserInv, Gives
<1>3. ViewInv' /\ FetchInv' /\ PendingInv'
  BY CommandKeeps DEF BrowserInv, Gives
<1> QED
  BY <1>1, <1>2, <1>3 DEF BrowserInv

\* Steps of drain and pull that leave edge and snapshot alone.
LEMMA LocalKeeps ==
  ASSUME BrowserInv, UNCHANGED <<kitchenVars, shown, shownTickets>>,
         QueueInv' /\ DrainInv', listOutbox' \subseteq listOutbox,
         fetched' = None \/ fetched' = fetched
  PROVE  BrowserInv'
<1>1. KitchenInv'
  BY StutterStep DEF BrowserInv
<1>2. ViewInv' /\ FetchInv'
  BY ViewFrame DEF BrowserInv, kitchenVars
<1>3. PendingInv'
  BY PendingFrame DEF BrowserInv
<1> QED
  BY <1>1, <1>2, <1>3 DEF BrowserInv

\* The command of a pending event creates no ticket but the ones shown at its order.
LEMMA EventCommand ==
  ASSUME BrowserInv, NEW e \in batch, Command(e)
  PROVE  /\ KitchenInv' /\ AllAdvance
         /\ \A t \in Tickets : ticketOrder[t] = None /\ ticketOrder'[t] # None /\ shownTickets[t] # None =>
              shownTickets[t].order = ticketOrder'[t]
<1>1. e \in OutboxEvent /\ EventShown(e)
  BY DEF BrowserInv, DrainInv, QueueInv, PendingInv, listOutbox
<1>2. /\ e.order \in Orders /\ e.tickets \in SUBSET Tickets /\ e.ref \in Refs \cup {None}
      /\ e.to \in TicketStatus /\ e.ticket \in Tickets \cup {None}
  BY <1>1 DEF OutboxEvent
<1>3. KitchenInv
  BY DEF BrowserInv
<1>4. CASE e.kind = "create" /\ CreateOrder(e.order, e.tickets, None)
  <2>1. KitchenInv' /\ AllAdvance
    BY <1>2, <1>3, <1>4, CreateOrderInv, CreateOrderAdvances
  <2>2. \A t \in Tickets : ticketOrder'[t] = IF t \in e.tickets THEN e.order ELSE ticketOrder[t]
    BY <1>4 DEF CreateOrder
  <2>3. \A t \in e.tickets : shownTickets[t].order = e.order
    BY <1>1, <1>2, <1>4 DEF EventShown, TicketShown
  <2> QED
    BY <2>1, <2>2, <2>3
<1>5. CASE e.kind = "order" /\ TransitionOrderTickets(e.order, e.to, e.expectedVersion)
  <2>1. KitchenInv' /\ AllAdvance
    BY <1>2, <1>3, <1>5, TransitionOrderTicketsStep
  <2>2. ticketOrder' = ticketOrder
    BY <1>5 DEF TransitionOrderTickets, updateTickets
  <2> QED
    BY <2>1, <2>2
<1>6. CASE e.kind = "ticket" /\ TransitionTicket(e.ticket, e.to, e.expectedVersion, e.order)
  <2>1. e.ticket \in Tickets
    BY <1>1, <1>6 DEF EventShown
  <2>2. KitchenInv' /\ AllAdvance
    BY <1>2, <1>3, <1>6, <2>1, TransitionTicketStep
  <2>3. ticketOrder' = ticketOrder
    BY <1>6 DEF TransitionTicket, updateTickets
  <2> QED
    BY <2>2, <2>3
<1> QED
  BY <1>4, <1>5, <1>6 DEF Command

\* The edge moves, by an event of this browser or by another device.
LEMMA EdgeKeeps ==
  ASSUME BrowserInv, KitchenInv', AllAdvance, UNCHANGED <<shown, shownTickets, outbox>>, fetched' = Observed,
         \A t \in Tickets : ticketOrder[t] = None /\ ticketOrder'[t] # None /\ shownTickets[t] # None =>
           shownTickets[t].order = ticketOrder'[t],
         QueueInv' /\ DrainInv'
  PROVE  BrowserInv'
<1>1. ViewInv' /\ FetchInv'
  BY EdgeKeepsViews DEF BrowserInv
<1>2. listOutbox' = listOutbox
  BY DEF listOutbox
<1>3. PendingInv'
  BY <1>2, PendingFrame DEF BrowserInv
<1> QED
  BY <1>1, <1>3 DEF BrowserInv

\* A transmission: a change, a replay or a refusal at the edge.
LEMMA TransmitKeeps ==
  ASSUME BrowserInv, NEW e \in batch, Transmit(e)
  PROVE  BrowserInv'
<1>1. QueueInv' /\ DrainInv'
  BY TransmitKeepsQueue DEF BrowserInv
<1>2. UNCHANGED <<shown, shownTickets, outbox>> /\ fetched' = Observed
  BY DEF Transmit, deviceVars
<1>3. Command(e) \/ UNCHANGED kitchenVars
  BY DEF Transmit
<1>4. CASE Command(e)
  BY <1>1, <1>2, <1>4, EventCommand, EdgeKeeps
<1>5. CASE UNCHANGED kitchenVars
  <2>1. KitchenInv' /\ AllAdvance /\ ticketOrder' = ticketOrder
    <3>1. KitchenInv'
      BY <1>5, StutterStep DEF BrowserInv
    <3>2. AllAdvance
      BY <1>5 DEF AllAdvance, OrderAdvances, TicketAdvances, kitchenVars
    <3> QED
      BY <1>5, <3>1, <3>2 DEF kitchenVars
  <2> QED
    BY <1>1, <1>2, <2>1, EdgeKeeps
<1> QED
  BY <1>3, <1>4, <1>5

\* Another device creates none of the tickets that are shown here.
LEMMA OtherDeviceKeeps ==
  ASSUME BrowserInv, OtherDevice
  PROVE  BrowserInv'
<1>1. KitchenInv' /\ AllAdvance
  BY NextStep DEF OtherDevice, BrowserInv
<1>2. /\ UNCHANGED <<shown, shownTickets, outbox, issued, batch, answer, recorded>> /\ fetched' = Observed
      /\ \A t \in Tickets : ticketOrder[t] = None /\ shownTickets[t] # None => ticketOrder'[t] = None
  BY DEF OtherDevice, deviceVars, drainVars
<1>3. QueueInv' /\ DrainInv'
  BY <1>2, QueueFrame DEF BrowserInv
<1> QED
  BY <1>1, <1>2, <1>3, EdgeKeeps

\* Every step of browser and edge.
LEMMA BrowserStep ==
  ASSUME BrowserInv, BrowserNext
  PROVE  BrowserInv'
<1>1. CASE \E o \in Orders, T \in SUBSET Tickets, ref \in Refs \cup {None} : submitOrder(o, T, ref)
  BY <1>1, SubmitGives, GivenKeeps DEF BrowserInv
<1>2. CASE \E o \in Orders : moveOrderForward(o)
  BY <1>2, MoveOrderGives, GivenKeeps DEF BrowserInv
<1>3. CASE \E t \in Tickets : moveTicketForward(t)
  BY <1>3, MoveTicketGives, GivenKeeps DEF BrowserInv
<1>4. CASE StartDrain \/ TransientFailure \/ Reload
  <2>1. /\ UNCHANGED <<kitchenVars, shown, shownTickets, outbox, issued, recorded>>
        /\ fetched' = None \/ fetched' = fetched
        /\ \/ batch = {} /\ batch' = listOutbox /\ answer' = answer
           \/ batch' = {} /\ answer' = None
    BY <1>4 DEF StartDrain, TransientFailure, Reload, deviceVars
  <2>2. QueueInv' /\ DrainInv' /\ listOutbox' = listOutbox
    BY <2>1, DrainKeepsQueue DEF BrowserInv, listOutbox
  <2> QED
    BY <2>1, <2>2, LocalKeeps
<1>5. CASE \E e \in batch : Transmit(e)
  BY <1>5, TransmitKeeps
<1>6. CASE \E e \in batch : Answered(e)
  <2>1. PICK e \in batch : Answered(e)
    BY <1>6
  <2>2. QueueInv' /\ DrainInv' /\ listOutbox' \subseteq listOutbox
    BY <2>1, AnswerKeepsQueue DEF BrowserInv
  <2>3. UNCHANGED <<kitchenVars, shown, shownTickets, fetched>>
    BY <2>1 DEF Answered
  <2> QED
    BY <2>2, <2>3, LocalKeeps
<1>7. CASE StartPull
  <2>1. UNCHANGED <<kitchenVars, shown, shownTickets, outbox, issued, batch, answer, recorded>>
    BY <1>7 DEF StartPull, deviceVars, drainVars
  <2>2. KitchenInv' /\ QueueInv' /\ DrainInv' /\ listOutbox' = listOutbox
    BY <2>1, StutterStep, QueueFrame DEF BrowserInv, listOutbox
  <2>3. ViewInv' /\ FetchInv'
    BY <1>7, StartPullKeeps DEF BrowserInv
  <2>4. PendingInv'
    BY <2>1, <2>2, PendingFrame DEF BrowserInv
  <2> QED
    BY <2>2, <2>3, <2>4 DEF BrowserInv
<1>8. CASE PullFails
  <2>1. UNCHANGED <<kitchenVars, shown, shownTickets, outbox, issued, batch, answer, recorded>> /\ fetched' = None
    BY <1>8 DEF PullFails, deviceVars, drainVars
  <2>2. QueueInv' /\ DrainInv' /\ listOutbox' = listOutbox
    BY <2>1, QueueFrame DEF BrowserInv, listOutbox
  <2> QED
    BY <2>1, <2>2, LocalKeeps
<1>9. CASE MergePull
  <2>1. UNCHANGED <<kitchenVars, outbox, issued, batch, answer, recorded>>
    BY <1>9 DEF MergePull, drainVars
  <2>2. KitchenInv' /\ QueueInv' /\ DrainInv'
    BY <2>1, StutterStep, QueueFrame DEF BrowserInv
  <2> QED
    BY <1>9, <2>2, MergeKeeps DEF BrowserInv
<1> QED
  BY <1>1, <1>2, <1>3, <1>4, <1>5, <1>6, <1>7, <1>8, <1>9, OtherDeviceKeeps DEF BrowserNext

\* The invariant of browser and edge: queue, drain, snapshot, pull and what is pending, under
\* lost answers, reloads, overlapping pulls and other devices.
THEOREM BrowserInvariant == BrowserSpec => []BrowserInv
<1>1. KitchenInit /\ BrowserInit => BrowserInv
  <2> SUFFICES ASSUME KitchenInit, BrowserInit PROVE BrowserInv
    OBVIOUS
  <2>1. KitchenInv
    BY InitInv
  <2>2. listOutbox = {}
    BY DEF BrowserInit, listOutbox
  <2>3. QueueInv
    BY <2>2 DEF BrowserInit, QueueInv
  <2>4. DrainInv /\ PendingInv
    BY <2>2, BrowserAssumption DEF BrowserInit, DrainInv, PendingInv
  <2>5. ViewInv /\ FetchInv
    BY DEF BrowserInit, ViewInv, FetchInv
  <2> QED
    BY <2>1, <2>3, <2>4, <2>5 DEF BrowserInv
<1>2. BrowserInv /\ [BrowserNext]_<<kitchenVars, browserVars>> => BrowserInv'
  <2> SUFFICES ASSUME BrowserInv, UNCHANGED <<kitchenVars, browserVars>> PROVE BrowserInv'
    BY BrowserStep
  <2>1. UNCHANGED <<kitchenVars, shown, shownTickets, outbox, issued, batch, answer, recorded, fetched>>
    BY DEF browserVars
  <2>2. QueueInv' /\ DrainInv' /\ listOutbox' = listOutbox
    BY <2>1, QueueFrame DEF BrowserInv, listOutbox
  <2> QED
    BY <2>1, <2>2, LocalKeeps
<1> QED
  BY <1>1, <1>2, PTL DEF BrowserSpec

\* The edge takes a browser's commands once and in the order they were given, and none is
\* dropped, whatever is lost, repeated or reloaded (drainPendingOutbox).
THEOREM CommandsAreInOrder == BrowserSpec => []CommandsInOrder
<1>1. BrowserInv => CommandsInOrder
  <2> SUFFICES ASSUME QueueInv PROVE CommandsInOrder
    BY DEF BrowserInv
  <2> DEFINE taken == {recorded[i] : i \in DOMAIN recorded}
  <2>1. \A e \in listOutbox : e.id \notin taken => \A n \in taken : n < e.id
    BY DEF QueueInv, Known
  <2>2. 1..issued = taken \cup {e.id : e \in outbox}
    <3>1. 1..issued \subseteq taken \cup {e.id : e \in outbox}
      BY DEF QueueInv
    <3>2. taken \cup {e.id : e \in outbox} \subseteq 1..issued
      BY DEF QueueInv
    <3> QED
      BY <3>1, <3>2
  <2>3. \A i, j \in DOMAIN recorded : i < j => recorded[i] < recorded[j]
    BY DEF QueueInv
  <2> QED
    BY <2>1, <2>2, <2>3 DEF CommandsInOrder
<1> QED
  BY <1>1, BrowserInvariant, PTL

\* Every row a pending command changed is shown at the version it gave or a later one: no pull
\* overwrites it, however its reading overlaps drain, commands and other devices.
THEOREM PendingIsShown == BrowserSpec => []PendingShown
<1>1. BrowserInv => PendingShown
  <2> SUFFICES ASSUME BrowserInv, NEW e \in listOutbox, NEW r \in DOMAIN e.rows
               PROVE  LET row == IF r \in Orders THEN shown[r] ELSE shownTickets[r] IN
                      row # None /\ row.version >= e.rows[r]
    BY DEF PendingShown
  <2>1. EventShown(e) /\ e \in OutboxEvent
    BY DEF BrowserInv, PendingInv, QueueInv, listOutbox
  <2>2. r \in Orders \cup Tickets
    BY <2>1 DEF OutboxEvent
  <2> QED
    BY <2>1, <2>2 DEF EventShown, OrderShown, TicketShown
<1> QED
  BY <1>1, BrowserInvariant, PTL
=============================================================================
