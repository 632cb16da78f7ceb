---------------------------- MODULE KitchenProofs ---------------------------
(***************************************************************************)
(* Proofs about Kitchen, for any sets of orders, tickets and references.   *)
(*                                                                         *)
(* TerminalTogether, StatusBacked and ProjectionCurrent are not inductive  *)
(* one by one: that an order command leaves the order row level with its   *)
(* tickets needs that it was level before, and that the last ticket to     *)
(* finish finishes the order needs that the order was still open.  Backed  *)
(* states the three for one order row and the set of its tickets'          *)
(* statuses; RulesLemmas show what the two status functions do to it.      *)
(***************************************************************************)
EXTENDS Kitchen, FiniteSetTheorems, TLAPS

Backed(s, S) ==
  /\ s \in Terminal <=> S \subseteq Terminal
  /\ s = "ready" => S \subseteq {"ready"} \cup Terminal
  /\ s = "completed" => "completed" \in S
  /\ s # "cancelled" => ~shouldAdvanceOrder(s, deriveOrderStatus(S))

OrderBacked(o) == Exists(o) => Backed(orderStatus[o], StatusesOf(o, ticketStatus))

\* SELECT MAX(order_number) has a value, however many orders there are.
MaxNumberExists ==
  \E n \in {0} \cup {orderNumber[o] : o \in Orders} : \A o \in Orders : orderNumber[o] <= n

\* The inductive invariant.
KitchenInv ==
  /\ KitchenTypeOK
  /\ RowsComplete
  /\ MaxNumberExists
  /\ \A o \in Orders : OrderBacked(o)
-----------------------------------------------------------------------------
(* The status functions *)

\* deriveOrderStatus yields an order status, a terminal one exactly for finished tickets.
LEMMA DeriveFacts ==
  ASSUME NEW S \in SUBSET TicketStatus, S # {}
  PROVE  /\ deriveOrderStatus(S) \in OrderStatus
         /\ deriveOrderStatus(S) \in Terminal <=> S \subseteq Terminal
         /\ deriveOrderStatus(S) = "ready" => S \subseteq {"ready"} \cup Terminal
         /\ deriveOrderStatus(S) = "completed" => "completed" \in S
BY DEF deriveOrderStatus, OrderStatus, Terminal

\* A new order and its queued tickets agree.
LEMMA NewOrderBacked == Backed("received", {"queued"})
BY DEF Backed, Terminal, shouldAdvanceOrder, deriveOrderStatus, Rank

\* When tickets of an open order move, taking the derived status only if it advances
\* the row (shouldAdvanceOrder) leaves the row level with the tickets.
LEMMA AdvanceBacked ==
  ASSUME NEW s \in OrderStatus, s \notin Terminal,
         NEW S \in SUBSET TicketStatus, S # {},
         s = "ready" => S \subseteq {"ready"} \cup Terminal
  PROVE  IF shouldAdvanceOrder(s, deriveOrderStatus(S))
         THEN Backed(deriveOrderStatus(S), S)
         ELSE Backed(s, S)
<1> DEFINE c == deriveOrderStatus(S)
<1>1. /\ c \in OrderStatus
      /\ c \in Terminal <=> S \subseteq Terminal
      /\ c = "ready" => S \subseteq {"ready"} \cup Terminal
      /\ c = "completed" => "completed" \in S
  BY DeriveFacts
<1> HIDE DEF c
<1>2. CASE shouldAdvanceOrder(s, c)
  <2>1. c # "cancelled" => ~shouldAdvanceOrder(c, c)
    BY <1>1 DEF shouldAdvanceOrder, Rank, OrderStatus
  <2> QED
    BY <1>1, <1>2, <2>1 DEF Backed, c
<1>3. CASE ~shouldAdvanceOrder(s, c)
  <2>1. c \notin Terminal
    BY <1>1, <1>3 DEF shouldAdvanceOrder, Rank, OrderStatus, Terminal
  <2> QED
    BY <1>1, <1>3, <2>1 DEF Backed, c, Terminal
<1> QED
  BY <1>2, <1>3 DEF c

\* A whole-order command moves the row and every open ticket to matching statuses.
LEMMA OrderCommandBacked ==
  ASSUME NEW s \in OrderStatus, NEW to \in OrderStatus,
         NEW S \in SUBSET TicketStatus, S # {},
         Backed(s, S), CanTransitionOrder(s, to),
         \A x \in S : ticketStatusForOrder(to, x) # x =>
                        CanTransitionTicket(x, ticketStatusForOrder(to, x))
  PROVE  Backed(to, {ticketStatusForOrder(to, x) : x \in S})
<1> DEFINE f(x) == ticketStatusForOrder(to, x)
           N == {f(x) : x \in S}
<1>1. s \notin Terminal /\ to # "received"
  BY DEF CanTransitionOrder, Terminal
<1>2. PICK y \in S : y \notin Terminal
  BY <1>1 DEF Backed
<1>3. CASE to = "cancelled"
  <2>1. \A x \in S : f(x) \in Terminal
    BY <1>3 DEF ticketStatusForOrder, Terminal
  <2> QED
    BY <1>3, <2>1 DEF Backed, Terminal
<1>4. CASE to = "completed"
  <2>1. \A x \in S : f(x) \in Terminal
    BY <1>4 DEF ticketStatusForOrder, Terminal
  <2>2. f(y) = "completed"
    BY <1>2, <1>4 DEF ticketStatusForOrder, Terminal
  <2>3. ~shouldAdvanceOrder(to, deriveOrderStatus(N))
    BY <1>4, <2>1, <2>2 DEF shouldAdvanceOrder, deriveOrderStatus, Rank, Terminal
  <2> QED
    BY <1>4, <2>1, <2>2, <2>3 DEF Backed, Terminal
<1>5. CASE to = "ready"
  <2>1. \A x \in S : f(x) \in {"ready"} \cup Terminal
    BY <1>5 DEF ticketStatusForOrder, Terminal
  <2>2. f(y) = "ready"
    BY <1>2, <1>5 DEF ticketStatusForOrder, Terminal
  <2>3. deriveOrderStatus(N) = "ready"
    BY <2>1, <2>2 DEF deriveOrderStatus, Terminal
  <2>4. ~shouldAdvanceOrder(to, "ready")
    BY <1>5 DEF shouldAdvanceOrder, Rank
  <2> QED
    BY <1>5, <2>1, <2>2, <2>3, <2>4 DEF Backed, Terminal
<1>6. CASE to = "preparing"
  <2>1. \A x \in S : f(x) \in {"preparing"} \cup Terminal
    BY <1>6 DEF ticketStatusForOrder, Terminal
  <2>2. f(y) = "preparing"
    BY <1>2, <1>6 DEF ticketStatusForOrder, Terminal
  <2>3. deriveOrderStatus(N) = "preparing"
    BY <2>1, <2>2 DEF deriveOrderStatus, Terminal
  <2>4. ~shouldAdvanceOrder(to, "preparing")
    BY <1>6 DEF shouldAdvanceOrder, Rank
  <2> QED
    BY <1>6, <2>1, <2>2, <2>3, <2>4 DEF Backed, Terminal
<1>7. CASE to = "accepted"
  <2>1. s = "received"
    BY <1>7 DEF CanTransitionOrder
  <2>2. ~shouldAdvanceOrder("received", deriveOrderStatus(S))
    BY <2>1 DEF Backed
  <2>3. "completed" \notin S
    BY <1>2, <2>2 DEF deriveOrderStatus, shouldAdvanceOrder, Rank, Terminal
  <2>4. \A x \in S : f(x) \in {"fired", "cancelled"}
    BY <1>7, <2>3 DEF ticketStatusForOrder, Terminal
  <2>5. f(y) = "fired"
    BY <1>2, <1>7 DEF ticketStatusForOrder, Terminal
  <2>6. deriveOrderStatus(N) = "accepted"
    BY <2>4, <2>5 DEF deriveOrderStatus, Terminal
  <2>7. ~shouldAdvanceOrder(to, "accepted")
    BY <1>7 DEF shouldAdvanceOrder, Rank
  <2> QED
    BY <1>7, <2>4, <2>5, <2>6, <2>7 DEF Backed, Terminal
<1> QED
  BY <1>1, <1>3, <1>4, <1>5, <1>6, <1>7 DEF OrderStatus
-----------------------------------------------------------------------------
(* The commands preserve the invariant *)

\* An empty database satisfies the invariant.
LEMMA InitInv == KitchenInit => KitchenInv
<1> SUFFICES ASSUME KitchenInit PROVE KitchenInv
  OBVIOUS
<1>1. KitchenTypeOK
  BY DEF KitchenInit, KitchenTypeOK
<1>2. RowsComplete
  BY DEF KitchenInit, RowsComplete, Exists, listTicketsForOrder
<1>3. MaxNumberExists
  BY DEF KitchenInit, MaxNumberExists
<1>4. \A o \in Orders : OrderBacked(o)
  BY DEF KitchenInit, OrderBacked, Exists
<1> QED
  BY <1>1, <1>2, <1>3, <1>4 DEF KitchenInv

\* The next number is above every number in use.
LEMMA NextNumber ==
  ASSUME KitchenTypeOK, MaxNumberExists
  PROVE  /\ nextOrderNumber \in Nat
         /\ \A o \in Orders : orderNumber[o] < nextOrderNumber
<1> DEFINE N == {0} \cup {orderNumber[o] : o \in Orders}
           m == CHOOSE n \in N : \A o \in Orders : orderNumber[o] <= n
<1>1. N \subseteq Nat
  BY DEF KitchenTypeOK
<1>2. m \in N /\ \A o \in Orders : orderNumber[o] <= m
  BY DEF MaxNumberExists
<1>3. nextOrderNumber = 1 + m
  BY DEF nextOrderNumber
<1> HIDE DEF m, N
<1>4. m \in Nat
  BY <1>1, <1>2
<1> QED
  BY <1>2, <1>3, <1>4 DEF KitchenTypeOK

\* The ticket statuses of a row are ticket statuses, and there is at least one.
LEMMA StatusesFacts ==
  ASSUME KitchenTypeOK, RowsComplete, NEW o \in Orders, Exists(o)
  PROVE  /\ StatusesOf(o, ticketStatus) \in SUBSET TicketStatus
         /\ StatusesOf(o, ticketStatus) # {}
<1>1. o # None
  BY NoneAssumption
<1>2. \A t \in listTicketsForOrder(o) : ticketStatus[t] \in TicketStatus
  BY <1>1 DEF KitchenTypeOK, RowsComplete, listTicketsForOrder
<1>3. listTicketsForOrder(o) # {}
  BY DEF RowsComplete
<1> QED
  BY <1>2, <1>3 DEF StatusesOf

\* CreateOrder inserts an order and its queued tickets as whole, level rows.
LEMMA CreateOrderInv ==
  ASSUME KitchenInv, NEW o \in Orders, NEW T \in SUBSET Tickets,
         NEW ref \in Refs \cup {None}, CreateOrder(o, T, ref)
  PROVE  KitchenInv'
<1> USE DEF KitchenInv
<1>0. o # None
  BY NoneAssumption
<1>1. nextOrderNumber \in Nat /\ \A p \in Orders : orderNumber[p] < nextOrderNumber
  BY NextNumber
<1> HIDE DEF nextOrderNumber
<1>2. KitchenTypeOK'
  BY <1>1 DEF CreateOrder, KitchenTypeOK, OrderStatus, TicketStatus
<1>3. RowsComplete'
  <2>1. \A t \in Tickets : /\ (ticketStatus[t] = None <=> ticketOrder[t] = None)'
                           /\ (ticketOrder[t] # None => Exists(ticketOrder[t]))'
    BY <1>0, NoneAssumption DEF CreateOrder, KitchenTypeOK, RowsComplete, Exists, TicketStatus, OrderStatus
  <2>2. ASSUME NEW p \in Orders, Exists(p)' PROVE (listTicketsForOrder(p) # {})'
    <3>1. CASE p = o
      BY <3>1 DEF CreateOrder, listTicketsForOrder
    <3>2. CASE p # o
      <4>1. Exists(p)
        BY <2>2, <3>2 DEF CreateOrder, Exists, KitchenTypeOK
      <4>2. PICK t \in Tickets : ticketOrder[t] = p
        BY <4>1 DEF RowsComplete, listTicketsForOrder
      <4>3. p # None
        BY NoneAssumption
      <4>4. t \notin T
        BY <4>2, <4>3 DEF CreateOrder
      <4> QED
        BY <4>2, <4>4 DEF CreateOrder, listTicketsForOrder
    <3> QED
      BY <3>1, <3>2
  <2> QED
    BY <2>1, <2>2 DEF RowsComplete
<1>4. MaxNumberExists'
  <2>1. orderNumber'[o] = nextOrderNumber
    BY DEF CreateOrder, KitchenTypeOK
  <2>2. \A p \in Orders : orderNumber'[p] <= nextOrderNumber
    BY <1>1 DEF CreateOrder, KitchenTypeOK
  <2> QED
    BY <2>1, <2>2 DEF MaxNumberExists
<1>5. ASSUME NEW p \in Orders PROVE OrderBacked(p)'
  <2>1. CASE p = o
    <3>1. orderStatus'[p] = "received"
      BY <2>1 DEF CreateOrder, KitchenTypeOK
    <3>2. {t \in Tickets : ticketOrder'[t] = o} = T
      <4>1. \A t \in Tickets : ticketOrder[t] # o
        BY <1>0 DEF CreateOrder, RowsComplete, Exists
      <4> QED
        BY <4>1 DEF CreateOrder
    <3>3. StatusesOf(p, ticketStatus)' = {"queued"}
      BY <2>1, <3>2 DEF StatusesOf, listTicketsForOrder, CreateOrder
    <3> QED
      BY <3>1, <3>3, NewOrderBacked DEF OrderBacked
  <2>2. CASE p # o
    <3>1. orderStatus'[p] = orderStatus[p]
      BY <2>2 DEF CreateOrder, KitchenTypeOK
    <3>2. p # None
      BY NoneAssumption
    <3>3. {t \in Tickets : ticketOrder'[t] = p} = {t \in Tickets : ticketOrder[t] = p}
      BY <2>2, <3>2 DEF CreateOrder
    <3>4. \A t \in Tickets : ticketOrder[t] = p => ticketStatus'[t] = ticketStatus[t]
      BY <3>2 DEF CreateOrder
    <3>5. StatusesOf(p, ticketStatus)' = StatusesOf(p, ticketStatus)
      BY <3>3, <3>4 DEF StatusesOf, listTicketsForOrder
    <3> QED
      BY <3>1, <3>5 DEF OrderBacked, Exists
  <2> QED
    BY <2>1, <2>2
<1> QED
  BY <1>2, <1>3, <1>4, <1>5

\* A command that moves the row and the tickets of one order preserves the invariant if
\* it leaves the row and the tickets level.
LEMMA OneOrderInv ==
  ASSUME KitchenInv, NEW o \in Orders, Exists(o),
         orderStatus' \in [Orders -> OrderStatus \cup {None}], orderStatus'[o] # None,
         orderVersion' \in [Orders -> Nat], UNCHANGED <<orderNumber, orderRef>>,
         \A p \in Orders : p # o => orderStatus'[p] = orderStatus[p],
         ticketStatus' \in [Tickets -> TicketStatus \cup {None}],
         ticketVersion' \in [Tickets -> Nat], UNCHANGED ticketOrder,
         \A t \in Tickets : ticketOrder[t] # o => ticketStatus'[t] = ticketStatus[t],
         \A t \in Tickets : ticketOrder[t] = o => ticketStatus'[t] # None,
         Backed(orderStatus'[o], StatusesOf(o, ticketStatus'))
  PROVE  KitchenInv'
<1> USE DEF KitchenInv
<1>1. KitchenTypeOK'
  BY DEF KitchenTypeOK
<1>2. MaxNumberExists'
  BY DEF MaxNumberExists
<1>3. \A p \in Orders : listTicketsForOrder(p)' = listTicketsForOrder(p)
  BY DEF listTicketsForOrder
<1>4. \A p \in Orders : Exists(p)' <=> Exists(p)
  BY DEF Exists
<1>5. RowsComplete'
  <2>1. \A t \in Tickets : (ticketStatus[t] = None <=> ticketOrder[t] = None)'
    BY NoneAssumption DEF RowsComplete
  <2>2. \A t \in Tickets : (ticketOrder[t] # None => Exists(ticketOrder[t]))'
    BY <1>4 DEF RowsComplete, KitchenTypeOK, Exists
  <2> QED
    BY <1>3, <1>4, <2>1, <2>2 DEF RowsComplete
<1>6. ASSUME NEW p \in Orders PROVE OrderBacked(p)'
  <2>1. CASE p = o
    <3>1. StatusesOf(o, ticketStatus)' = StatusesOf(o, ticketStatus')
      BY <1>3 DEF StatusesOf
    <3> QED
      BY <2>1, <3>1 DEF OrderBacked
  <2>2. CASE p # o
    <3>1. \A t \in listTicketsForOrder(p) : ticketStatus'[t] = ticketStatus[t]
      BY <2>2 DEF listTicketsForOrder
    <3>2. StatusesOf(p, ticketStatus)' = StatusesOf(p, ticketStatus)
      BY <1>3, <3>1 DEF StatusesOf
    <3> QED
      BY <1>4, <2>2, <3>2 DEF OrderBacked
  <2> QED
    BY <2>1, <2>2
<1> QED
  BY <1>1, <1>2, <1>5, <1>6

\* What updateTickets writes: the statuses asked for, a version more where one changed.
LEMMA UpdateTicketsFacts ==
  ASSUME KitchenTypeOK, NEW T \in SUBSET Tickets, NEW next,
         \A t \in T : next[t] \in TicketStatus, updateTickets(T, next)
  PROVE  /\ ticketStatus' \in [Tickets -> TicketStatus \cup {None}]
         /\ ticketVersion' \in [Tickets -> Nat]
         /\ UNCHANGED ticketOrder
         /\ \A t \in T : ticketStatus'[t] = next[t]
         /\ \A t \in Tickets \ T : ticketStatus'[t] = ticketStatus[t]
         /\ \A t \in Tickets :
              IF ticketStatus'[t] = ticketStatus[t] THEN ticketVersion'[t] = ticketVersion[t]
              ELSE t \in T /\ ticketVersion'[t] = ticketVersion[t] + 1
BY DEF KitchenTypeOK, updateTickets

\* What updateOrder writes: the new status and the next version of one row.
LEMMA UpdateOrderFacts ==
  ASSUME KitchenTypeOK, NEW o \in Orders, NEW s \in OrderStatus, updateOrder(o, s)
  PROVE  /\ orderStatus' \in [Orders -> OrderStatus \cup {None}]
         /\ orderVersion' \in [Orders -> Nat]
         /\ UNCHANGED <<orderNumber, orderRef>>
         /\ orderStatus'[o] = s /\ orderVersion'[o] = orderVersion[o] + 1
         /\ \A p \in Orders : p # o => /\ orderStatus'[p] = orderStatus[p]
                                       /\ orderVersion'[p] = orderVersion[p]
BY DEF KitchenTypeOK, updateOrder

\* The tail of the two ticket commands.
LEMMA AdvanceDerivedFacts ==
  ASSUME KitchenTypeOK, NEW o \in Orders, Exists(o), orderStatus[o] \notin Terminal,
         StatusesOf(o, ticketStatus') \in SUBSET TicketStatus,
         StatusesOf(o, ticketStatus') # {},
         orderStatus[o] = "ready" =>
           StatusesOf(o, ticketStatus') \subseteq {"ready"} \cup Terminal,
         advanceDerived(o)
  PROVE  /\ orderStatus' \in [Orders -> OrderStatus \cup {None}] /\ orderStatus'[o] # None
         /\ orderVersion' \in [Orders -> Nat]
         /\ UNCHANGED <<orderNumber, orderRef>>
         /\ \A p \in Orders : p # o => /\ orderStatus'[p] = orderStatus[p]
                                       /\ orderVersion'[p] = orderVersion[p]
         /\ Backed(orderStatus'[o], StatusesOf(o, ticketStatus'))
         /\ OrderAdvances(o)
<1> DEFINE N == StatusesOf(o, ticketStatus')
           c == deriveOrderStatus(N)
<1>1. orderStatus[o] \in OrderStatus
  BY DEF KitchenTypeOK, Exists
<1>2. c \in OrderStatus
  BY DeriveFacts
<1>3. IF shouldAdvanceOrder(orderStatus[o], c) THEN Backed(c, N) ELSE Backed(orderStatus[o], N)
  BY <1>1, AdvanceBacked
<1>4. IF shouldAdvanceOrder(orderStatus[o], c) THEN updateOrder(o, c) ELSE UNCHANGED orderVars
  BY DEF advanceDerived
<1>5. None \notin OrderStatus
  BY NoneAssumption
<1> HIDE DEF c, N
<1>6. CASE shouldAdvanceOrder(orderStatus[o], c)
  <2>1. /\ orderStatus' \in [Orders -> OrderStatus \cup {None}]
        /\ orderVersion' \in [Orders -> Nat]
        /\ UNCHANGED <<orderNumber, orderRef>>
        /\ orderStatus'[o] = c /\ orderVersion'[o] = orderVersion[o] + 1
        /\ \A p \in Orders : p # o => /\ orderStatus'[p] = orderStatus[p]
                                      /\ orderVersion'[p] = orderVersion[p]
    BY <1>2, <1>4, <1>6, UpdateOrderFacts
  <2>2. c = "cancelled" \/ Rank(c) > Rank(orderStatus[o])
    BY <1>6 DEF shouldAdvanceOrder
  <2>3. OrderAdvances(o)
    BY <2>1, <2>2 DEF OrderAdvances
  <2> QED
    BY <1>2, <1>3, <1>5, <1>6, <2>1, <2>3 DEF N
<1>7. CASE ~shouldAdvanceOrder(orderStatus[o], c)
  <2>1. UNCHANGED orderVars
    BY <1>4, <1>7
  <2>2. Backed(orderStatus[o], N)
    BY <1>3, <1>7
  <2> QED
    BY <1>1, <1>5, <2>1, <2>2 DEF orderVars, KitchenTypeOK, OrderAdvances, N
<1> QED
  BY <1>6, <1>7

\* Every row takes a legal step or none: the action of NeverRegresses.
AllAdvance == (\A o \in Orders : OrderAdvances(o)) /\ (\A t \in Tickets : TicketAdvances(t))

\* CreateOrder only adds rows.
LEMMA CreateOrderAdvances ==
  ASSUME KitchenInv, NEW o \in Orders, NEW T \in SUBSET Tickets,
         NEW ref \in Refs \cup {None}, CreateOrder(o, T, ref)
  PROVE  AllAdvance
BY DEF KitchenInv, KitchenTypeOK, CreateOrder, AllAdvance, OrderAdvances, TicketAdvances, Exists

\* TransitionOrder keeps the invariant and moves every row forward.
LEMMA TransitionOrderStep ==
  ASSUME KitchenInv, NEW o \in Orders, NEW to \in OrderStatus, NEW ver,
         TransitionOrder(o, to, ver)
  PROVE  KitchenInv' /\ AllAdvance
<1> DEFINE L == listTicketsForOrder(o)
           S == StatusesOf(o, ticketStatus)
           next == [t \in L |-> ticketStatusForOrder(to, ticketStatus[t])]
<1> USE DEF KitchenInv
<1>1. /\ Exists(o) /\ CanTransitionOrder(orderStatus[o], to)
      /\ \A t \in L : next[t] # ticketStatus[t] => CanTransitionTicket(ticketStatus[t], next[t])
      /\ updateOrder(o, to) /\ updateTickets(L, next)
  BY DEF TransitionOrder
<1>2. S \in SUBSET TicketStatus /\ S # {}
  BY <1>1, StatusesFacts
<1>3. orderStatus[o] \in OrderStatus /\ None \notin OrderStatus \cup TicketStatus
  BY <1>1, NoneAssumption DEF KitchenTypeOK, Exists
<1>4. \A t \in L : ticketStatus[t] \in S
  BY DEF StatusesOf
<1>5. to # "received"
  BY <1>1 DEF CanTransitionOrder
<1>6. \A x \in TicketStatus : ticketStatusForOrder(to, x) \in TicketStatus
  BY <1>5 DEF ticketStatusForOrder, TicketStatus, OrderStatus
<1>7. L \subseteq Tickets /\ \A t \in L : next[t] \in TicketStatus
  BY <1>2, <1>4, <1>6 DEF listTicketsForOrder
<1>8. Backed(to, {ticketStatusForOrder(to, x) : x \in S})
  <2>1. Backed(orderStatus[o], S)
    BY <1>1 DEF OrderBacked
  <2>2. \A x \in S : ticketStatusForOrder(to, x) # x =>
                        CanTransitionTicket(x, ticketStatusForOrder(to, x))
    BY <1>1 DEF StatusesOf
  <2> QED
    BY <1>1, <1>2, <1>3, <2>1, <2>2, OrderCommandBacked
<1> HIDE DEF next
<1>9. /\ ticketStatus' \in [Tickets -> TicketStatus \cup {None}]
      /\ ticketVersion' \in [Tickets -> Nat]
      /\ UNCHANGED ticketOrder
      /\ \A t \in L : ticketStatus'[t] = next[t]
      /\ \A t \in Tickets \ L : ticketStatus'[t] = ticketStatus[t]
      /\ \A t \in Tickets :
           IF ticketStatus'[t] = ticketStatus[t] THEN ticketVersion'[t] = ticketVersion[t]
           ELSE t \in L /\ ticketVersion'[t] = ticketVersion[t] + 1
  BY <1>1, <1>7, UpdateTicketsFacts
<1>10. /\ orderStatus' \in [Orders -> OrderStatus \cup {None}]
       /\ orderVersion' \in [Orders -> Nat]
       /\ UNCHANGED <<orderNumber, orderRef>>
       /\ orderStatus'[o] = to /\ orderVersion'[o] = orderVersion[o] + 1
       /\ \A p \in Orders : p # o => /\ orderStatus'[p] = orderStatus[p]
                                     /\ orderVersion'[p] = orderVersion[p]
  BY <1>1, UpdateOrderFacts
<1>11. StatusesOf(o, ticketStatus') = {ticketStatusForOrder(to, x) : x \in S}
  BY <1>9 DEF StatusesOf, next
<1>12. KitchenInv'
  <2>1. \A t \in Tickets : ticketOrder[t] = o <=> t \in L
    BY DEF listTicketsForOrder
  <2>2. \A t \in L : ticketStatus'[t] # None
    BY <1>3, <1>7, <1>9
  <2>3. \A t \in Tickets \ L : ticketStatus'[t] = ticketStatus[t]
    BY <1>9
  <2> HIDE DEF L, KitchenInv
  <2> QED
    BY <1>1, <1>3, <1>8, <1>9, <1>10, <1>11, <2>1, <2>2, <2>3, OneOrderInv
<1>13. OrderAdvances(o)
  <2>1. orderStatus[o] \notin Terminal
    BY <1>1 DEF CanTransitionOrder, Terminal
  <2>2. to = "cancelled" \/ Rank(to) > Rank(orderStatus[o])
    BY <1>1 DEF CanTransitionOrder, Rank
  <2> QED
    BY <1>1, <1>10, <2>1, <2>2 DEF OrderAdvances
<1>14. ASSUME NEW t \in Tickets PROVE TicketAdvances(t)
  <2>1. t \in L => ticketOrder[t] # None
    BY NoneAssumption DEF listTicketsForOrder
  <2> QED
    BY <1>1, <1>9, <2>1 DEF TicketAdvances
<1> QED
  BY <1>10, <1>12, <1>13, <1>14 DEF AllAdvance, OrderAdvances

\* The part the two ticket commands share: tickets of T, all of order o, step to to.
LEMMA TicketsStep ==
  ASSUME KitchenInv, NEW o \in Orders, Exists(o), NEW to \in TicketStatus,
         NEW T \in SUBSET listTicketsForOrder(o), NEW next,
         \A t \in T : next[t] = to,
         \A t \in T : ticketStatus[t] # to => CanTransitionTicket(ticketStatus[t], to),
         \E t \in T : ticketStatus[t] # to,
         updateTickets(T, next), advanceDerived(o)
  PROVE  KitchenInv' /\ AllAdvance
<1> DEFINE L == listTicketsForOrder(o)
           S == StatusesOf(o, ticketStatus)
           N == StatusesOf(o, ticketStatus')
<1> USE DEF KitchenInv
<1>1. L \subseteq Tickets
  BY DEF listTicketsForOrder
<1>2. S \in SUBSET TicketStatus /\ S # {} /\ \A t \in L : ticketStatus[t] \in S
  BY StatusesFacts DEF StatusesOf
<1>3. Backed(orderStatus[o], S)
  BY DEF OrderBacked
<1>4. /\ ticketStatus' \in [Tickets -> TicketStatus \cup {None}]
      /\ ticketVersion' \in [Tickets -> Nat]
      /\ UNCHANGED ticketOrder
      /\ \A t \in T : ticketStatus'[t] = to
      /\ \A t \in Tickets \ T : ticketStatus'[t] = ticketStatus[t]
      /\ \A t \in Tickets :
           IF ticketStatus'[t] = ticketStatus[t] THEN ticketVersion'[t] = ticketVersion[t]
           ELSE t \in T /\ ticketVersion'[t] = ticketVersion[t] + 1
  <2>1. T \in SUBSET Tickets /\ \A t \in T : next[t] \in TicketStatus
    BY <1>1
  <2>2. KitchenTypeOK /\ updateTickets(T, next)
    OBVIOUS
  <2>3. /\ ticketStatus' \in [Tickets -> TicketStatus \cup {None}]
        /\ ticketVersion' \in [Tickets -> Nat]
        /\ UNCHANGED ticketOrder
        /\ \A t \in T : ticketStatus'[t] = next[t]
        /\ \A t \in Tickets \ T : ticketStatus'[t] = ticketStatus[t]
        /\ \A t \in Tickets :
             IF ticketStatus'[t] = ticketStatus[t] THEN ticketVersion'[t] = ticketVersion[t]
             ELSE t \in T /\ ticketVersion'[t] = ticketVersion[t] + 1
    <3> HIDE DEF KitchenInv
    <3> QED
      BY <2>1, <2>2, UpdateTicketsFacts
  <2> QED
    BY <2>3
<1>5. orderStatus[o] \notin Terminal
  <2>1. PICK t \in T : ticketStatus[t] # to
    OBVIOUS
  <2>2. ticketStatus[t] \notin Terminal
    BY <2>1 DEF CanTransitionTicket, Terminal
  <2> QED
    BY <1>2, <1>3, <2>2 DEF Backed
<1>6. \A t \in L : ticketStatus'[t] \in TicketStatus
  BY <1>1, <1>2, <1>4
<1>7. N \in SUBSET TicketStatus /\ N # {}
  BY <1>2, <1>6 DEF StatusesOf
<1>8. ASSUME orderStatus[o] = "ready" PROVE N \subseteq {"ready"} \cup Terminal
  <2>1. S \subseteq {"ready"} \cup Terminal
    BY <1>3, <1>8 DEF Backed
  <2>2. \A t \in L : ticketStatus[t] \in {"ready"} \cup Terminal
    BY <1>2, <2>1
  <2>3. \A t \in L : ticketStatus'[t] \in {"ready"} \cup Terminal
    BY <1>1, <1>4, <2>2 DEF CanTransitionTicket, Terminal
  <2> QED
    BY <2>3 DEF StatusesOf
<1>9. /\ orderStatus' \in [Orders -> OrderStatus \cup {None}] /\ orderStatus'[o] # None
      /\ orderVersion' \in [Orders -> Nat]
      /\ UNCHANGED <<orderNumber, orderRef>>
      /\ \A p \in Orders : p # o => /\ orderStatus'[p] = orderStatus[p]
                                    /\ orderVersion'[p] = orderVersion[p]
      /\ Backed(orderStatus'[o], N)
      /\ OrderAdvances(o)
  BY <1>5, <1>7, <1>8, AdvanceDerivedFacts
<1>10. KitchenInv'
  <2>1. \A t \in Tickets : ticketOrder[t] = o <=> t \in L
    BY DEF listTicketsForOrder
  <2>2. \A t \in L : ticketStatus'[t] # None
    BY <1>6, NoneAssumption
  <2>3. \A t \in Tickets : ticketOrder[t] # o => ticketStatus'[t] = ticketStatus[t]
    BY <1>4, <2>1
  <2> HIDE DEF L, KitchenInv
  <2> QED
    BY <1>4, <1>9, <2>1, <2>2, <2>3, OneOrderInv
<1>11. ASSUME NEW t \in Tickets PROVE TicketAdvances(t)
  <2>1. t \in T => ticketOrder[t] # None
    BY NoneAssumption DEF listTicketsForOrder
  <2> QED
    BY <1>4, <2>1 DEF TicketAdvances
<1> QED
  BY <1>9, <1>10, <1>11 DEF AllAdvance, OrderAdvances

\* TransitionTicket keeps the invariant and moves every row forward.
LEMMA TransitionTicketStep ==
  ASSUME KitchenInv, NEW t \in Tickets, NEW to \in TicketStatus, NEW ver, NEW parent,
         TransitionTicket(t, to, ver, parent)
  PROVE  KitchenInv' /\ AllAdvance
<1> DEFINE o == ticketOrder[t]
           next == [u \in {t} |-> to]
<1>1. o \in Orders /\ Exists(o)
  BY DEF KitchenInv, KitchenTypeOK, RowsComplete, TransitionTicket
<1>2. {t} \in SUBSET listTicketsForOrder(o)
  BY DEF listTicketsForOrder
<1>3. CanTransitionTicket(ticketStatus[t], to) /\ updateTickets({t}, next) /\ advanceDerived(o)
  BY DEF TransitionTicket
<1>4. ticketStatus[t] # to
  BY <1>3 DEF CanTransitionTicket, Terminal
<1>5. \A u \in {t} : next[u] = to
  OBVIOUS
<1> HIDE DEF o, next
<1> QED
  BY <1>1, <1>2, <1>3, <1>4, <1>5, TicketsStep

\* TransitionOrderTickets keeps the invariant and moves every row forward.
LEMMA TransitionOrderTicketsStep ==
  ASSUME KitchenInv, NEW o \in Orders, NEW to \in TicketStatus, NEW ver,
         TransitionOrderTickets(o, to, ver)
  PROVE  KitchenInv' /\ AllAdvance
<1> DEFINE L == listTicketsForOrder(o)
           next == [t \in L |-> to]
<1>1. /\ Exists(o)
      /\ \A t \in L : ticketStatus[t] # to => CanTransitionTicket(ticketStatus[t], to)
      /\ \E t \in L : ticketStatus[t] # to
      /\ updateTickets(L, next) /\ advanceDerived(o)
  BY DEF TransitionOrderTickets
<1>2. \A t \in L : next[t] = to
  OBVIOUS
<1>3. L \in SUBSET listTicketsForOrder(o)
  OBVIOUS
<1> HIDE DEF L, next
<1> QED
  BY <1>1, <1>2, <1>3, TicketsStep

\* Every command keeps the invariant and moves every row forward.
LEMMA NextStep ==
  ASSUME KitchenInv, KitchenNext
  PROVE  KitchenInv' /\ AllAdvance
BY CreateOrderInv, CreateOrderAdvances, TransitionOrderStep, TransitionTicketStep,
   TransitionOrderTicketsStep DEF KitchenNext

\* Refused commands and replays, which change no row, keep the invariant.
LEMMA StutterStep ==
  ASSUME KitchenInv, UNCHANGED kitchenVars
  PROVE  KitchenInv'
BY DEF kitchenVars, KitchenInv, KitchenTypeOK, RowsComplete, MaxNumberExists, OrderBacked,
       Exists, StatusesOf, listTicketsForOrder
-----------------------------------------------------------------------------
(* Theorems *)

\* The invariant is inductive: whatever commands the outlet's clients send.
THEOREM KitchenInvariant == KitchenSpec => []KitchenInv
<1>1. KitchenInit => KitchenInv
  BY InitInv
<1>2. KitchenInv /\ [KitchenNext]_kitchenVars => KitchenInv'
  BY NextStep, StutterStep
<1> QED
  BY <1>1, <1>2, PTL DEF KitchenSpec

\* Type correctness of the two tables.
THEOREM KitchenTypeCorrect == KitchenSpec => []KitchenTypeOK
<1>1. KitchenInv => KitchenTypeOK
  BY DEF KitchenInv
<1> QED
  BY <1>1, KitchenInvariant, PTL

\* Orders and tickets are created and kept together.
THEOREM RowsAreComplete == KitchenSpec => []RowsComplete
<1>1. KitchenInv => RowsComplete
  BY DEF KitchenInv
<1> QED
  BY <1>1, KitchenInvariant, PTL

\* An order is finished exactly when all its tickets are.
THEOREM FinishedTogether == KitchenSpec => []TerminalTogether
<1>1. KitchenInv => TerminalTogether
  BY DEF KitchenInv, TerminalTogether, OrderBacked, Backed, StatusesOf
<1> QED
  BY <1>1, KitchenInvariant, PTL

\* A ready order has no ticket that still cooks, a completed one was served.
THEOREM StatusIsBacked == KitchenSpec => []StatusBacked
<1>1. KitchenInv => StatusBacked
  BY NoneAssumption DEF KitchenInv, StatusBacked, OrderBacked, Backed, StatusesOf, Exists, OrderStatus
<1> QED
  BY <1>1, KitchenInvariant, PTL

\* The order row never lags its tickets.
THEOREM ProjectionIsCurrent == KitchenSpec => []ProjectionCurrent
<1>1. KitchenInv => ProjectionCurrent
  BY DEF KitchenInv, ProjectionCurrent, OrderBacked, Backed
<1> QED
  BY <1>1, KitchenInvariant, PTL

\* No command regresses, reopens or skips a version of an order or a ticket.
THEOREM KitchenNeverRegresses == KitchenSpec => NeverRegresses
<1>1. KitchenInv /\ [KitchenNext]_kitchenVars => [AllAdvance]_kitchenVars
  BY NextStep
<1> QED
  BY <1>1, KitchenInvariant, PTL DEF KitchenSpec, NeverRegresses, AllAdvance
-----------------------------------------------------------------------------
(* Versions *)

\* A ticket's place in its machine.
TicketRank(s) ==
  IF s = "fired" THEN 1 ELSE IF s = "preparing" THEN 2 ELSE IF s = "ready" THEN 3
  ELSE IF s = "completed" THEN 4 ELSE 0

\* An open row's version is at most one above its rank, so that four steps end it.
VersionInv ==
  /\ \A o \in Orders :
       IF orderStatus[o] = None THEN orderVersion[o] = 0
       ELSE orderVersion[o] \in 1..(IF orderStatus[o] = "cancelled" THEN 5
                                                          ELSE Rank(orderStatus[o]) + 1)
  /\ \A t \in Tickets :
       IF ticketStatus[t] = None THEN ticketVersion[t] = 0
       ELSE ticketVersion[t] \in 1..(IF ticketStatus[t] = "cancelled" THEN 5
                                                           ELSE TicketRank(ticketStatus[t]) + 1)

\* A row whose status has a rank below its version keeps that bound when it advances.
LEMMA VersionStep ==
  ASSUME KitchenInv, KitchenInv', VersionInv, AllAdvance
  PROVE  VersionInv'
<1>1. KitchenTypeOK /\ KitchenTypeOK' /\ RowsComplete
  BY DEF KitchenInv
<1>2. None \notin OrderStatus \cup TicketStatus
  BY NoneAssumption
<1>3. ASSUME NEW o \in Orders
      PROVE  IF orderStatus'[o] = None THEN orderVersion'[o] = 0
             ELSE orderVersion'[o] \in 1..(IF orderStatus'[o] = "cancelled" THEN 5
                                                              ELSE Rank(orderStatus'[o]) + 1)
  <2>1. OrderAdvances(o)
    BY DEF AllAdvance
  <2>2. CASE UNCHANGED <<orderStatus[o], orderVersion[o]>>
    BY <2>2 DEF VersionInv
  <2>3. CASE ~Exists(o) /\ orderStatus'[o] = "received" /\ orderVersion'[o] = 1
    BY <1>2, <2>3 DEF OrderStatus, Rank
  <2>4. CASE /\ Exists(o) /\ orderStatus[o] \notin Terminal
             /\ orderStatus'[o] = "cancelled" \/ Rank(orderStatus'[o]) > Rank(orderStatus[o])
             /\ orderVersion'[o] = orderVersion[o] + 1
    <3>1. orderVersion[o] \in 1..(Rank(orderStatus[o]) + 1)
      BY <2>4 DEF VersionInv, Exists, Terminal
    <3>2. Rank(orderStatus[o]) \in 0..3 /\ Rank(orderStatus'[o]) \in 0..4
      BY <2>4 DEF Rank, Terminal
    <3>3. orderStatus'[o] # None
      BY <1>1, <1>2, <2>4, <3>2 DEF Rank, OrderStatus
    <3> QED
      BY <2>4, <3>1, <3>2, <3>3
  <2> QED
    BY <2>1, <2>2, <2>3, <2>4 DEF OrderAdvances
<1>4. ASSUME NEW t \in Tickets
      PROVE  IF ticketStatus'[t] = None THEN ticketVersion'[t] = 0
             ELSE ticketVersion'[t] \in 1..(IF ticketStatus'[t] = "cancelled" THEN 5
                                                    ELSE TicketRank(ticketStatus'[t]) + 1)
  <2>1. TicketAdvances(t)
    BY DEF AllAdvance
  <2>2. CASE UNCHANGED <<ticketStatus[t], ticketVersion[t], ticketOrder[t]>>
    BY <2>2 DEF VersionInv
  <2>3. CASE ticketStatus'[t] = "queued" /\ ticketVersion'[t] = 1
    BY <1>2, <2>3 DEF TicketStatus, TicketRank
  <2>4. CASE /\ CanTransitionTicket(ticketStatus[t], ticketStatus'[t])
             /\ ticketVersion'[t] = ticketVersion[t] + 1
             /\ ticketStatus[t] # None
    <3>1. ticketStatus[t] \notin Terminal
      BY <2>4 DEF CanTransitionTicket, Terminal
    <3>2. ticketVersion[t] \in 1..(TicketRank(ticketStatus[t]) + 1)
      BY <2>4, <3>1 DEF VersionInv, Terminal
    <3>3. \/ ticketStatus'[t] = "cancelled"
          \/ TicketRank(ticketStatus'[t]) = TicketRank(ticketStatus[t]) + 1
      BY <2>4 DEF CanTransitionTicket, TicketRank
    <3>4. TicketRank(ticketStatus[t]) \in 0..3
      BY <3>1 DEF TicketRank, Terminal
    <3>5. ticketStatus'[t] # None
      BY <1>2, <2>4 DEF CanTransitionTicket, TicketStatus
    <3> QED
      BY <2>4, <3>2, <3>3, <3>4, <3>5
  <2> QED
    BY <1>1, <2>1, <2>2, <2>3, <2>4 DEF TicketAdvances, RowsComplete
<1> QED
  BY <1>3, <1>4 DEF VersionInv

\* Versions stay within the bound that clients' expected versions are taken from: the
\* bound Versions cuts off no behaviour.
THEOREM VersionsBounded == KitchenSpec => []VersionBound
<1>1. KitchenInit => VersionInv
  BY DEF KitchenInit, VersionInv
<1>2. KitchenInv /\ KitchenInv' /\ VersionInv /\ [KitchenNext]_kitchenVars => VersionInv'
  <2>1. ASSUME VersionInv, UNCHANGED kitchenVars PROVE VersionInv'
    BY <2>1 DEF kitchenVars, VersionInv
  <2> QED
    BY <2>1, NextStep, VersionStep
<1>3. VersionInv => VersionBound
  BY DEF VersionInv, VersionBound, Versions, Rank, TicketRank
<1> QED
  BY <1>1, <1>2, <1>3, KitchenInvariant, PTL DEF KitchenSpec
-----------------------------------------------------------------------------
(* Tickets that lag their order *)

\* Ticket t is where the order row says its order is, or finished.
Reached(o, t) ==
  ticketStatus[t] \in Terminal \/ TicketRank(ticketStatus[t]) >= Rank(orderStatus[o])

CaughtUp(o) == \A t \in listTicketsForOrder(o) : Reached(o, t)

\* The order row is never ahead of all its tickets.
Led(o) == \E t \in listTicketsForOrder(o) : Reached(o, t)

LedInv == \A o \in Orders : Exists(o) => Led(o)

\* Tickets that are level with their order stay so while the row keeps its version.
KeepsCaughtUp ==
  \A o \in Orders :
    Exists(o) /\ orderVersion'[o] = orderVersion[o] /\ CaughtUp(o) => CaughtUp(o)'

\* Some ticket is at least where the status derived from all of them is.
LEMMA DerivedLed ==
  ASSUME NEW S \in SUBSET TicketStatus, S # {}
  PROVE  \E x \in S : x \in Terminal \/ TicketRank(x) >= Rank(deriveOrderStatus(S))
<1>1. CASE S \cap Terminal # {}
  BY <1>1
<1>2. CASE "ready" \in S
  BY <1>2 DEF deriveOrderStatus, Rank, TicketRank, Terminal
<1>3. CASE S \cap Terminal = {} /\ "ready" \notin S /\ "preparing" \in S
  BY <1>3 DEF deriveOrderStatus, Rank, TicketRank, Terminal
<1>4. CASE S \subseteq {"queued", "fired"}
  <2>1. CASE "fired" \in S
    BY <1>4, <2>1 DEF deriveOrderStatus, Rank, TicketRank, Terminal
  <2>2. CASE S = {"queued"}
    BY <2>2 DEF deriveOrderStatus, Rank, TicketRank, Terminal
  <2> QED
    BY <1>4, <2>1, <2>2
<1> QED
  BY <1>1, <1>2, <1>3, <1>4 DEF TicketStatus, Terminal

\* A row that moves forward stays where its order's unchanged row needs it.
LEMMA ReachedKept ==
  ASSUME KitchenInv, AllAdvance, NEW o \in Orders, NEW t \in Tickets, ticketOrder[t] = o,
         orderVersion'[o] = orderVersion[o], Reached(o, t)
  PROVE  Reached(o, t)'
<1>1. Exists(o) /\ o # None /\ orderVersion[o] \in Nat
  BY NoneAssumption DEF KitchenInv, RowsComplete, KitchenTypeOK
<1>2. orderStatus'[o] = orderStatus[o]
  BY <1>1 DEF AllAdvance, OrderAdvances
<1>3. TicketAdvances(t) /\ ticketOrder[t] # None
  BY <1>1 DEF AllAdvance
<1>4. CASE UNCHANGED ticketStatus[t]
  BY <1>2, <1>4 DEF Reached
<1>5. CASE CanTransitionTicket(ticketStatus[t], ticketStatus'[t])
  <2>1. \/ ticketStatus'[t] \in Terminal
        \/ /\ ticketStatus[t] \notin Terminal
           /\ TicketRank(ticketStatus'[t]) = TicketRank(ticketStatus[t]) + 1
           /\ TicketRank(ticketStatus[t]) \in Nat
    BY <1>5 DEF CanTransitionTicket, Terminal, TicketRank
  <2>2. Rank(orderStatus[o]) \in Nat
    BY DEF Rank
  <2> QED
    BY <1>2, <2>1, <2>2 DEF Reached
<1> QED
  BY <1>3, <1>4, <1>5 DEF TicketAdvances

\* Commands that give no ticket a new order leave untouched orders as they were.
LEMMA KeptByAdvance ==
  ASSUME KitchenInv, AllAdvance, UNCHANGED ticketOrder
  PROVE  /\ KeepsCaughtUp
         /\ \A o \in Orders : Led(o) /\ orderVersion'[o] = orderVersion[o] => Led(o)'
<1>1. \A o : listTicketsForOrder(o)' = listTicketsForOrder(o)
  BY DEF listTicketsForOrder
<1>2. \A o \in Orders, t \in Tickets :
        ticketOrder[t] = o /\ orderVersion'[o] = orderVersion[o] /\ Reached(o, t) => Reached(o, t)'
  BY ReachedKept
<1>3. \A o, t : t \in listTicketsForOrder(o) <=> t \in Tickets /\ ticketOrder[t] = o
  BY DEF listTicketsForOrder
<1> QED
  BY <1>1, <1>2, <1>3 DEF KeepsCaughtUp, CaughtUp, Led

\* A new order's tickets are queued, where the row is.
LEMMA CreateCatchesUp ==
  ASSUME KitchenInv, LedInv, NEW o \in Orders, NEW T \in SUBSET Tickets,
         NEW ref \in Refs \cup {None}, CreateOrder(o, T, ref)
  PROVE  LedInv' /\ KeepsCaughtUp /\ CaughtUp(o)'
<1>1. KitchenTypeOK /\ o # None
  BY NoneAssumption DEF KitchenInv
<1>2. /\ ~Exists(o) /\ T # {} /\ \A t \in T : ticketOrder[t] = None
      /\ orderStatus'[o] = "received"
      /\ \A p \in Orders : p # o => orderStatus'[p] = orderStatus[p]
      /\ \A t \in T : ticketStatus'[t] = "queued" /\ ticketOrder'[t] = o
      /\ \A t \in Tickets \ T : ticketStatus'[t] = ticketStatus[t] /\ ticketOrder'[t] = ticketOrder[t]
  BY <1>1 DEF CreateOrder, KitchenTypeOK
<1>3. \A t \in Tickets : Reached(o, t)'
  BY <1>2 DEF Reached, Rank, TicketRank
<1>4. ASSUME NEW p \in Orders, p # o
      PROVE  /\ listTicketsForOrder(p)' = listTicketsForOrder(p)
             /\ \A t \in listTicketsForOrder(p) : Reached(p, t)' <=> Reached(p, t)
  <2>1. p # None
    BY NoneAssumption
  <2>2. listTicketsForOrder(p)' = listTicketsForOrder(p)
    BY <1>2, <1>4, <2>1 DEF listTicketsForOrder
  <2>3. \A t \in listTicketsForOrder(p) : t \in Tickets \ T
    BY <1>2, <2>1 DEF listTicketsForOrder
  <2> QED
    BY <1>2, <1>4, <2>2, <2>3 DEF Reached
<1>5. listTicketsForOrder(o)' \subseteq Tickets /\ T \subseteq listTicketsForOrder(o)'
  BY <1>2 DEF listTicketsForOrder
<1>6. CaughtUp(o)' /\ Led(o)'
  BY <1>2, <1>3, <1>5 DEF CaughtUp, Led
<1>7. KeepsCaughtUp
  BY <1>2, <1>4 DEF KeepsCaughtUp, CaughtUp
<1>8. LedInv'
  BY <1>2, <1>4, <1>6 DEF LedInv, Led, Exists
<1> QED
  BY <1>6, <1>7, <1>8

\* An order command takes every open ticket to the order's new status.
LEMMA OrderCatchesUp ==
  ASSUME KitchenInv, LedInv, NEW o \in Orders, NEW to \in OrderStatus, NEW ver,
         TransitionOrder(o, to, ver)
  PROVE  LedInv' /\ KeepsCaughtUp /\ CaughtUp(o)' /\ orderVersion'[o] = orderVersion[o] + 1
<1> DEFINE L == listTicketsForOrder(o)
           next == [t \in L |-> ticketStatusForOrder(to, ticketStatus[t])]
<1>1. KitchenInv' /\ AllAdvance
  BY TransitionOrderStep
<1>2. Exists(o) /\ CanTransitionOrder(orderStatus[o], to) /\ updateOrder(o, to) /\ updateTickets(L, next)
  BY DEF TransitionOrder
<1>3. KitchenTypeOK /\ UNCHANGED ticketOrder
  BY <1>2 DEF KitchenInv, updateTickets
<1>4. /\ orderStatus'[o] = to /\ orderVersion'[o] = orderVersion[o] + 1
      /\ \A p \in Orders : p # o => orderStatus'[p] = orderStatus[p] /\ orderVersion'[p] = orderVersion[p]
  BY <1>2, <1>3, UpdateOrderFacts
<1>5. \A t \in L : t \in Tickets /\ ticketStatus'[t] = ticketStatusForOrder(to, ticketStatus[t])
  BY <1>2 DEF updateTickets, listTicketsForOrder
<1>6. to # "received"
  BY <1>2 DEF CanTransitionOrder
<1>7. \A x : LET y == ticketStatusForOrder(to, x) IN y \in Terminal \/ TicketRank(y) >= Rank(to)
  BY <1>6 DEF ticketStatusForOrder, Terminal, TicketRank, Rank, OrderStatus
<1>8. listTicketsForOrder(o)' = L /\ L # {}
  BY <1>2, <1>3 DEF listTicketsForOrder, KitchenInv, RowsComplete
<1>9. CaughtUp(o)' /\ Led(o)'
  <2>1. \A t \in L : Reached(o, t)'
    BY <1>4, <1>5, <1>7 DEF Reached
  <2> QED
    BY <1>8, <2>1 DEF CaughtUp, Led
<1>10. KeepsCaughtUp /\ \A p \in Orders : Led(p) /\ orderVersion'[p] = orderVersion[p] => Led(p)'
  BY <1>1, <1>3, KeptByAdvance
<1>11. LedInv'
  BY <1>4, <1>9, <1>10 DEF LedInv, Exists
<1> QED
  BY <1>4, <1>9, <1>10, <1>11

\* A row advanced to the derived status has a ticket that reached it.
LEMMA DerivedStep ==
  ASSUME KitchenInv, KitchenInv', LedInv, AllAdvance, UNCHANGED ticketOrder,
         NEW o \in Orders, Exists(o), advanceDerived(o)
  PROVE  LedInv' /\ KeepsCaughtUp
<1> DEFINE N == StatusesOf(o, ticketStatus')
           c == deriveOrderStatus(N)
<1>1. listTicketsForOrder(o)' = listTicketsForOrder(o)
  BY DEF listTicketsForOrder
<1>2. KitchenTypeOK /\ KitchenTypeOK' /\ RowsComplete'
  BY DEF KitchenInv
<1>3. KeepsCaughtUp /\ \A p \in Orders : Led(p) /\ orderVersion'[p] = orderVersion[p] => Led(p)'
  BY KeptByAdvance
<1>4. CASE UNCHANGED orderVars
  BY <1>3, <1>4 DEF LedInv, Exists, orderVars
<1>5. CASE updateOrder(o, c)
  <2>1. orderStatus'[o] = c /\ \A p \in Orders : p # o => orderStatus'[p] = orderStatus[p] /\ orderVersion'[p] = orderVersion[p]
    BY <1>2, <1>5 DEF updateOrder, KitchenTypeOK
  <2>2. ASSUME Exists(o)' PROVE Led(o)'
    <3>1. listTicketsForOrder(o)' # {} /\ o # None
      BY <1>2, <2>2, NoneAssumption DEF RowsComplete
    <3>2. \A t \in listTicketsForOrder(o)' : ticketStatus'[t] \in TicketStatus
      BY <1>2, <3>1 DEF KitchenTypeOK, RowsComplete, listTicketsForOrder
    <3>3. \E x \in N : x \in Terminal \/ TicketRank(x) >= Rank(c)
      <4>1. N \in SUBSET TicketStatus /\ N # {}
        BY <1>1, <3>1, <3>2 DEF StatusesOf
      <4> QED
        BY <4>1, DerivedLed
    <3>4. \A x \in N : \E t \in listTicketsForOrder(o)' : ticketStatus'[t] = x
      BY <1>1 DEF StatusesOf
    <3> QED
      BY <2>1, <3>3, <3>4 DEF Led, Reached
  <2> QED
    BY <1>3, <2>1, <2>2 DEF LedInv, Exists
<1> QED
  BY <1>3, <1>4, <1>5 DEF advanceDerived

\* A ticket command keeps some ticket level with the order, and moves the ticket's version.
LEMMA TicketCatchesUp ==
  ASSUME KitchenInv, LedInv, NEW t \in Tickets, NEW to \in TicketStatus, NEW ver, NEW parent,
         TransitionTicket(t, to, ver, parent)
  PROVE  LedInv' /\ KeepsCaughtUp /\ ticketVersion'[t] = ticketVersion[t] + 1
<1>1. KitchenInv' /\ AllAdvance
  BY TransitionTicketStep
<1>2. /\ ticketOrder[t] \in Orders /\ Exists(ticketOrder[t])
      /\ updateTickets({t}, [u \in {t} |-> to]) /\ advanceDerived(ticketOrder[t])
      /\ CanTransitionTicket(ticketStatus[t], to)
  BY DEF TransitionTicket, KitchenInv, KitchenTypeOK, RowsComplete
<1>3. UNCHANGED ticketOrder
  BY <1>2 DEF updateTickets
<1>4. ticketStatus[t] # to
  BY <1>2 DEF CanTransitionTicket, Terminal
<1>5. ticketVersion'[t] = ticketVersion[t] + 1
  BY <1>2, <1>4 DEF updateTickets
<1> QED
  BY <1>1, <1>2, <1>3, <1>5, DerivedStep

\* A whole-order ticket command takes every ticket to one status; the row keeps its version
\* only when some ticket lagged it, and then none does afterwards.
LEMMA AllTicketsCatchUp ==
  ASSUME KitchenInv, LedInv, NEW o \in Orders, NEW to \in TicketStatus, NEW ver,
         TransitionOrderTickets(o, to, ver)
  PROVE  /\ LedInv' /\ KeepsCaughtUp /\ CaughtUp(o)'
         /\ orderVersion'[o] = orderVersion[o] => ~CaughtUp(o)
<1> DEFINE L == listTicketsForOrder(o)
           c == deriveOrderStatus({to})
<1>1. KitchenInv' /\ AllAdvance
  BY TransitionOrderTicketsStep
<1>2. /\ Exists(o)
      /\ \A t \in L : ticketStatus[t] # to => CanTransitionTicket(ticketStatus[t], to)
      /\ \E t \in L : ticketStatus[t] # to
      /\ updateTickets(L, [t \in L |-> to]) /\ advanceDerived(o)
  BY DEF TransitionOrderTickets
<1>3. KitchenTypeOK /\ UNCHANGED ticketOrder
  BY <1>2 DEF KitchenInv, updateTickets
<1>4. L \subseteq Tickets /\ L # {} /\ listTicketsForOrder(o)' = L
  BY <1>2, <1>3 DEF listTicketsForOrder
<1>5. \A t \in L : ticketStatus'[t] = to
  BY <1>2, <1>4 DEF updateTickets
<1>6. StatusesOf(o, ticketStatus') = {to}
  BY <1>4, <1>5 DEF StatusesOf
<1>7. LedInv' /\ KeepsCaughtUp
  BY <1>1, <1>2, <1>3, DerivedStep
<1>8. /\ to \in Terminal => c = to
      /\ to \notin Terminal => TicketRank(to) = Rank(c) /\ c \notin Terminal
      /\ to # "cancelled" => Rank(c) = TicketRank(to)
      /\ TicketRank(to) \in Nat /\ Rank(orderStatus[o]) \in Nat
  BY DEF deriveOrderStatus, Terminal, TicketStatus, TicketRank, Rank
<1>9. IF shouldAdvanceOrder(orderStatus[o], c) THEN updateOrder(o, c) ELSE UNCHANGED orderVars
  BY <1>2, <1>6 DEF advanceDerived
<1>10. PICK u \in L : ticketStatus[u] # to /\ CanTransitionTicket(ticketStatus[u], to)
  BY <1>2
<1>11. ticketStatus[u] \notin Terminal
  BY <1>10 DEF CanTransitionTicket, Terminal
<1>12. orderStatus[o] \notin Terminal
  BY <1>2, <1>10, <1>11 DEF KitchenInv, OrderBacked, Backed, StatusesOf
<1> HIDE DEF L, c
<1>13. CASE shouldAdvanceOrder(orderStatus[o], c)
  <2>1. orderStatus'[o] = c /\ orderVersion'[o] = orderVersion[o] + 1 /\ orderVersion[o] \in Nat
    BY <1>3, <1>9, <1>13 DEF updateOrder, KitchenTypeOK
  <2>2. \A t \in L : Reached(o, t)'
    BY <1>5, <1>8, <2>1 DEF Reached
  <2> QED
    BY <1>4, <1>7, <2>1, <2>2 DEF CaughtUp
<1>14. CASE ~shouldAdvanceOrder(orderStatus[o], c)
  <2>1. UNCHANGED orderVars
    BY <1>9, <1>14
  <2>2. to # "cancelled" /\ Rank(c) <= Rank(orderStatus[o])
    BY <1>8, <1>12, <1>14 DEF shouldAdvanceOrder, Terminal, Rank
  <2>3. ~Reached(o, u)
    BY <1>8, <1>10, <1>11, <2>2 DEF Reached, CanTransitionTicket, TicketRank
  <2>4. PICK v \in L : Reached(o, v)
    BY <1>2 DEF LedInv, Led, L
  <2>5. TicketRank(to) >= Rank(orderStatus[o]) \/ to \in Terminal
    BY <1>2, <1>8, <2>2, <2>4 DEF Reached, CanTransitionTicket, TicketRank, Terminal
  <2>6. \A t \in L : Reached(o, t)'
    BY <1>5, <2>1, <2>5 DEF Reached, orderVars
  <2> QED
    BY <1>4, <1>7, <2>3, <2>6 DEF CaughtUp, L
<1> QED
  BY <1>13, <1>14
-----------------------------------------------------------------------------
(* Order numbers and references *)

ExistingOrders == {o \in Orders : Exists(o)}

\* IdentityUnique with what makes it inductive: finitely many orders, and no number
\* outside them.
IdentityInv ==
  /\ IsFiniteSet(ExistingOrders)
  /\ \A o \in Orders : ~Exists(o) => orderNumber[o] = 0
  /\ IdentityUnique

\* While the numbers are 1..n, the next one is n + 1.
LEMMA NextNumberIsNext ==
  ASSUME KitchenInv, IdentityInv
  PROVE  nextOrderNumber = Cardinality(ExistingOrders) + 1
<1> DEFINE N == {0} \cup {orderNumber[o] : o \in Orders}
           m == CHOOSE k \in N : \A o \in Orders : orderNumber[o] <= k
           n == Cardinality(ExistingOrders)
<1>1. n \in Nat
  BY FS_CardinalityType DEF IdentityInv
<1>2. {orderNumber[o] : o \in ExistingOrders} = 1..n
  BY DEF IdentityInv, IdentityUnique, ExistingOrders
<1>3. m \in N /\ \A o \in Orders : orderNumber[o] <= m
  BY DEF KitchenInv, MaxNumberExists
<1>4. nextOrderNumber = 1 + m
  BY DEF nextOrderNumber
<1> HIDE DEF m, n
<1>5. \A k \in N : k = 0 \/ k \in 1..n
  BY <1>2 DEF IdentityInv, ExistingOrders
<1>6. n > 0 => n <= m
  <2>1. n > 0 => \E o \in Orders : orderNumber[o] = n
    BY <1>1, <1>2 DEF ExistingOrders
  <2> QED
    BY <1>3, <2>1
<1>7. m \in 0..n
  BY <1>1, <1>3, <1>5
<1>8. m = n
  BY <1>1, <1>6, <1>7
<1> QED
  BY <1>1, <1>4, <1>8 DEF n

\* A creation takes the next number and a reference nobody has.
LEMMA CreateIdentity ==
  ASSUME KitchenInv, IdentityInv, NEW o \in Orders, NEW T \in SUBSET Tickets,
         NEW ref \in Refs \cup {None}, CreateOrder(o, T, ref)
  PROVE  IdentityInv'
<1> DEFINE E == ExistingOrders
           n == Cardinality(E)
<1>1. KitchenTypeOK /\ nextOrderNumber = n + 1
  BY NextNumberIsNext DEF KitchenInv
<1> HIDE DEF nextOrderNumber
<1>2. /\ ~Exists(o)
      /\ orderStatus'[o] # None /\ orderNumber'[o] = n + 1 /\ orderRef'[o] = ref
      /\ \A p \in Orders : p # o => /\ orderStatus'[p] = orderStatus[p]
                                    /\ orderNumber'[p] = orderNumber[p]
                                    /\ orderRef'[p] = orderRef[p]
      /\ ref # None => \A p \in Orders : orderRef[p] # ref
  <2>1. "received" # None
    BY NoneAssumption DEF OrderStatus
  <2> QED
    BY <1>1, <2>1 DEF CreateOrder, KitchenTypeOK
<1>3. E' = E \cup {o} /\ o \notin E
  BY <1>2 DEF ExistingOrders, Exists
<1>4. IsFiniteSet(E) /\ n \in Nat
  BY FS_CardinalityType DEF IdentityInv
<1>5. IsFiniteSet(E \cup {o}) /\ Cardinality(E \cup {o}) = n + 1
  BY <1>3, <1>4, FS_AddElement
<1>6. {orderNumber[p] : p \in E} = 1..n
  BY DEF IdentityInv, IdentityUnique, ExistingOrders
<1>7. \A p \in E : p \in Orders /\ p # o
  BY <1>3 DEF ExistingOrders
<1>8. {orderNumber'[p] : p \in E \cup {o}} = 1..(n + 1)
  <2> HIDE DEF E, n
  <2>1. \A p \in E : orderNumber'[p] \in 1..n
    BY <1>2, <1>6, <1>7
  <2>2. \A k \in 1..n : \E p \in E : orderNumber'[p] = k
    BY <1>2, <1>6, <1>7
  <2> QED
    BY <1>2, <1>4, <2>1, <2>2
<1>9. \A p, q \in Orders : p # q /\ orderRef'[p] # None => orderRef'[p] # orderRef'[q]
  BY <1>2 DEF IdentityInv, IdentityUnique
<1>10. \A p \in Orders : ~Exists(p)' => orderNumber'[p] = 0
  BY <1>2 DEF IdentityInv, Exists
<1>11. E' = {p \in Orders : Exists(p)}'
  BY DEF ExistingOrders
<1>12. IdentityUnique'
  BY <1>3, <1>5, <1>8, <1>9, <1>11 DEF IdentityUnique
<1> QED
  BY <1>3, <1>5, <1>10, <1>12 DEF IdentityInv

\* The other commands give no number and no reference.
LEMMA IdentityKept ==
  ASSUME KitchenInv, IdentityInv, UNCHANGED <<orderNumber, orderRef>>,
         \A o \in Orders : Exists(o)' <=> Exists(o)
  PROVE  IdentityInv'
<1>1. ExistingOrders' = ExistingOrders
  BY DEF ExistingOrders
<1>2. ExistingOrders = {p \in Orders : Exists(p)} /\ ExistingOrders' = {p \in Orders : Exists(p)}'
  BY DEF ExistingOrders
<1>3. IdentityUnique'
  BY <1>1, <1>2 DEF IdentityInv, IdentityUnique
<1> QED
  BY <1>1, <1>3 DEF IdentityInv

\* Order numbers of an outlet are 1, 2, 3, ... without a gap or a repetition, although the
\* number is read from the table and not from a counter, and no reference is used twice.
THEOREM IdentitiesAreUnique == KitchenSpec => []IdentityUnique
<1>1. KitchenInit => IdentityInv
  <2>1. KitchenInit => ExistingOrders = {}
    BY DEF KitchenInit, ExistingOrders, Exists
  <2>2. KitchenInit => {orderNumber[o] : o \in {p \in Orders : Exists(p)}} = {}
    BY DEF KitchenInit, Exists
  <2>3. KitchenInit => IdentityUnique
    BY <2>1, <2>2, FS_EmptySet DEF KitchenInit, IdentityUnique, ExistingOrders
  <2> QED
    BY <2>1, <2>3, FS_EmptySet DEF KitchenInit, IdentityInv
<1>2. KitchenInv /\ IdentityInv /\ [KitchenNext]_kitchenVars => IdentityInv'
  <2> SUFFICES ASSUME KitchenInv, IdentityInv, [KitchenNext]_kitchenVars PROVE IdentityInv'
    OBVIOUS
  <2>1. CASE \E o \in Orders, T \in SUBSET Tickets, ref \in Refs \cup {None} : CreateOrder(o, T, ref)
    BY <2>1, CreateIdentity
  <2>2. ASSUME NEW o \in Orders, Exists(o), NEW s \in OrderStatus, updateOrder(o, s)
        PROVE  UNCHANGED <<orderNumber, orderRef>> /\ \A p \in Orders : Exists(p)' <=> Exists(p)
    BY <2>2, NoneAssumption DEF updateOrder, Exists, KitchenInv, KitchenTypeOK
  <2>3. ASSUME NEW o \in Orders, NEW to \in OrderStatus, NEW ver, TransitionOrder(o, to, ver)
        PROVE  IdentityInv'
    BY <2>2, <2>3, IdentityKept DEF TransitionOrder
  <2>4. ASSUME NEW o \in Orders, Exists(o), KitchenInv', UNCHANGED ticketOrder, advanceDerived(o)
        PROVE  IdentityInv'
    <3>1. CASE UNCHANGED orderVars
      BY <3>1, IdentityKept DEF orderVars, Exists
    <3>2. CASE updateOrder(o, deriveOrderStatus(StatusesOf(o, ticketStatus')))
      <4>1. listTicketsForOrder(o)' = listTicketsForOrder(o) /\ listTicketsForOrder(o) # {} /\ o # None
        BY <2>4, NoneAssumption DEF listTicketsForOrder, KitchenInv, RowsComplete
      <4>2. \A t \in listTicketsForOrder(o)' : ticketStatus'[t] \in TicketStatus
        BY <2>4, <4>1 DEF KitchenInv, KitchenTypeOK, RowsComplete, listTicketsForOrder
      <4>3. StatusesOf(o, ticketStatus') \in SUBSET TicketStatus /\ StatusesOf(o, ticketStatus') # {}
        BY <4>1, <4>2 DEF StatusesOf
      <4>4. deriveOrderStatus(StatusesOf(o, ticketStatus')) \in OrderStatus
        BY <4>3, DeriveFacts
      <4> QED
        BY <2>2, <2>4, <3>2, <4>4, IdentityKept
    <3> QED
      BY <2>4, <3>1, <3>2 DEF advanceDerived
  <2>5. ASSUME NEW t \in Tickets, NEW to \in TicketStatus, NEW ver, NEW p, TransitionTicket(t, to, ver, p)
        PROVE  IdentityInv'
    <3>1. ticketOrder[t] \in Orders /\ Exists(ticketOrder[t]) /\ KitchenInv'
      BY <2>5, TransitionTicketStep DEF TransitionTicket, KitchenInv, KitchenTypeOK, RowsComplete
    <3> QED
      BY <2>4, <2>5, <3>1 DEF TransitionTicket, updateTickets
  <2>6. ASSUME NEW o \in Orders, NEW to \in TicketStatus, NEW ver, TransitionOrderTickets(o, to, ver)
        PROVE  IdentityInv'
    <3>1. KitchenInv'
      BY <2>6, TransitionOrderTicketsStep
    <3> QED
      BY <2>4, <2>6, <3>1 DEF TransitionOrderTickets, updateTickets
  <2>7. CASE UNCHANGED kitchenVars
    BY <2>7, IdentityKept DEF kitchenVars, Exists
  <2> QED
    BY <2>1, <2>3, <2>5, <2>6, <2>7 DEF KitchenNext
<1>3. IdentityInv => IdentityUnique
  BY DEF IdentityInv
<1> QED
  BY <1>1, <1>2, <1>3, KitchenInvariant, PTL DEF KitchenSpec
-----------------------------------------------------------------------------
(* Versions and ranks *)

\* The version of an open order tells its status: no command makes an open order skip one.
RankInv ==
  \A o \in Orders : Exists(o) /\ orderStatus[o] \notin Terminal =>
    orderVersion[o] = Rank(orderStatus[o]) + 1

\* How far the most advanced open ticket takes the derived status.
LEMMA DerivedAtLeast ==
  ASSUME NEW S \in SUBSET TicketStatus, ~(S \subseteq Terminal)
  PROVE  /\ S \cap {"preparing", "ready", "completed"} # {} => Rank(deriveOrderStatus(S)) >= 2
         /\ "fired" \in S => Rank(deriveOrderStatus(S)) >= 1
         /\ deriveOrderStatus(S) # "cancelled"
<1>1. S # {} /\ ~(S \subseteq {"cancelled"})
  BY DEF Terminal
<1> QED
  BY <1>1 DEF deriveOrderStatus, Rank, Terminal

\* A legal step of tickets to one status raises the derived status of an open order by one.
LEMMA DerivedByOne ==
  ASSUME NEW s \in OrderStatus, s \notin Terminal, NEW to \in TicketStatus,
         NEW S \in SUBSET TicketStatus, NEW N \in SUBSET TicketStatus, N # {},
         Backed(s, S), \E x \in S : CanTransitionTicket(x, to), \A y \in N : y \in S \/ y = to,
         shouldAdvanceOrder(s, deriveOrderStatus(N)), deriveOrderStatus(N) \notin Terminal
  PROVE  Rank(deriveOrderStatus(N)) = Rank(s) + 1
<1> DEFINE c == deriveOrderStatus(N)
           d == deriveOrderStatus(S)
<1>1. ~(S \subseteq Terminal) /\ ~shouldAdvanceOrder(s, d)
  BY DEF Backed, Terminal
<1>2. /\ S \cap {"preparing", "ready", "completed"} # {} => Rank(d) >= 2
      /\ "fired" \in S => Rank(d) >= 1
      /\ d # "cancelled"
  BY <1>1, DerivedAtLeast
<1>3. Rank(d) <= Rank(s) /\ Rank(c) > Rank(s) /\ Rank(s) \in 0..3 /\ Rank(d) \in Nat
  BY <1>1, <1>2 DEF shouldAdvanceOrder, Rank, OrderStatus, Terminal
<1>4. c \in {"received", "accepted", "preparing", "ready"}
  BY DEF deriveOrderStatus, Terminal
<1>5. CASE c = "accepted" \/ c = "received"
  BY <1>3, <1>5 DEF Rank
<1>6. CASE c = "preparing"
  <2>1. PICK y \in N : y \in {"preparing", "ready", "completed"}
    BY <1>6 DEF deriveOrderStatus
  <2>2. CASE y \in S
    BY <1>2, <1>3, <1>6, <2>1, <2>2 DEF Rank
  <2>3. CASE y = to
    <3>1. S \cap {"fired", "preparing", "ready", "completed"} # {}
      BY <2>1, <2>3 DEF CanTransitionTicket
    <3> QED
      BY <1>2, <1>3, <1>6, <3>1 DEF Rank
  <2> QED
    BY <2>2, <2>3
<1>7. CASE c = "ready"
  <2>1. "ready" \in N
    BY <1>7 DEF deriveOrderStatus, Terminal
  <2>2. S \cap {"preparing", "ready", "completed"} # {}
    BY <2>1 DEF CanTransitionTicket
  <2> QED
    BY <1>2, <1>3, <1>7, <2>2 DEF Rank
<1> QED
  BY <1>4, <1>5, <1>6, <1>7

\* What moves tickets of one order keeps the version of its row at its rank.
LEMMA DerivedRanked ==
  ASSUME KitchenInv, RankInv, NEW o \in Orders, Exists(o), NEW to \in TicketStatus,
         NEW T \in SUBSET listTicketsForOrder(o), NEW next, \A t \in T : next[t] = to,
         \A t \in T : ticketStatus[t] # to => CanTransitionTicket(ticketStatus[t], to),
         \E t \in T : ticketStatus[t] # to,
         updateTickets(T, next), advanceDerived(o)
  PROVE  RankInv' /\ orderStatus[o] \notin Terminal
<1> DEFINE S == StatusesOf(o, ticketStatus)
           N == StatusesOf(o, ticketStatus')
           c == deriveOrderStatus(N)
<1>1. KitchenTypeOK /\ T \subseteq Tickets /\ UNCHANGED ticketOrder
  BY DEF KitchenInv, listTicketsForOrder, updateTickets
<1>2. S \in SUBSET TicketStatus /\ S # {}
  BY StatusesFacts DEF KitchenInv
<1>3. Backed(orderStatus[o], S)
  BY DEF KitchenInv, OrderBacked
<1>4. \A t \in listTicketsForOrder(o) : ticketStatus'[t] = to \/ ticketStatus'[t] = ticketStatus[t]
  BY DEF updateTickets, listTicketsForOrder
<1>5. PICK u \in T : ticketStatus[u] # to /\ CanTransitionTicket(ticketStatus[u], to)
  OBVIOUS
<1>6. ticketStatus[u] \in S /\ ticketStatus[u] \notin Terminal
  BY <1>5 DEF StatusesOf, CanTransitionTicket, Terminal
<1>7. orderStatus[o] \notin Terminal /\ orderStatus[o] \in OrderStatus
  BY <1>1, <1>3, <1>6 DEF Backed, KitchenTypeOK, Exists
<1>8. N \in SUBSET TicketStatus /\ N # {} /\ \A y \in N : y \in S \/ y = to
  BY <1>2, <1>4 DEF StatusesOf
<1>9. orderVersion[o] = Rank(orderStatus[o]) + 1
  BY <1>7 DEF RankInv
<1>10. IF shouldAdvanceOrder(orderStatus[o], c) THEN updateOrder(o, c) ELSE UNCHANGED orderVars
  BY DEF advanceDerived
<1> HIDE DEF S, N, c
<1>11. CASE shouldAdvanceOrder(orderStatus[o], c)
  <2>1. /\ orderStatus'[o] = c /\ orderVersion'[o] = orderVersion[o] + 1
        /\ \A p \in Orders : p # o => orderStatus'[p] = orderStatus[p] /\ orderVersion'[p] = orderVersion[p]
    BY <1>1, <1>10, <1>11 DEF updateOrder, KitchenTypeOK
  <2>2. c \notin Terminal => Rank(c) = Rank(orderStatus[o]) + 1
    BY <1>2, <1>3, <1>5, <1>6, <1>7, <1>8, <1>11, DerivedByOne DEF c
  <2> QED
    BY <1>7, <1>9, <2>1, <2>2 DEF RankInv, Exists
<1>12. CASE ~shouldAdvanceOrder(orderStatus[o], c)
  BY <1>7, <1>10, <1>12 DEF RankInv, Exists, orderVars
<1> QED
  BY <1>11, <1>12

\* A new order is at version 1 and rank 0.
LEMMA CreateRanked ==
  ASSUME KitchenInv, RankInv, NEW o \in Orders, NEW T \in SUBSET Tickets,
         NEW ref \in Refs \cup {None}, CreateOrder(o, T, ref)
  PROVE  RankInv'
BY DEF KitchenInv, KitchenTypeOK, CreateOrder, RankInv, Exists, Rank

\* An order command takes the next version and the next rank, or cancels.
LEMMA OrderRanked ==
  ASSUME KitchenInv, RankInv, NEW o \in Orders, NEW to \in OrderStatus, NEW ver,
         TransitionOrder(o, to, ver)
  PROVE  /\ RankInv' /\ orderStatus[o] \notin Terminal /\ orderStatus'[o] = to
         /\ to = "cancelled" \/ orderVersion'[o] = Rank(to) + 1
<1>1. KitchenTypeOK /\ Exists(o) /\ CanTransitionOrder(orderStatus[o], to) /\ updateOrder(o, to)
  BY DEF TransitionOrder, KitchenInv
<1>2. /\ orderStatus'[o] = to /\ orderVersion'[o] = orderVersion[o] + 1
      /\ \A p \in Orders : p # o => orderStatus'[p] = orderStatus[p] /\ orderVersion'[p] = orderVersion[p]
  BY <1>1, UpdateOrderFacts
<1>3. /\ orderStatus[o] \notin Terminal
      /\ to = "cancelled" \/ Rank(to) = Rank(orderStatus[o]) + 1
  BY <1>1 DEF CanTransitionOrder, Terminal, Rank
<1>4. orderVersion[o] = Rank(orderStatus[o]) + 1
  BY <1>1, <1>3 DEF RankInv
<1>5. to = "cancelled" \/ orderVersion'[o] = Rank(to) + 1
  BY <1>2, <1>3, <1>4
<1>6. RankInv'
  BY <1>1, <1>2, <1>5 DEF RankInv, Exists, Terminal
<1> QED
  BY <1>2, <1>3, <1>5, <1>6

\* A ticket command leaves the row of its open order at its rank.
LEMMA TicketRanked ==
  ASSUME KitchenInv, RankInv, NEW t \in Tickets, NEW to \in TicketStatus, NEW ver, NEW parent,
         TransitionTicket(t, to, ver, parent)
  PROVE  RankInv'
<1> DEFINE next == [u \in {t} |-> to]
<1>1. PICK o \in Orders : o = ticketOrder[t] /\ Exists(o)
  BY DEF KitchenInv, KitchenTypeOK, RowsComplete, TransitionTicket
<1>2. {t} \in SUBSET listTicketsForOrder(o)
  BY <1>1 DEF listTicketsForOrder
<1>3. CanTransitionTicket(ticketStatus[t], to) /\ updateTickets({t}, next) /\ advanceDerived(o)
  BY <1>1 DEF TransitionTicket
<1>4. ticketStatus[t] # to /\ \A u \in {t} : next[u] = to
  BY <1>3 DEF CanTransitionTicket, Terminal
<1> HIDE DEF next
<1> QED
  BY <1>1, <1>2, <1>3, <1>4, DerivedRanked

\* A whole-order ticket command is at the version that its ticket status stands for.
LEMMA AllTicketsRanked ==
  ASSUME KitchenInv, LedInv, RankInv, NEW o \in Orders, NEW to \in TicketStatus, NEW ver,
         TransitionOrderTickets(o, to, ver)
  PROVE  /\ RankInv' /\ orderStatus[o] \notin Terminal
         /\ to = "cancelled" \/ orderVersion'[o] = TicketRank(to) + 1
         /\ IF to \in Terminal THEN orderStatus'[o] = to ELSE orderStatus'[o] \notin Terminal
<1> DEFINE L == listTicketsForOrder(o)
           S == StatusesOf(o, ticketStatus)
           next == [t \in L |-> to]
           c == deriveOrderStatus({to})
<1>1. /\ Exists(o) /\ L \in SUBSET listTicketsForOrder(o)
      /\ \A t \in L : ticketStatus[t] # to => CanTransitionTicket(ticketStatus[t], to)
      /\ \E t \in L : ticketStatus[t] # to
      /\ updateTickets(L, next) /\ advanceDerived(o) /\ \A t \in L : next[t] = to
  BY DEF TransitionOrderTickets
<1>2. RankInv' /\ orderStatus[o] \notin Terminal
  <2> HIDE DEF L, next
  <2> QED
    BY <1>1, DerivedRanked
<1>3. orderVersion[o] = Rank(orderStatus[o]) + 1 /\ orderStatus[o] \in OrderStatus
  BY <1>1, <1>2 DEF RankInv, KitchenInv, KitchenTypeOK, Exists
<1>4. S \in SUBSET TicketStatus /\ Backed(orderStatus[o], S)
  BY <1>1, StatusesFacts DEF KitchenInv, OrderBacked
<1>5. L \subseteq Tickets /\ L # {} /\ UNCHANGED ticketOrder /\ \A t \in L : ticketStatus'[t] = to
  BY <1>1 DEF listTicketsForOrder, updateTickets
<1>6. StatusesOf(o, ticketStatus') = {to}
  BY <1>5 DEF StatusesOf
<1>7. IF shouldAdvanceOrder(orderStatus[o], c) THEN updateOrder(o, c) ELSE UNCHANGED orderVars
  BY <1>1, <1>6 DEF advanceDerived
<1>8. /\ to \in Terminal => c = to
      /\ to # "cancelled" => Rank(c) = TicketRank(to) /\ c # "cancelled"
      /\ to \notin Terminal => c \notin Terminal
      /\ TicketRank(to) \in Nat /\ Rank(orderStatus[o]) \in 0..3
  <2>1. Rank(orderStatus[o]) \in 0..3
    BY <1>2, <1>3 DEF Terminal, Rank, OrderStatus
  <2>2. CASE to \in Terminal
    BY <2>1, <2>2 DEF deriveOrderStatus, Terminal, TicketRank, Rank
  <2>3. CASE to \in {"queued", "fired"}
    BY <2>1, <2>3 DEF deriveOrderStatus, Terminal, TicketRank, Rank
  <2>4. CASE to \in {"preparing", "ready"}
    BY <2>1, <2>4 DEF deriveOrderStatus, Terminal, TicketRank, Rank
  <2> QED
    BY <2>2, <2>3, <2>4 DEF Terminal, TicketStatus
<1>9. PICK u \in L : ticketStatus[u] # to /\ CanTransitionTicket(ticketStatus[u], to)
  BY <1>1
<1>10. \A x \in S : x = to \/ CanTransitionTicket(x, to)
  BY <1>1 DEF StatusesOf
<1>11. ticketStatus[u] \in S
  BY DEF StatusesOf
<1> HIDE DEF L, S, c, next
<1>12. CASE shouldAdvanceOrder(orderStatus[o], c)
  <2>1. orderStatus'[o] = c /\ orderVersion'[o] = orderVersion[o] + 1
    BY <1>7, <1>12 DEF updateOrder, KitchenInv, KitchenTypeOK
  <2>2. CASE to \notin Terminal
    <3>1. Rank(c) = Rank(orderStatus[o]) + 1
      <4>1. /\ c = deriveOrderStatus({to}) /\ {to} \in SUBSET TicketStatus /\ {to} # {}
            /\ \A y \in {to} : y \in S \/ y = to
        BY DEF c
      <4>2. \E x \in S : CanTransitionTicket(x, to)
        BY <1>9, <1>11
      <4> QED
        BY <1>2, <1>3, <1>4, <1>8, <1>12, <2>2, <4>1, <4>2, DerivedByOne
    <3> QED
      BY <1>2, <1>3, <1>8, <2>1, <2>2, <3>1 DEF Terminal
  <2>3. CASE to = "completed"
    <3>1. S \subseteq {"ready", "completed"} /\ "ready" \in S
      BY <1>9, <1>10, <1>11, <2>3 DEF CanTransitionTicket
    <3>2. deriveOrderStatus(S) = "ready"
      BY <3>1 DEF deriveOrderStatus, Terminal
    <3>3. orderStatus[o] = "ready"
      BY <1>2, <1>3, <1>4, <3>2 DEF Backed, shouldAdvanceOrder, Rank, OrderStatus, Terminal
    <3> QED
      BY <1>2, <1>3, <1>8, <2>1, <2>3, <3>3 DEF Rank, TicketRank, Terminal
  <2>4. CASE to = "cancelled"
    BY <1>2, <1>8, <2>1, <2>4 DEF Terminal
  <2> QED
    BY <2>2, <2>3, <2>4 DEF Terminal
<1>13. CASE ~shouldAdvanceOrder(orderStatus[o], c)
  <2>1. UNCHANGED orderVars
    BY <1>7, <1>13
  <2>2. to # "cancelled" /\ Rank(c) <= Rank(orderStatus[o])
    BY <1>2, <1>8, <1>13 DEF shouldAdvanceOrder, Terminal, Rank
  <2>3. to \notin Terminal
    BY <1>8, <2>2 DEF Terminal, TicketRank
  <2>4. CaughtUp(o)'
    BY AllTicketsCatchUp
  <2>5. listTicketsForOrder(o)' = L
    BY <1>5 DEF L, listTicketsForOrder
  <2>6. Reached(o, u)'
    BY <2>4, <2>5 DEF CaughtUp
  <2>7. TicketRank(to) >= Rank(orderStatus[o])
    BY <1>5, <2>1, <2>3, <2>6 DEF Reached, orderVars
  <2> QED
    BY <1>2, <1>3, <1>8, <2>1, <2>2, <2>3, <2>7 DEF orderVars
<1> QED
  BY <1>12, <1>13

\* What every state of the projections satisfies, reached by commands or restored.
RowsInv == KitchenInv /\ VersionInv /\ LedInv /\ RankInv

\* Every command keeps it.
LEMMA RowsStep ==
  ASSUME RowsInv, KitchenNext
  PROVE  RowsInv'
<1>1. KitchenInv' /\ AllAdvance
  BY NextStep DEF RowsInv
<1>2. VersionInv'
  BY <1>1, VersionStep DEF RowsInv
<1>3. LedInv'
  BY CreateCatchesUp, OrderCatchesUp, TicketCatchesUp, AllTicketsCatchUp DEF RowsInv, KitchenNext
<1>4. RankInv'
  BY CreateRanked, OrderRanked, TicketRanked, AllTicketsRanked DEF RowsInv, KitchenNext
<1> QED
  BY <1>1, <1>2, <1>3, <1>4 DEF RowsInv
=============================================================================
