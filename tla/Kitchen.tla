------------------------------ MODULE Kitchen -------------------------------
(***************************************************************************)
(* The order and ticket projections of the outlet edge and the four        *)
(* commands that change them (services/edge/internal/store/store.go).      *)
(* SQLite runs with one connection, so a command is one atomic             *)
(* transaction; a refused command changes nothing and is a stuttering      *)
(* step.  EdgeStore adds what the same transactions write around the       *)
(* projections: idempotency records, operation log and history.            *)
(***************************************************************************)
EXTENDS KitchenRules, FiniteSets

CONSTANTS
  Orders,      \* order ids clients allocate
  Tickets,     \* kitchen ticket ids, one per order and station
  Refs,        \* external order references
  None         \* absent row or reference

ASSUME NoneAssumption ==
  None \notin Orders \cup Refs \cup OrderStatus \cup TicketStatus

VARIABLES
  orderStatus, orderVersion, orderNumber, orderRef,   \* table orders
  ticketStatus, ticketVersion, ticketOrder            \* table kitchen_tickets

orderVars   == <<orderStatus, orderVersion, orderNumber, orderRef>>
ticketVars  == <<ticketStatus, ticketVersion, ticketOrder>>
kitchenVars == <<orderStatus, orderVersion, orderNumber, orderRef,
                 ticketStatus, ticketVersion, ticketOrder>>

Exists(o)       == orderStatus[o] # None
listTicketsForOrder(o) == {t \in Tickets : ticketOrder[t] = o}

\* The ticket statuses of order o, read from the ticket table given as status.
StatusesOf(o, status) == {status[t] : t \in listTicketsForOrder(o)}
-----------------------------------------------------------------------------
(* Projection updates *)

\* Faulty: the row keeps its version.
updateOrderKeepsVersion(o, s) ==
  /\ orderStatus'  = [orderStatus EXCEPT ![o] = s]
  /\ UNCHANGED <<orderVersion, orderNumber, orderRef>>

\* Row o takes status s and its next version.
updateOrder(o, s) ==
  /\ orderStatus'  = [orderStatus EXCEPT ![o] = s]
  /\ orderVersion' = [orderVersion EXCEPT ![o] = @ + 1]
  /\ UNCHANGED <<orderNumber, orderRef>>

\* The tickets of T take the statuses next[t]; those that already have theirs are left alone.
updateTickets(T, next) ==
  LET changed == {t \in T : next[t] # ticketStatus[t]} IN
  /\ ticketStatus'  = [t \in Tickets |-> IF t \in changed THEN next[t] ELSE ticketStatus[t]]
  /\ ticketVersion' = [t \in Tickets |-> IF t \in changed THEN ticketVersion[t] + 1
                                                          ELSE ticketVersion[t]]
  /\ UNCHANGED ticketOrder

\* After tickets changed: the derived status replaces the order's if it advances it.
advanceDerived(o) ==
  LET candidate == deriveOrderStatus(StatusesOf(o, ticketStatus')) IN
  IF shouldAdvanceOrder(orderStatus[o], candidate)
  THEN updateOrder(o, candidate)
  ELSE UNCHANGED orderVars
-----------------------------------------------------------------------------
(* The four commands *)

\* Faulty: the number is the count of open orders plus one.
nextOrderNumberOfOpen ==
  1 + Cardinality({o \in Orders : Exists(o) /\ orderStatus[o] \notin Terminal})

\* SELECT COALESCE(MAX(order_number), 0) + 1
nextOrderNumber ==
  1 + (CHOOSE n \in {0} \cup {orderNumber[o] : o \in Orders} :
         \A o \in Orders : orderNumber[o] <= n)

CreateOrder(o, T, ref) ==
  /\ T # {}                                   \* NewOrder.Validate: at least one line
  /\ ~Exists(o)
  /\ ref # None => \A p \in Orders : orderRef[p] # ref
  /\ \A t \in T : ticketOrder[t] = None
  /\ orderStatus'   = [orderStatus EXCEPT ![o] = "received"]
  /\ orderVersion'  = [orderVersion EXCEPT ![o] = 1]
  /\ orderNumber'   = [orderNumber EXCEPT ![o] = nextOrderNumber]
  /\ orderRef'      = [orderRef EXCEPT ![o] = ref]
  /\ ticketStatus'  = [t \in Tickets |-> IF t \in T THEN "queued" ELSE ticketStatus[t]]
  /\ ticketVersion' = [t \in Tickets |-> IF t \in T THEN 1 ELSE ticketVersion[t]]
  /\ ticketOrder'   = [t \in Tickets |-> IF t \in T THEN o ELSE ticketOrder[t]]

\* The whole aggregate is validated first: a ticket that must change takes one legal step.
TransitionOrder(o, to, expectedVersion) ==
  LET next == [t \in listTicketsForOrder(o) |-> ticketStatusForOrder(to, ticketStatus[t])] IN
  /\ Exists(o)
  /\ orderVersion[o] = expectedVersion
  /\ CanTransitionOrder(orderStatus[o], to)
  /\ \A t \in listTicketsForOrder(o) :
       next[t] # ticketStatus[t] => CanTransitionTicket(ticketStatus[t], next[t])
  /\ updateOrder(o, to)
  /\ updateTickets(listTicketsForOrder(o), next)

\* Faulty: the derived order status is not recomputed.
TransitionTicketOnly(t, to, expectedVersion, parent) ==
  /\ ticketOrder[t] # None
  /\ ticketVersion[t] = expectedVersion
  /\ CanTransitionTicket(ticketStatus[t], to)
  /\ updateTickets({t}, [u \in {t} |-> to])
  /\ UNCHANGED orderVars

\* parent is the order the client says the ticket belongs to, None on the direct route.
TransitionTicket(t, to, expectedVersion, parent) ==
  /\ ticketOrder[t] # None
  /\ parent # None => parent = ticketOrder[t]
  /\ ticketVersion[t] = expectedVersion
  /\ CanTransitionTicket(ticketStatus[t], to)
  /\ updateTickets({t}, [u \in {t} |-> to])
  /\ advanceDerived(ticketOrder[t])

\* Every ticket is at the wanted status or one legal step away, and at least one moves.
TransitionOrderTickets(o, to, expectedVersion) ==
  /\ Exists(o)
  /\ expectedVersion # 0
  /\ orderVersion[o] = expectedVersion
  /\ \A t \in listTicketsForOrder(o) :
       ticketStatus[t] # to => CanTransitionTicket(ticketStatus[t], to)
  /\ \E t \in listTicketsForOrder(o) : ticketStatus[t] # to
  /\ updateTickets(listTicketsForOrder(o), [t \in listTicketsForOrder(o) |-> to])
  /\ advanceDerived(o)

\* Bound: the expected versions clients send.  VersionsBounded proves that no row passes it.
Versions == 1..5

KitchenInit ==
  /\ orderStatus   = [o \in Orders |-> None]
  /\ orderVersion  = [o \in Orders |-> 0]
  /\ orderNumber   = [o \in Orders |-> 0]
  /\ orderRef      = [o \in Orders |-> None]
  /\ ticketStatus  = [t \in Tickets |-> None]
  /\ ticketVersion = [t \in Tickets |-> 0]
  /\ ticketOrder   = [t \in Tickets |-> None]

KitchenNext ==
  \/ \E o \in Orders, T \in SUBSET Tickets, ref \in Refs \cup {None} : CreateOrder(o, T, ref)
  \/ \E o \in Orders, to \in OrderStatus, ver \in Versions : TransitionOrder(o, to, ver)
  \/ \E t \in Tickets, to \in TicketStatus, ver \in Versions, p \in Orders \cup {None} :
       TransitionTicket(t, to, ver, p)
  \/ \E o \in Orders, to \in TicketStatus, ver \in Versions : TransitionOrderTickets(o, to, ver)

KitchenSpec == KitchenInit /\ [][KitchenNext]_kitchenVars
-----------------------------------------------------------------------------
(* Properties *)

\* Every column of the two tables has its type.
KitchenTypeOK ==
  /\ orderStatus   \in [Orders -> OrderStatus \cup {None}]
  /\ orderVersion  \in [Orders -> Nat]
  /\ orderNumber   \in [Orders -> Nat]
  /\ orderRef      \in [Orders -> Refs \cup {None}]
  /\ ticketStatus  \in [Tickets -> TicketStatus \cup {None}]
  /\ ticketVersion \in [Tickets -> Nat]
  /\ ticketOrder   \in [Tickets -> Orders \cup {None}]

\* Rows are created whole: a ticket belongs to an existing order exactly when it has
\* a status, and every order has a ticket (CreateOrder inserts both in one transaction).
RowsComplete ==
  /\ \A t \in Tickets :
       /\ ticketStatus[t] = None <=> ticketOrder[t] = None
       /\ ticketOrder[t] # None => Exists(ticketOrder[t])
  /\ \A o \in Orders : Exists(o) => listTicketsForOrder(o) # {}

\* An order is finished exactly when all its tickets are: the kitchen never keeps work
\* for a closed order and no order stays open with nothing left to cook.  This is what
\* makes the missing "cancelled" rank of shouldAdvanceOrder unreachable.
TerminalTogether ==
  \A o \in Orders : Exists(o) =>
    (orderStatus[o] \in Terminal <=>
       \A t \in listTicketsForOrder(o) : ticketStatus[t] \in Terminal)

\* What the order row tells the front of house is true of the tickets: "ready" only when
\* no ticket is still cooking, "completed" only when something was served.
StatusBacked ==
  \A o \in Orders :
    /\ orderStatus[o] = "ready" =>
         \A t \in listTicketsForOrder(o) : ticketStatus[t] \in {"ready"} \cup Terminal
    /\ orderStatus[o] = "completed" =>
         \E t \in listTicketsForOrder(o) : ticketStatus[t] = "completed"

\* The order row never lags its tickets: in every state the status derived from the
\* tickets would not advance it (cancelled orders excepted: they rank 0 in the code).
ProjectionCurrent ==
  \A o \in Orders : Exists(o) /\ orderStatus[o] # "cancelled" =>
    ~shouldAdvanceOrder(orderStatus[o], deriveOrderStatus(StatusesOf(o, ticketStatus)))

\* Versions grow only with a status step, and a row has at most four of them:
\* clients' expectedVersion identifies the status they saw.
VersionBound ==
  /\ \A o \in Orders : orderVersion[o] \in {0} \cup Versions
  /\ \A t \in Tickets : ticketVersion[t] \in {0} \cup Versions

\* Order numbers of an outlet are 1, 2, 3, ... and no external reference is used twice.
IdentityUnique ==
  /\ {orderNumber[o] : o \in {p \in Orders : Exists(p)}} =
       1..Cardinality({p \in Orders : Exists(p)})
  /\ \A o, p \in Orders : o # p /\ orderRef[o] # None => orderRef[o] # orderRef[p]

\* services/edge/README.md: "Derived order state never regresses."  A step of an order
\* raises its rank or cancels an open order, and moves its version by exactly one.
OrderAdvances(o) ==
  \/ UNCHANGED <<orderStatus[o], orderVersion[o]>>
  \/ ~Exists(o) /\ orderStatus'[o] = "received" /\ orderVersion'[o] = 1
  \/ /\ Exists(o) /\ orderStatus[o] \notin Terminal
     /\ orderStatus'[o] = "cancelled" \/ Rank(orderStatus'[o]) > Rank(orderStatus[o])
     /\ orderVersion'[o] = orderVersion[o] + 1

\* A ticket takes one legal step at a time, whichever command moves it.
TicketAdvances(t) ==
  \/ UNCHANGED <<ticketStatus[t], ticketVersion[t], ticketOrder[t]>>
  \/ ticketOrder[t] = None /\ ticketStatus'[t] = "queued" /\ ticketVersion'[t] = 1
  \/ /\ ticketOrder[t] # None
     /\ CanTransitionTicket(ticketStatus[t], ticketStatus'[t])
     /\ ticketVersion'[t] = ticketVersion[t] + 1
     /\ UNCHANGED ticketOrder[t]

\* No step of any command reopens, regresses or skips a version of a row.
NeverRegresses ==
  [][(\A o \in Orders : OrderAdvances(o)) /\ (\A t \in Tickets : TicketAdvances(t))]_kitchenVars
=============================================================================
