------------------------------ MODULE DailyOps ------------------------------
(***************************************************************************)
(* Daily operations in PostgreSQL: suppliers, purchase orders and goods    *)
(* receipts, which feed the inventory ledger, temperature logs,            *)
(* checklists, staff, shifts and tasks (store/postgres_daily_operations.go *)
(* behind api/daily_operations.go, tables of migrations/000010).  Rows are *)
(* locked before they are changed, so each transaction is a step.          *)
(***************************************************************************)
EXTENDS Stock

CONSTANTS
  SupplierIds, PurchaseIds, ChecklistIds,
  ChecklistItems,  \* item -> required
  StaffIds, RosterIds, TaskIds

\* The rows of purchase_orders, with their lines by ingredient.
PurchaseLine == [unit : UnitIds, ordered : Nat \ {0}, cost : Nat, received : Nat]
PurchaseOrder == [site : Sites, supplier : SupplierIds,
                  status : {"draft", "submitted", "partially_received", "received", "cancelled"}, version : Nat,
                  lines : UNION {[S -> PurchaseLine] : S \in SUBSET IngredientIds}]

\* An id names one row in one table.
ASSUME PurchaseAssumption ==
  /\ None \notin PurchaseOrder /\ None \notin PurchaseIds
  /\ PurchaseIds \cap (TransferIds \cup BatchIds) = {}

VARIABLES
  suppliers,       \* the suppliers there are
  purchases,       \* purchase_orders with their lines, by ingredient
  temperatures,    \* temperature_logs
  checklists, staff, roster, tasks

dailyVars == <<suppliers, purchases, temperatures, checklists, staff, roster, tasks>>
-----------------------------------------------------------------------------
(* Purchasing *)

CreateSupplier(s) ==
  /\ s \notin suppliers
  /\ suppliers' = suppliers \cup {s}
  /\ Audited /\ UNCHANGED <<ledger, purchases, temperatures, checklists, staff, roster, tasks>>

handleCreateSupplier(s) == CreateSupplier(s)

\* lines is a function from ingredients to unit, quantity and unit cost.
validPurchaseOrder(lines) ==
  DOMAIN lines # {} /\ \A i \in DOMAIN lines : lines[i].ordered > 0 /\ lines[i].cost >= 0

CreatePurchaseOrder(p, v) ==
  /\ purchases[p] = None /\ v.supplier \in suppliers
  /\ \A i \in DOMAIN v.lines : Exists(ingredients, i) /\ Exists(units, v.lines[i].unit)
  /\ purchases' = [purchases EXCEPT ![p] = v]
  /\ Audited /\ UNCHANGED <<ledger, suppliers, temperatures, checklists, staff, roster, tasks>>

handleCreatePO(site, p, supplier, lines) ==
  /\ validPurchaseOrder(lines)
  /\ CreatePurchaseOrder(p, [site |-> site, supplier |-> supplier, status |-> "draft", version |-> 1,
       lines |-> [i \in DOMAIN lines |-> [unit |-> lines[i].unit, ordered |-> lines[i].ordered,
                                          cost |-> lines[i].cost, received |-> 0]]])

TransitionPurchaseOrder(site, p, status, expected) ==
  /\ Exists(purchases, p) /\ purchases[p].site = site /\ purchases[p].version = expected
  /\ <<purchases[p].status, status>> \in
       {<<"draft", "submitted">>, <<"draft", "cancelled">>, <<"submitted", "cancelled">>}
  /\ purchases' = [purchases EXCEPT ![p].status = status, ![p].version = expected + 1]
  /\ Audited /\ UNCHANGED <<ledger, suppliers, temperatures, checklists, staff, roster, tasks>>

handlePOTransition(site, p, status, expected) ==
  status \in {"submitted", "cancelled"} /\ TransitionPurchaseOrder(site, p, status, expected)

validReceipt(lines) == DOMAIN lines # {} /\ \A i \in DOMAIN lines : lines[i].quantity > 0

\* An order's lines with the quantities of a receipt added.
ReceivedLines(ordered, lines) ==
  [i \in DOMAIN ordered |->
     IF i \in DOMAIN lines THEN [ordered[i] EXCEPT !.received = ordered[i].received + lines[i].quantity] ELSE ordered[i]]

\* Faulty: only the lines of this receipt are asked whether anything remains.
ReceivePurchaseOrderThisReceipt(site, p, expected, lines) ==
  LET v == purchases[p]
      after == ReceivedLines(v.lines, lines)
  IN
  /\ Exists(purchases, p) /\ v.site = site /\ v.version = expected
  /\ v.status \in {"submitted", "partially_received"}
  /\ \A i \in DOMAIN lines : /\ i \in DOMAIN v.lines /\ v.lines[i].unit = lines[i].unit
                             /\ after[i].received <= v.lines[i].ordered
                             /\ Compatible(lines[i].unit, ingredients[i])
  /\ ledger' = ledger \cup {Event(site, i, "receipt", lines[i].quantity * Factor(lines[i].unit),
                                  lines[i].quantity * v.lines[i].cost, p, None) : i \in DOMAIN lines}
  /\ purchases' = [purchases EXCEPT ![p].lines = after, ![p].version = expected + 1,
       ![p].status = IF \E i \in DOMAIN lines : after[i].received < after[i].ordered
                     THEN "partially_received" ELSE "received"]
  /\ Audited /\ UNCHANGED <<suppliers, temperatures, checklists, staff, roster, tasks>>

\* A receipt books its lines at the order's unit cost, never more than ordered.
ReceivePurchaseOrder(site, p, expected, lines) ==
  LET v == purchases[p]
      after == ReceivedLines(v.lines, lines)
  IN
  /\ Exists(purchases, p) /\ v.site = site /\ v.version = expected
  /\ v.status \in {"submitted", "partially_received"}
  /\ \A i \in DOMAIN lines : /\ i \in DOMAIN v.lines /\ v.lines[i].unit = lines[i].unit
                             /\ after[i].received <= v.lines[i].ordered
                             /\ Compatible(lines[i].unit, ingredients[i])
  /\ ledger' = ledger \cup {Event(site, i, "receipt", lines[i].quantity * Factor(lines[i].unit),
                                  lines[i].quantity * v.lines[i].cost, p, None) : i \in DOMAIN lines}
  /\ purchases' = [purchases EXCEPT ![p].lines = after, ![p].version = expected + 1,
       ![p].status = IF \E i \in DOMAIN after : after[i].received < after[i].ordered
                     THEN "partially_received" ELSE "received"]
  /\ Audited /\ UNCHANGED <<suppliers, temperatures, checklists, staff, roster, tasks>>

handleReceivePO(site, p, expected, lines) ==
  validReceipt(lines) /\ ReceivePurchaseOrder(site, p, expected, lines)
-----------------------------------------------------------------------------
(* Food safety *)

Compliant(v) == v.min <= v.celsius /\ v.celsius <= v.max

validTemperature(v) ==
  v.min <= v.max /\ v.celsius \in -100..300 /\ (Compliant(v) \/ v.corrective)

RecordTemperature(v) ==
  /\ temperatures' = temperatures \cup {v}
  /\ Audited /\ UNCHANGED <<ledger, suppliers, purchases, checklists, staff, roster, tasks>>

handleRecordTemperature(v) ==
  validTemperature(v) /\ RecordTemperature([compliant |-> Compliant(v), corrective |-> v.corrective])

CreateChecklist(c, v) ==
  /\ checklists[c] = None
  /\ checklists' = [checklists EXCEPT ![c] = v]
  /\ Audited /\ UNCHANGED <<ledger, suppliers, purchases, temperatures, staff, roster, tasks>>

validChecklist(type, items) == type \in {"opening", "closing", "food_safety"} /\ items # {}

handleCreateChecklist(c, type, items) ==
  /\ validChecklist(type, items)
  /\ CreateChecklist(c, [status |-> "open", version |-> 1, open |-> items, done |-> {}])

\* A list is complete when its required items are; the others stay undone.
CompleteChecklistItem(c, item, expected) ==
  /\ Exists(checklists, c) /\ checklists[c].version = expected /\ checklists[c].status = "open"
  /\ item \in checklists[c].open
  /\ LET open == checklists[c].open \ {item} IN
     checklists' = [checklists EXCEPT ![c] =
       [status |-> IF \E i \in open : ChecklistItems[i] THEN "open" ELSE "completed",
        version |-> expected + 1, open |-> open, done |-> checklists[c].done \cup {item}]]
  /\ Audited /\ UNCHANGED <<ledger, suppliers, purchases, temperatures, staff, roster, tasks>>

handleCompleteChecklistItem(c, item, expected) == CompleteChecklistItem(c, item, expected)
-----------------------------------------------------------------------------
(* People *)

CreateStaffMember(m) ==
  /\ m \notin staff
  /\ staff' = staff \cup {m}
  /\ Audited /\ UNCHANGED <<ledger, suppliers, purchases, temperatures, checklists, roster, tasks>>

handleCreateStaff(m) == CreateStaffMember(m)

CreateShift(s, v) ==
  /\ roster[s] = None /\ v.staff \in staff
  /\ roster' = [roster EXCEPT ![s] = v]
  /\ Audited /\ UNCHANGED <<ledger, suppliers, purchases, temperatures, checklists, staff, tasks>>

handleCreateShift(s, m, starts, ends) ==
  ends > starts /\ CreateShift(s, [staff |-> m, status |-> "scheduled", version |-> 1])

TransitionShift(s, status, expected) ==
  /\ Exists(roster, s) /\ roster[s].version = expected
  /\ <<roster[s].status, status>> \in
       {<<"scheduled", "checked_in">>, <<"checked_in", "completed">>, <<"scheduled", "cancelled">>}
  /\ roster' = [roster EXCEPT ![s].status = status, ![s].version = expected + 1]
  /\ Audited /\ UNCHANGED <<ledger, suppliers, purchases, temperatures, checklists, staff, tasks>>

CreateTask(t, v) ==
  /\ tasks[t] = None /\ (v.staff # None => v.staff \in staff)
  /\ tasks' = [tasks EXCEPT ![t] = v]
  /\ Audited /\ UNCHANGED <<ledger, suppliers, purchases, temperatures, checklists, staff, roster>>

handleCreateTask(t, m, priority) ==
  /\ priority \in {"low", "normal", "high"}
  /\ CreateTask(t, [staff |-> m, status |-> "open", version |-> 1])

TransitionTask(t, status, expected) ==
  /\ Exists(tasks, t) /\ tasks[t].version = expected
  /\ tasks[t].status = "open" /\ status \in {"completed", "cancelled"}
  /\ tasks' = [tasks EXCEPT ![t].status = status, ![t].version = expected + 1]
  /\ Audited /\ UNCHANGED <<ledger, suppliers, purchases, temperatures, checklists, staff, roster>>

simpleDailyTransition(kind, id, status, expected) ==
  \/ kind = "shift" /\ id \in RosterIds /\ TransitionShift(id, status, expected)
  \/ kind = "task" /\ id \in TaskIds /\ TransitionTask(id, status, expected)
-----------------------------------------------------------------------------
DailyInit ==
  /\ suppliers = {} /\ temperatures = {} /\ staff = {}
  /\ purchases = [p \in PurchaseIds |-> None]
  /\ checklists = [c \in ChecklistIds |-> None]
  /\ roster = [s \in RosterIds |-> None]
  /\ tasks = [t \in TaskIds |-> None]

PurchaseNext ==
  \/ \E s \in SupplierIds : handleCreateSupplier(s)
  \/ \E site \in Sites, p \in PurchaseIds, s \in SupplierIds, S \in SUBSET IngredientIds, u \in UnitIds, q \in Quantity :
       handleCreatePO(site, p, s, [i \in S |-> [unit |-> u, ordered |-> q, cost |-> 1]])
  \/ \E site \in Sites, p \in PurchaseIds, status \in {"submitted", "cancelled"}, v \in 1..MaxOps :
       handlePOTransition(site, p, status, v)
  \/ \E site \in Sites, p \in PurchaseIds, v \in 1..MaxOps, S \in SUBSET IngredientIds, u \in UnitIds, q \in Quantity :
       handleReceivePO(site, p, v, [i \in S |-> [unit |-> u, quantity |-> q]])

FloorNext ==
  \/ \E c \in {2, 9}, b \in BOOLEAN : handleRecordTemperature([min |-> 1, max |-> 5, celsius |-> c, corrective |-> b])
  \/ \E c \in ChecklistIds, items \in SUBSET DOMAIN ChecklistItems : handleCreateChecklist(c, "opening", items)
  \/ \E c \in ChecklistIds, i \in DOMAIN ChecklistItems, v \in 1..MaxOps : handleCompleteChecklistItem(c, i, v)
  \/ \E m \in StaffIds : handleCreateStaff(m)
  \/ \E s \in RosterIds, m \in StaffIds : handleCreateShift(s, m, 1, 2)
  \/ \E t \in TaskIds, m \in StaffIds \cup {None} : handleCreateTask(t, m, "normal")
  \/ \E kind \in {"shift", "task"}, id \in RosterIds \cup TaskIds, v \in 1..MaxOps,
        status \in {"checked_in", "completed", "cancelled"} : simpleDailyTransition(kind, id, status, v)

\* The kitchen graph, the stock and the day's work; a movement may refer to a
\* transfer, whether it has to do with it or not.
PantryNext ==
  \/ GraphNext /\ UNCHANGED <<stockVars, dailyVars>>
  \/ (LedgerNext \/ Movement(ManualTypes, UnitIds, TransferIds) \/ TransferNext \/ BatchNext \/ RuleNext)
     /\ UNCHANGED dailyVars
  \/ (PurchaseNext \/ FloorNext) /\ UNCHANGED <<graphVars, counts, transfers, batches, rules>>

PantrySpec ==
  GraphInit /\ StockInit /\ DailyInit /\ audits = 0
    /\ [][PantryNext]_<<audits, graphVars, stockVars, dailyVars>>
-----------------------------------------------------------------------------
(* Properties *)

\* What a purchase order says it received is what its receipts put into the
\* ledger, in base units and at its cost, never more than was ordered; it is
\* received exactly when nothing remains, and one that was cancelled or not
\* yet submitted received nothing (ReceivePurchaseOrder, TransitionPurchaseOrder).
\* Manual movements that name the purchase order as their reference are left out.
ReceiptsMatchOrder ==
  \A p \in PurchaseIds : Exists(purchases, p) =>
    LET v == purchases[p]
        booked(i) == {e \in At(v.site, i) : e.ref = p}
    IN
    /\ \A i \in DOMAIN v.lines :
         /\ SumOf([e \in booked(i) |-> e.quantity]) = v.lines[i].received * Factor(v.lines[i].unit)
         /\ SumOf([e \in booked(i) |-> e.cost]) = v.lines[i].received * v.lines[i].cost
         /\ v.lines[i].received <= v.lines[i].ordered
    /\ (v.status = "received") = (\A i \in DOMAIN v.lines : v.lines[i].received = v.lines[i].ordered)
    /\ v.status \in {"draft", "submitted", "cancelled"} => \A i \in DOMAIN v.lines : v.lines[i].received = 0
=============================================================================
