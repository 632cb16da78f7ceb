------------------------------ MODULE CashDesk ------------------------------
(***************************************************************************)
(* An outlet's front of house in PostgreSQL: dining tables and sessions,   *)
(* cash shifts, tenders and refunds, settlements, POS checkout, kitchen    *)
(* print jobs and pickup tokens (store/postgres_commerce.go and            *)
(* postgres_restaurant_core.go behind api/commerce.go, restaurant_core.go  *)
(* and guest_growth.go, tables of migrations/000011, 000012 and 000015).   *)
(*                                                                         *)
(* Rows are locked before they are changed, so most transactions are one   *)
(* step.  CaptureTender is two: its first statement takes the order's row  *)
(* lock and sums the tenders in the snapshot it had before it waited.      *)
(* Tax and service charge are one amount, and there is one business date.  *)
(***************************************************************************)
EXTENDS AuditTrail

CONSTANTS
  Tables, Sessions, Registers, Shifts,
  Items,           \* menu items
  Catalog,         \* menu version, or None -> item -> price, station, options
  Bills,           \* order ids
  PlacedBills,     \* orders placed before, with their totals
  TenderIds, TokenNames,
  MaxAmount,       \* bound: amounts in minor units
  MaxOpen          \* bound: CaptureTender transactions at once

TenderType == {"cash", "upi"}

\* The rows of dining_tables, dining_sessions, cash_shifts and tenders, and
\* the totals of orders and receipts.
DiningTable == [status : {"available", "occupied", "cleaning", "disabled"}, version : Nat]
DiningSession == [table : Tables, status : {"open", "closed"}, version : Nat]

CashShift == [register : Registers, status : {"open", "closed"}, float : Int, expected : Int,
              count : Int, variance : Int, version : Nat]
Tender == [order : Bills, type : TenderType, shift : Shifts \cup {None}, amount : Nat,
           status : {"captured", "reversed"}, reverses : TenderIds \cup {None}]
Totalled == [total : Int]

ASSUME CashDeskAssumption ==
  /\ None \notin DiningTable \cup DiningSession \cup CashShift \cup Tender \cup Totalled
  /\ MaxAmount \in Nat /\ \A o \in DOMAIN PlacedBills : PlacedBills[o] \in Nat

VARIABLES
  availability,    \* menu_item_availability: item -> available
  tables, sessions,
  shifts, cashEvents,
  bills,           \* orders: id -> total and lines, or None
  tenders, receipts, settlements,
  jobs,            \* kitchen_print_jobs: order, station and number of the ticket's job -> job
  tokens,          \* pickup_tokens, by the token's name
  captures         \* CaptureTender transactions that wait for the order's row

diningVars == <<availability, tables, sessions>>
moneyVars == <<shifts, cashEvents, bills, tenders, receipts, settlements, captures>>
slipVars == <<jobs, tokens>>
cashDeskVars == <<diningVars, moneyVars, slipVars>>
-----------------------------------------------------------------------------
(* Availability, tables and sessions *)

SetMenuAvailability(item, available) ==
  /\ availability' = [availability EXCEPT ![item] = available]
  /\ Audited /\ UNCHANGED <<tables, sessions, moneyVars, slipVars>>

handleSetAvailability(item, available, reason) ==
  /\ ~available => reason # None
  /\ SetMenuAvailability(item, available)

CreateDiningTable(t, v) ==
  /\ tables[t] = None
  /\ tables' = [tables EXCEPT ![t] = v]
  /\ Audited /\ UNCHANGED <<availability, sessions, moneyVars, slipVars>>

handleCreateTable(t) == CreateDiningTable(t, [status |-> "available", version |-> 1])

\* Faulty: any status may follow any other.
TransitionDiningTableAny(t, status, expected) ==
  /\ Exists(tables, t) /\ tables[t].version = expected
  /\ tables' = [tables EXCEPT ![t] = [status |-> status, version |-> expected + 1]]
  /\ Audited /\ UNCHANGED <<availability, sessions, moneyVars, slipVars>>

TransitionDiningTable(t, status, expected) ==
  /\ Exists(tables, t) /\ tables[t].version = expected
  /\ <<tables[t].status, status>> \in
       {<<"cleaning", "available">>, <<"available", "disabled">>, <<"disabled", "available">>}
  /\ tables' = [tables EXCEPT ![t] = [status |-> status, version |-> expected + 1]]
  /\ Audited /\ UNCHANGED <<availability, sessions, moneyVars, slipVars>>

handleTableTransition(t, status, expected) ==
  /\ status \in {"available", "disabled"}
  /\ TransitionDiningTable(t, status, expected)

OpenDiningSession(s, v) ==
  /\ Exists(tables, v.table) /\ tables[v.table].status = "available"
  /\ sessions[s] = None
  /\ \A row \in Rows(sessions) : ~(row.table = v.table /\ row.status = "open")
  /\ tables' = [tables EXCEPT ![v.table].status = "occupied", ![v.table].version = @ + 1]
  /\ sessions' = [sessions EXCEPT ![s] = v]
  /\ Audited /\ UNCHANGED <<availability, moneyVars, slipVars>>

handleOpenSession(s, t) ==
  OpenDiningSession(s, [table |-> t, status |-> "open", version |-> 1])

\* The table goes to cleaning whatever its status is.
CloseDiningSession(s, expected) ==
  /\ Exists(sessions, s) /\ sessions[s].version = expected /\ sessions[s].status = "open"
  /\ sessions' = [sessions EXCEPT ![s].status = "closed", ![s].version = expected + 1]
  /\ LET t == sessions[s].table
     IN tables' = [tables EXCEPT ![t].status = "cleaning", ![t].version = @ + 1]
  /\ Audited /\ UNCHANGED <<availability, moneyVars, slipVars>>

handleCloseSession(s, expected) == CloseDiningSession(s, expected)
-----------------------------------------------------------------------------
(* Cash shifts *)

OpenCashShift(h, v) ==
  /\ shifts[h] = None
  /\ \A row \in Rows(shifts) : ~(row.register = v.register /\ row.status = "open")
  /\ shifts' = [shifts EXCEPT ![h] = v]
  /\ cashEvents' = cashEvents \cup
       {[op |-> audits, tender |-> None, shift |-> h, type |-> "opening_float", amount |-> v.float]}
  /\ Audited
  /\ UNCHANGED <<diningVars, bills, tenders, receipts, settlements, captures, slipVars>>

handleOpenCash(h, register, float) ==
  OpenCashShift(h, [register |-> register, status |-> "open", float |-> float, expected |-> float,
                    count |-> 0, variance |-> 0, version |-> 1])

\* Only the version is compared: a closed shift can be closed again.
CloseCashShift(h, expected, count) ==
  /\ Exists(shifts, h) /\ shifts[h].version = expected
  /\ shifts' = [shifts EXCEPT ![h].status = "closed", ![h].count = count,
                              ![h].variance = count - shifts[h].expected, ![h].version = expected + 1]
  /\ Audited
  /\ UNCHANGED <<diningVars, cashEvents, bills, tenders, receipts, settlements, captures, slipVars>>

handleCloseCash(h, expected, count) == CloseCashShift(h, expected, count)
-----------------------------------------------------------------------------
(* Tenders *)

TendersOf(o, status) == {id \in TenderIds : tenders[id] # None /\ tenders[id].order = o
                                            /\ tenders[id].status = status}
Amounts(ids) == SumOf([id \in ids |-> tenders[id].amount])
Paid(o) == Amounts(TendersOf(o, "captured")) - Amounts(TendersOf(o, "reversed"))

\* A cash movement needs an open shift; other tenders may name any shift.
ShiftAccepts(type, h) ==
  IF type = "cash" THEN Exists(shifts, h) /\ shifts[h].status = "open"
  ELSE h = None \/ Exists(shifts, h)

MoveCash(op, id, type, h, event, amount) ==
  IF type = "cash"
  THEN /\ shifts' = [shifts EXCEPT ![h].expected = @ + amount]
       /\ cashEvents' = cashEvents \cup
            {[op |-> op, tender |-> id, shift |-> h, type |-> event, amount |-> amount]}
  ELSE UNCHANGED <<shifts, cashEvents>>

\* The first statement of CaptureTender: its snapshot of what is paid.
handleCaptureTender(id, o, type, h, amount) ==
  /\ amount >= 1 /\ (type = "cash" => h # None)
  /\ Cardinality(captures) < MaxOpen
  /\ Exists(bills, o) /\ \A c \in captures : c.id # id
  /\ captures' = captures \cup {[id |-> id, order |-> o, type |-> type, shift |-> h,
                                 amount |-> amount, paid |-> Paid(o)]}
  /\ UNCHANGED <<audits, diningVars, shifts, cashEvents, bills, tenders, receipts, settlements, slipVars>>

\* Faulty: the shift is not required to be open.
CaptureTenderAnyShift(c) ==
  /\ c.paid + c.amount <= bills[c.order].total
  /\ tenders[c.id] = None /\ (c.type = "cash" => Exists(shifts, c.shift))
  /\ tenders' = [tenders EXCEPT ![c.id] =
       [order |-> c.order, type |-> c.type, shift |-> c.shift, amount |-> c.amount,
        status |-> "captured", reverses |-> None]]
  /\ MoveCash(audits, c.id, c.type, c.shift, "cash_sale", c.amount)
  /\ captures' = captures \ {c}
  /\ Audited /\ UNCHANGED <<diningVars, bills, receipts, settlements, slipVars>>

\* The row is locked.  The receipt is issued once; ON CONFLICT keeps the first.
CaptureTender(c) ==
  LET total == bills[c.order].total IN
  /\ c.paid + c.amount <= total
  /\ tenders[c.id] = None /\ ShiftAccepts(c.type, c.shift)
  /\ tenders' = [tenders EXCEPT ![c.id] =
       [order |-> c.order, type |-> c.type, shift |-> c.shift, amount |-> c.amount,
        status |-> "captured", reverses |-> None]]
  /\ MoveCash(audits, c.id, c.type, c.shift, "cash_sale", c.amount)
  /\ receipts' = IF c.paid + c.amount >= total /\ receipts[c.order] = None
                 THEN [receipts EXCEPT ![c.order] = [total |-> total]] ELSE receipts
  /\ captures' = captures \ {c}
  /\ Audited /\ UNCHANGED <<diningVars, bills, settlements, slipVars>>

\* CaptureTender refuses and rolls back.
CaptureTenderRefused(c) ==
  /\ \/ c.paid + c.amount > bills[c.order].total
     \/ tenders[c.id] # None
     \/ ~ShiftAccepts(c.type, c.shift)
  /\ captures' = captures \ {c}
  /\ UNCHANGED <<audits, diningVars, shifts, cashEvents, bills, tenders, receipts, settlements, slipVars>>

\* Faulty: earlier refunds of the tender are not counted.
ReverseTenderUncounted(id, original, h, amount) ==
  /\ tenders[id] = None /\ Exists(tenders, original) /\ tenders[original].status = "captured"
  /\ LET v == tenders[original] IN
     /\ amount <= v.amount
     /\ ShiftAccepts(v.type, h)
     /\ tenders' = [tenders EXCEPT ![id] =
          [order |-> v.order, type |-> v.type, shift |-> h, amount |-> amount,
           status |-> "reversed", reverses |-> original]]
     /\ MoveCash(audits, id, v.type, h, "cash_refund", -amount)
  /\ Audited /\ UNCHANGED <<diningVars, bills, receipts, settlements, captures, slipVars>>

\* The order's row is locked before the refunds are summed.
ReverseTender(id, original, h, amount) ==
  /\ tenders[id] = None /\ Exists(tenders, original) /\ tenders[original].status = "captured"
  /\ LET v == tenders[original]
         refunds == {j \in TendersOf(v.order, "reversed") : tenders[j].reverses = original}
     IN
     /\ Amounts(refunds) + amount <= v.amount
     /\ ShiftAccepts(v.type, h)
     /\ tenders' = [tenders EXCEPT ![id] =
          [order |-> v.order, type |-> v.type, shift |-> h, amount |-> amount,
           status |-> "reversed", reverses |-> original]]
     /\ MoveCash(audits, id, v.type, h, "cash_refund", -amount)
  /\ Audited /\ UNCHANGED <<diningVars, bills, receipts, settlements, captures, slipVars>>

handleReverseTender(id, original, h, amount) ==
  amount >= 1 /\ ReverseTender(id, original, h, amount)

\* A tender type is settled once; a second run keeps the first row.
GenerateSettlements ==
  /\ settlements' = [type \in TenderType |->
       LET of(status) == {id \in TenderIds : tenders[id] # None /\ tenders[id].type = type
                                             /\ tenders[id].status = status}
       IN IF settlements[type] # None \/ of("captured") \cup of("reversed") = {} THEN settlements[type]
          ELSE [gross |-> Amounts(of("captured")), reversed |-> Amounts(of("reversed"))]]
  /\ Audited
  /\ UNCHANGED <<diningVars, shifts, cashEvents, bills, tenders, receipts, captures, slipVars>>

handleSettle == GenerateSettlements
-----------------------------------------------------------------------------
(* Checkout: the order, its tickets, tenders and receipt in a transaction *)

\* What a line's item costs and offers; without a version it has no modifiers.
checkoutCatalog(version, item) ==
  IF version = None THEN [Catalog[None][item] EXCEPT !.options = {}] ELSE Catalog[version][item]

\* The lines of a checkout are priced from the catalog, never by the client.
UnitPrice(version, line) ==
  LET item == checkoutCatalog(version, line.item)
  IN item.price + SumOf([x \in {y \in item.options : y.id \in line.options} |-> x.delta])

LineSellable(version, line) ==
  LET item == checkoutCatalog(version, line.item)
      selected == {x \in item.options : x.id \in line.options}
  IN
  /\ item.active /\ item.station # None
  /\ availability[line.item]
  /\ line.options \subseteq {x.id : x \in {y \in item.options : y.active}}
  /\ \A x \in item.options :
       Cardinality({y \in selected : y.group = x.group}) \in x.min..x.max
  /\ UnitPrice(version, line) >= 0

validCheckout(lines, tendered) ==
  /\ lines # {} /\ DOMAIN tendered # {}
  /\ \A line \in lines : line.quantity >= 1
  /\ \A id \in DOMAIN tendered : /\ tendered[id].amount >= 1
                                 /\ (tendered[id].type = "cash") = (tendered[id].shift # None)

\* tendered is a function from new tender ids to type, shift and amount.
CheckoutPOS(o, version, lines, discount, charges, token, tendered) ==
  LET subtotal == SumOf([l \in lines |-> UnitPrice(version, l) * l.quantity])
      total == subtotal - discount + charges
      cash(h) == {id \in DOMAIN tendered : tendered[id].type = "cash" /\ tendered[id].shift = h}
      sum(ids) == SumOf([id \in ids |-> tendered[id].amount])
  IN
  /\ bills[o] = None /\ \A l \in lines : LineSellable(version, l)
  /\ discount <= subtotal
  /\ \A id \in DOMAIN tendered : tenders[id] = None /\ ShiftAccepts(tendered[id].type, tendered[id].shift)
  /\ sum(DOMAIN tendered) = total
  /\ token # None => tokens[token] = None
  /\ bills' = [bills EXCEPT ![o] = [total |-> total]]
  /\ jobs' = [p \in DOMAIN jobs |->
       IF p[1] = o /\ p[3] = 1 /\ \E l \in lines : checkoutCatalog(version, l.item).station = p[2]
       THEN [status |-> "queued", attempts |-> 0] ELSE jobs[p]]
  /\ tokens' = IF token = None THEN tokens
               ELSE [tokens EXCEPT ![token] = [order |-> o, status |-> "issued", version |-> 1]]
  /\ tenders' = [id \in TenderIds |->
       IF id \in DOMAIN tendered
       THEN [order |-> o, type |-> tendered[id].type, shift |-> tendered[id].shift,
             amount |-> tendered[id].amount, status |-> "captured", reverses |-> None]
       ELSE tenders[id]]
  /\ shifts' = [h \in DOMAIN shifts |->
       IF cash(h) = {} THEN shifts[h] ELSE [shifts[h] EXCEPT !.expected = @ + sum(cash(h))]]
  /\ cashEvents' = cashEvents \cup
       {[op |-> audits, tender |-> id, shift |-> tendered[id].shift, type |-> "cash_sale",
         amount |-> tendered[id].amount] : id \in {j \in DOMAIN tendered : tendered[j].type = "cash"}}
  /\ receipts' = [receipts EXCEPT ![o] = [total |-> total]]
  /\ Audited /\ UNCHANGED <<diningVars, settlements, captures>>

handleCheckoutPOS(o, version, lines, discount, charges, token, tendered) ==
  /\ validCheckout(lines, tendered)
  /\ CheckoutPOS(o, version, lines, discount, charges, token, tendered)

\* A further copy of a ticket; checkout made the ticket with its first job.
CreateKitchenPrintJob(p) ==
  /\ jobs[p] = None /\ jobs[<<p[1], p[2], 1>>] # None
  /\ jobs' = [jobs EXCEPT ![p] = [status |-> "queued", attempts |-> 0]]
  /\ Audited /\ UNCHANGED <<diningVars, moneyVars, tokens>>

handleCreatePrintJob(p, copy) ==
  copy \in {"kot", "expeditor", "packing", "receipt"} /\ CreateKitchenPrintJob(p)

\* A failed job is queued again, an acknowledged one is printed again.
AcknowledgeKitchenPrintJob(p, action) ==
  /\ Exists(jobs, p)
  /\ <<jobs[p].status, action>> \in
       {<<"queued", "acknowledged">>, <<"queued", "failed">>, <<"queued", "cancelled">>,
        <<"failed", "requeued">>, <<"acknowledged", "reprinted">>}
  /\ jobs' = [jobs EXCEPT ![p] =
       IF action \in {"requeued", "reprinted"}
       THEN [status |-> "queued", attempts |-> jobs[p].attempts + 1]
       ELSE [status |-> action, attempts |-> jobs[p].attempts]]
  /\ Audited /\ UNCHANGED <<diningVars, moneyVars, tokens>>

handlePrintJobAction(p, action) == AcknowledgeKitchenPrintJob(p, action)

\* An order may be given several tokens.
IssuePickupToken(token, o) ==
  /\ tokens[token] = None /\ Exists(bills, o)
  /\ tokens' = [tokens EXCEPT ![token] = [order |-> o, status |-> "issued", version |-> 1]]
  /\ Audited /\ UNCHANGED <<diningVars, moneyVars, jobs>>

handleIssuePickupToken(token, o) == IssuePickupToken(token, o)

TransitionPickupToken(token, status, expected) ==
  /\ Exists(tokens, token) /\ tokens[token].version = expected
  /\ <<tokens[token].status, status>> \in
       {<<"issued", "called">>, <<"issued", "cancelled">>, <<"called", "collected">>, <<"called", "cancelled">>}
  /\ tokens' = [tokens EXCEPT ![token].status = status, ![token].version = expected + 1]
  /\ Audited /\ UNCHANGED <<diningVars, moneyVars, jobs>>

handlePickupTokenTransition(token, status, expected) ==
  /\ status \in {"called", "collected", "cancelled"}
  /\ TransitionPickupToken(token, status, expected)
-----------------------------------------------------------------------------
CashDeskInit ==
  /\ availability = [i \in Items |-> TRUE]
  /\ tables = [t \in Tables |-> None] /\ sessions = [s \in Sessions |-> None]
  /\ shifts = [h \in Shifts |-> None] /\ cashEvents = {}
  /\ bills = [o \in Bills |-> IF o \in DOMAIN PlacedBills THEN [total |-> PlacedBills[o]] ELSE None]
  /\ tenders = [id \in TenderIds |-> None]
  /\ receipts = [o \in Bills |-> None]
  /\ settlements = [type \in TenderType |-> None]
  /\ jobs = [p \in Bills \X {"HOT", "COLD"} \X {1, 2} |-> None]
  /\ tokens = [token \in TokenNames |-> None]
  /\ captures = {}

Amount == 1..MaxAmount

DiningNext ==
  \/ \E t \in Fresh(tables) : handleCreateTable(t)
  \/ \E t \in Tables, status \in {"available", "disabled"}, v \in 1..MaxOps : handleTableTransition(t, status, v)
  \/ \E s \in Fresh(sessions), t \in Tables : handleOpenSession(s, t)
  \/ \E s \in Sessions, v \in 1..MaxOps : handleCloseSession(s, v)

CashNext ==
  \/ \E h \in Fresh(shifts), r \in Registers, float \in {1} : handleOpenCash(h, r, float)
  \/ \E h \in Shifts, v \in 1..MaxOps, count \in {0, MaxAmount} : handleCloseCash(h, v, count)
  \/ \E c \in captures : CaptureTender(c)
  \/ \E id \in Fresh(tenders), original \in TenderIds, h \in Shifts \cup {None}, amount \in Amount :
       handleReverseTender(id, original, h, amount)
  \/ handleSettle

CaptureNext ==
  \/ \E id \in TenderIds, o \in DOMAIN PlacedBills, type \in TenderType, h \in Shifts \cup {None}, amount \in Amount :
       /\ id = Cardinality({j \in TenderIds : tenders[j] # None}) + Cardinality(captures) + 1
       /\ handleCaptureTender(id, o, type, h, amount)
  \/ \E c \in captures : CaptureTenderRefused(c)

\* A checkout of some items, paid with one tender or split over two.
LinesInput ==
  {{[item |-> i, options |-> options, quantity |-> 1] : i \in items} :
     items \in SUBSET Items, options \in {{}, {"extra"}, {"none"}}}
TenderInput == [type : TenderType, shift : Shifts \cup {None}, amount : Amount]
RestInput == [type : {"upi"}, shift : {None}, amount : Amount]
PaidAtOnce(id, t) == [j \in {id} |-> t]
PaidInTwo(id, t, rest) == [j \in {id, id + 1} |-> IF j = id THEN t ELSE rest]
TenderedInput ==
  {PaidAtOnce(id, t) : id \in Fresh(tenders), t \in TenderInput}
  \cup
  {PaidInTwo(id, t, rest) : id \in {i \in Fresh(tenders) : i + 1 \in TenderIds}, t \in TenderInput, rest \in RestInput}

SaleNext ==
  \E o \in Fresh(bills), version \in DOMAIN Catalog, lines \in LinesInput, discount \in {0, 1},
     charges \in {0, 1}, token \in TokenNames \cup {None}, tendered \in TenderedInput :
    handleCheckoutPOS(o, version, lines, discount, charges, token, tendered)

SlipNext ==
  \/ \E p \in DOMAIN jobs, action \in {"acknowledged", "failed", "cancelled", "requeued", "reprinted"} :
       handlePrintJobAction(p, action)
  \/ \E p \in DOMAIN jobs : handleCreatePrintJob(p, "packing")
  \/ \E token \in TokenNames, o \in Bills : handleIssuePickupToken(token, o)
  \/ \E token \in TokenNames, status \in {"called", "collected", "cancelled"}, v \in 1..MaxOps :
       handlePickupTokenTransition(token, status, v)

CheckoutNext ==
  \/ \E i \in Items, b \in BOOLEAN, reason \in {None, "sold out"} : handleSetAvailability(i, b, reason)
  \/ SaleNext
  \/ SlipNext

CashDeskNext == DiningNext \/ CashNext \/ CaptureNext \/ CheckoutNext
CashDeskSpec == CashDeskInit /\ audits = 0 /\ [][CashDeskNext]_<<audits, cashDeskVars>>
-----------------------------------------------------------------------------
(* Properties *)

\* A table is occupied exactly while one session at it is open, although
\* closing a session moves the table without looking at its status
\* (CloseDiningSession) and tables are moved by hand (TransitionDiningTable).
SeatingConsistent ==
  \A t \in Tables :
    LET open == {s \in Sessions : sessions[s] # None /\ sessions[s].table = t /\ sessions[s].status = "open"}
    IN /\ Cardinality(open) <= 1
       /\ (Exists(tables, t) /\ tables[t].status = "occupied") <=> open # {}

\* A shift's expected cash is what its events say, the events are what was
\* tendered and refunded in cash, and a count is compared with the final
\* figure: nothing is added to a shift once it is counted (CaptureTender,
\* ReverseTender and CheckoutPOS against CloseCashShift).
DrawerBalanced ==
  \A h \in Shifts : shifts[h] # None =>
    LET events == {e \in cashEvents : e.shift = h}
        cash(status) == {id \in TenderIds : tenders[id] # None /\ tenders[id].type = "cash"
                           /\ tenders[id].shift = h /\ tenders[id].status = status}
    IN /\ shifts[h].expected = SumOf([e \in events |-> e.amount])
       /\ shifts[h].expected = shifts[h].float + Amounts(cash("captured")) - Amounts(cash("reversed"))
       /\ shifts[h].status = "closed" => shifts[h].variance = shifts[h].count - shifts[h].expected

\* No tender is refunded beyond its amount, and an order with a receipt has
\* been paid its total, however captures, checkouts and refunds interleave
\* (ReverseTender, CaptureTender).
ReceiptsBacked ==
  /\ \A id \in TenderIds : Exists(tenders, id) /\ tenders[id].status = "captured" =>
       Amounts({j \in TendersOf(tenders[id].order, "reversed") : tenders[j].reverses = id}) <= tenders[id].amount
  /\ \A o \in Bills : Exists(receipts, o) => Amounts(TendersOf(o, "captured")) >= receipts[o].total

\* "tender exceeds unpaid balance" (CaptureTender): what is paid for an order
\* never exceeds its total.
NeverOverpaid == \A o \in Bills : Exists(bills, o) => Paid(o) <= bills[o].total
=============================================================================
