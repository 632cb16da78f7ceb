-------------------------------- MODULE Stock --------------------------------
(***************************************************************************)
(* Stock: the append-only inventory ledger with manual movements and       *)
(* counts, transfers between outlets, production batches and replenishment *)
(* (store/postgres_kitchen_graph.go, postgres_stock_transfer_execution.go, *)
(* postgres_production.go and postgres_replenishment.go with their         *)
(* handlers; migrations/000005-000007, 000014, 000018 and 000019).         *)
(*                                                                         *)
(* A balance is the sum of its events and there is one currency.  Each     *)
(* transaction is a step, which orders a count or a dispatch with the      *)
(* movements that do not take its advisory lock as if they did; what is    *)
(* checked here does not depend on it.  Quantities are whole, and the      *)
(* instances' recipes and units divide evenly.                             *)
(***************************************************************************)
EXTENDS KitchenGraph

CONSTANTS
  Sites,           \* outlets that hold stock
  TransferIds, BatchIds,
  OpeningStock,    \* site -> ingredient -> quantity received before
  MaxQuantity      \* bound: quantities in a request

VARIABLES
  ledger,          \* inventory_events
  counts,          \* inventory_count_lines
  transfers, batches, rules

stockVars == <<ledger, counts, transfers, batches, rules>>

At(site, i) == {e \in ledger : e.site = site /\ e.ingredient = i}
Balance(site, i) == SumOf([e \in At(site, i) |-> e.quantity])
Worth(site, i) == SumOf([e \in At(site, i) |-> e.cost])

\* math.Round of a / b, b > 0: halves away from zero.
Round(a, b) == IF a >= 0 THEN (2 * a + b) \div (2 * b) ELSE -((b - 2 * a) \div (2 * b))

\* The value that leaves with a quantity, at the average cost of the balance.
Share(site, i, quantity) == Round(quantity * Worth(site, i), Balance(site, i))

\* operation_id and ingredient identify an event, but for a loss in transit.
IdOf(e) == <<e.op, e.ingredient, e.type>>

Event(site, i, type, quantity, cost, ref, reverses) ==
  [op |-> audits, site |-> site, ingredient |-> i, type |-> type, quantity |-> quantity,
   cost |-> cost, ref |-> ref, reverses |-> reverses]
-----------------------------------------------------------------------------
(* Manual movements and counts *)

Outbound == {"consumption", "waste", "spoilage", "transfer_out", "staff_meal"}
ManualTypes == {"receipt", "waste", "spoilage", "count_adjustment", "transfer_in", "transfer_out",
                "staff_meal", "production", "reversal"}

validInventoryEvent(v) ==
  /\ v.type \in ManualTypes /\ v.quantity # 0
  /\ v.type = "receipt" => v.cost >= 0
  /\ (v.type = "reversal") = (v.reverses # None)

\* A reversal undoes another event of the same balance, which has no other
\* reversal.  What leaves is negative and, from a positive balance, valued.
RecordInventoryEvent(site, v) ==
  LET quantity == v.quantity * Factor(v.unit)
      signed == IF v.type \in Outbound /\ quantity > 0 THEN -quantity ELSE quantity
      cost == IF v.type \in Outbound \cup {"count_adjustment"} /\ Balance(site, v.ingredient) > 0
              THEN Share(site, v.ingredient, signed) ELSE v.cost
  IN
  /\ Exists(ingredients, v.ingredient) /\ Exists(units, v.unit) /\ Compatible(v.unit, ingredients[v.ingredient])
  /\ \/ /\ v.type = "reversal" /\ v.reverses \in At(site, v.ingredient)
        /\ \A e \in ledger : e.reverses # IdOf(v.reverses)
        /\ ledger' = ledger \cup {Event(site, v.ingredient, "reversal", -v.reverses.quantity,
                                        -v.reverses.cost, v.ref, IdOf(v.reverses))}
     \/ /\ v.type # "reversal"
        /\ v.type \notin Outbound \cup {"count_adjustment"} => quantity >= 0
        /\ ledger' = ledger \cup {Event(site, v.ingredient, v.type, signed, cost, v.ref, None)}
  /\ Audited /\ UNCHANGED <<graphVars, counts, transfers, batches, rules>>

handleRecordInventoryEvent(site, v) == validInventoryEvent(v) /\ RecordInventoryEvent(site, v)

\* lines is a function from the ingredients counted to quantity and unit.
validInventoryCount(lines) ==
  DOMAIN lines # {} /\ \A i \in DOMAIN lines : lines[i].quantity >= 0

\* The difference is recorded, and adjusts the balance when there is one.
RecordInventoryCount(site, lines) ==
  LET counted(i) == lines[i].quantity * Factor(lines[i].unit)
      variance(i) == counted(i) - Balance(site, i)
      cost(i) == IF Balance(site, i) > 0 THEN Share(site, i, variance(i)) ELSE 0
  IN
  /\ \A i \in DOMAIN lines : /\ Exists(ingredients, i) /\ Exists(units, lines[i].unit)
                             /\ Compatible(lines[i].unit, ingredients[i])
  /\ counts' = counts \cup {[op |-> audits, site |-> site, ingredient |-> i, counted |-> counted(i),
                             expected |-> Balance(site, i)] : i \in DOMAIN lines}
  /\ ledger' = ledger \cup {Event(site, i, "count_adjustment", variance(i), cost(i), None, None) :
                              i \in {j \in DOMAIN lines : variance(j) # 0}}
  /\ Audited /\ UNCHANGED <<graphVars, transfers, batches, rules>>

handleRecordInventoryCount(site, lines) == validInventoryCount(lines) /\ RecordInventoryCount(site, lines)
-----------------------------------------------------------------------------
(* Transfers: requested, approved, dispatched by the source, received *)

CreateStockTransfer(x, v) ==
  /\ transfers[x] = None /\ \A i \in DOMAIN v.lines : Exists(ingredients, i)
  /\ transfers' = [transfers EXCEPT ![x] = v]
  /\ Audited /\ UNCHANGED <<graphVars, ledger, counts, batches, rules>>

handleCreateStockTransfer(site, x, source, destination, lines) ==
  /\ source # destination /\ site \in {source, destination}
  /\ DOMAIN lines # {} /\ \A i \in DOMAIN lines : lines[i] > 0
  /\ CreateStockTransfer(x, [source |-> source, destination |-> destination, status |-> "requested",
       version |-> 1, lines |-> [i \in DOMAIN lines |-> [quantity |-> lines[i], dispatched |-> None, received |-> None]]])

transferActionAllowed(status, action, site, v) ==
  \/ site = v.source /\ <<status, action>> \in
       {<<"requested", "approved">>, <<"approved", "dispatched">>, <<"requested", "cancelled">>, <<"approved", "cancelled">>}
  \/ site = v.destination /\ status = "dispatched" /\ action = "received"

transferLinesByIngredient(x) == transfers[x].lines

\* Every line has an actual quantity, at most what was asked for or sent.
normalizedTransferExecution(actual, ceiling) ==
  DOMAIN actual = DOMAIN ceiling /\ \A i \in DOMAIN actual : actual[i] > 0 /\ actual[i] <= ceiling[i]

dispatchTransferInventory(x, actual) ==
  LET source == transfers[x].source IN
  /\ \A i \in DOMAIN actual : Balance(source, i) >= actual[i]
  /\ ledger' = ledger \cup
       {Event(source, i, "transfer_out", -actual[i], -Share(source, i, actual[i]), x, None) : i \in DOMAIN actual}

\* What left the source for a line of the transfer, manual movements that refer
\* to it included.
Shipments(x, i) == {e \in At(transfers[x].source, i) : e.type = "transfer_out" /\ e.ref = x}

\* Faulty: what the request says arrived is booked, not what was shipped.
receiveTransferInventoryAsCounted(x, actual) ==
  \E out \in [DOMAIN actual -> ledger] :
    LET to == transfers[x].destination
        variance(i) == -out[i].quantity - actual[i]
    IN
    /\ \A i \in DOMAIN actual : out[i] \in Shipments(x, i)
    /\ ledger' = ledger
         \cup {Event(to, i, "transfer_in", actual[i], -out[i].cost, x, None) : i \in DOMAIN actual}
         \cup {Event(to, i, "spoilage", -variance(i), 0, x, None) : i \in {j \in DOMAIN actual : variance(j) > 0}}

\* All that was shipped comes in; what is missing goes out again as spoilage.
\* The newest shipment by occurred_at counts, a time that manual movements bring
\* along: it may be any of them.
receiveTransferInventory(x, actual) ==
  \E out \in [DOMAIN actual -> ledger] :
    LET to == transfers[x].destination
        shipped(i) == -out[i].quantity
        value(i) == -out[i].cost
        variance(i) == shipped(i) - actual[i]
    IN
    /\ \A i \in DOMAIN actual : out[i] \in Shipments(x, i) /\ actual[i] <= shipped(i)
    /\ ledger' = ledger
         \cup {Event(to, i, "transfer_in", shipped(i), value(i), x, None) : i \in DOMAIN actual}
         \cup {Event(to, i, "spoilage", -variance(i), -Round(value(i) * variance(i), shipped(i)), x, None) :
                 i \in {j \in DOMAIN actual : variance(j) > 0}}

TransferAt(x, action, version, lines) ==
  [transfers EXCEPT ![x].status = action, ![x].version = version, ![x].lines = lines]

\* The transfer's row is locked.
TransitionStockTransfer(site, x, action, expected, actual) ==
  LET lines == transferLinesByIngredient(x)
      next(changed) == TransferAt(x, action, expected + 1, changed)
  IN
  /\ Exists(transfers, x) /\ transfers[x].version = expected
  /\ transferActionAllowed(transfers[x].status, action, site, transfers[x])
  /\ \/ /\ action \in {"approved", "cancelled"}
        /\ transfers' = next(lines) /\ UNCHANGED ledger
     \/ /\ action = "dispatched" /\ normalizedTransferExecution(actual, [i \in DOMAIN lines |-> lines[i].quantity])
        /\ dispatchTransferInventory(x, actual)
        /\ transfers' = next([i \in DOMAIN lines |-> [lines[i] EXCEPT !.dispatched = actual[i]]])
     \/ /\ action = "received" /\ normalizedTransferExecution(actual, [i \in DOMAIN lines |-> lines[i].dispatched])
        /\ receiveTransferInventory(x, actual)
        /\ transfers' = next([i \in DOMAIN lines |-> [lines[i] EXCEPT !.received = actual[i]]])
  /\ Audited /\ UNCHANGED <<graphVars, counts, batches, rules>>

validStockTransferAction(action) == action \in {"approved", "dispatched", "received", "cancelled"}

handleStockTransferTransition(site, x, action, expected, actual) ==
  /\ validStockTransferAction(action)
  /\ (action \in {"dispatched", "received"}) = (DOMAIN actual # {})
  /\ TransitionStockTransfer(site, x, action, expected, actual)
-----------------------------------------------------------------------------
(* Production: ingredients become another ingredient *)

validProductionBatch(v) == v.planned > 0

CanTransitionProductionBatchStatus(from, to) ==
  <<from, to>> \in {<<"planned", "in_progress">>, <<"planned", "cancelled">>,
                    <<"in_progress", "completed">>, <<"in_progress", "cancelled">>}

\* What a version uses of an ingredient for its yield, sub-recipes expanded.
PerYield[v \in VersionIds] ==
  [i \in IngredientIds |->
     SumOf([c \in recipeVersions[v].components |->
       IF c.child = None
       THEN IF c.ingredient = i THEN c.quantity * Factor(c.unit) ELSE 0
       ELSE (c.quantity * Factor(c.unit) * PerYield[c.child][i])
              \div (recipeVersions[c.child].yield * Factor(recipeVersions[c.child].unit))])]

CreateProductionBatch(b, v) ==
  /\ batches[b] = None /\ Exists(recipeVersions, v.recipe)
  /\ Exists(units, v.unit) /\ Exists(ingredients, v.output) /\ Compatible(v.unit, ingredients[v.output])
  /\ PerYield[v.recipe][v.output] = 0
  /\ batches' = [batches EXCEPT ![b] = v]
  /\ Audited /\ UNCHANGED <<graphVars, ledger, counts, transfers, rules>>

handleCreateProductionBatch(b, v) == validProductionBatch(v) /\ CreateProductionBatch(b, v)

\* The consumption of the planned quantity, valued at average cost; stock may
\* go below zero, and is worth nothing then.
consumeProductionRecipe(b) ==
  LET v == batches[b]
      need(i) == (v.planned * PerYield[v.recipe][i]) \div recipeVersions[v.recipe].yield
      cost(i) == IF Balance(v.site, i) > 0 THEN -Share(v.site, i, need(i)) ELSE 0
  IN {Event(v.site, i, "consumption", -need(i), cost(i), b, None) : i \in {j \in IngredientIds : need(j) > 0}}

validProductionTransition(actual) == actual # None => actual > 0

TransitionProductionBatch(site, b, to, expected, actual) ==
  /\ Exists(batches, b) /\ batches[b].site = site /\ batches[b].version = expected
  /\ CanTransitionProductionBatchStatus(batches[b].status, to)
  /\ IF to = "completed"
     THEN LET v == batches[b]
              consumed == consumeProductionRecipe(b)
              output == Event(site, v.output, "production", actual * Factor(v.unit),
                              -SumOf([e \in consumed |-> e.cost]), b, None)
          IN actual # None /\ ledger' = ledger \cup consumed \cup {output}
     ELSE UNCHANGED ledger
  /\ batches' = [batches EXCEPT ![b].status = to, ![b].version = expected + 1,
                                ![b].actual = IF to = "completed" THEN actual ELSE @]
  /\ Audited /\ UNCHANGED <<graphVars, counts, transfers, rules>>

handleTransitionProductionBatch(site, b, to, expected, actual) ==
  validProductionTransition(actual) /\ TransitionProductionBatch(site, b, to, expected, actual)
-----------------------------------------------------------------------------
(* Replenishment *)

SetReplenishmentRule(site, i, v) ==
  /\ Exists(ingredients, i)
  /\ rules' = [rules EXCEPT ![<<site, i>>] =
       [source |-> v.source, point |-> v.point, target |-> v.target,
        version |-> IF rules[<<site, i>>] = None THEN 1 ELSE rules[<<site, i>>].version + 1]]
  /\ Audited /\ UNCHANGED <<graphVars, ledger, counts, transfers, batches>>

handleSetReplenishmentRule(site, i, v) ==
  v.source # site /\ v.point >= 0 /\ v.target > v.point /\ SetReplenishmentRule(site, i, v)

\* What to ask the source for, when the site is at or below its reorder point.
ReplenishmentSuggestions(site) ==
  LET due == {i \in IngredientIds : rules[<<site, i>>] # None /\ Balance(site, i) <= rules[<<site, i>>].point}
      need(i) == rules[<<site, i>>].target - Balance(site, i)
      available(i) == Balance(rules[<<site, i>>].source, i)
      least(a, b) == IF a <= b THEN a ELSE b
  IN [i \in due |-> LET n == least(need(i), available(i)) IN IF n < 0 THEN 0 ELSE n]

\* A client reads the suggestions and requests one of them.
handleReplenishmentSuggestions(site, x) ==
  \E i \in DOMAIN ReplenishmentSuggestions(site) :
    handleCreateStockTransfer(site, x, rules[<<site, i>>].source, site,
      [j \in {i} |-> ReplenishmentSuggestions(site)[i]])
-----------------------------------------------------------------------------
StockInit ==
  /\ ledger = {e \in {[op |-> -1, site |-> s, ingredient |-> i, type |-> "receipt", quantity |-> OpeningStock[s][i],
                       cost |-> OpeningStock[s][i] + 1, ref |-> None, reverses |-> None] :
                         s \in Sites, i \in DOMAIN KnownIngredients} : e.quantity > 0}
  /\ counts = {}
  /\ transfers = [x \in TransferIds |-> None]
  /\ batches = [b \in BatchIds |-> None]
  /\ rules = [p \in Sites \X IngredientIds |-> None]

Quantity == 1..MaxQuantity

Movement(types, us, refs) ==
  \E site \in Sites, i \in IngredientIds, type \in types, q \in {-1, 1}, u \in us,
        ref \in refs, e \in ledger \cup {None} :
       handleRecordInventoryEvent(site, [ingredient |-> i, type |-> type, quantity |-> q, unit |-> u,
                                         cost |-> 1, ref |-> ref, reverses |-> e])

LedgerNext ==
  \/ Movement(ManualTypes, UnitIds, {None})
  \/ \E site \in Sites, S \in SUBSET IngredientIds, u \in UnitIds, q \in 0..MaxQuantity :
       handleRecordInventoryCount(site, [i \in S |-> [quantity |-> q, unit |-> u]])

TransferNext ==
  \/ \E site, source, destination \in Sites, x \in TransferIds, S \in SUBSET IngredientIds, q \in Quantity :
       handleCreateStockTransfer(site, x, source, destination, [i \in S |-> q])
  \/ \E site \in Sites, x \in TransferIds, action \in {"approved", "dispatched", "received", "cancelled"},
        v \in 1..MaxOps, S \in SUBSET IngredientIds, q \in Quantity :
       handleStockTransferTransition(site, x, action, v, [i \in S |-> q])

BatchNext ==
  \/ \E b \in BatchIds, site \in Sites, w \in VersionIds, i \in IngredientIds, u \in UnitIds, q \in Quantity :
       handleCreateProductionBatch(b, [site |-> site, recipe |-> w, output |-> i, unit |-> u, planned |-> q,
                                       status |-> "planned", actual |-> None, version |-> 1])
  \/ \E site \in Sites, b \in BatchIds, to \in {"in_progress", "completed", "cancelled"}, v \in 1..MaxOps,
        q \in Quantity \cup {None} : handleTransitionProductionBatch(site, b, to, v, q)

RuleNext ==
  \/ \E site, source \in Sites, i \in IngredientIds, p \in 0..MaxQuantity, t \in Quantity :
       handleSetReplenishmentRule(site, i, [source |-> source, point |-> p, target |-> t])
  \/ \E site \in Sites, x \in TransferIds : handleReplenishmentSuggestions(site, x)
-----------------------------------------------------------------------------
(* Properties *)

\* What a site gets from a transfer is what one event took from the source,
\* at the same cost, and once: after the loss in transit is written off, the
\* destination holds what was counted in, at most what was dispatched.
\* Manual movements may refer to the transfer too, between any two steps
\* (receiveTransferInventory, dispatchTransferInventory).
TransferConserves ==
  \A x \in TransferIds : Exists(transfers, x) =>
    LET v == transfers[x]
        by(site, i, type) == {e \in At(site, i) : e.ref = x /\ e.type = type}
        sum(S) == SumOf([e \in S |-> e.quantity])
    IN
    \A i \in DOMAIN v.lines :
      /\ v.status \in {"dispatched", "received"} =>
           \E e \in by(v.source, i, "transfer_out") :
             e.quantity = -v.lines[i].dispatched /\ v.lines[i].dispatched <= v.lines[i].quantity
      /\ v.status = "received" =>
           \E in \in by(v.destination, i, "transfer_in") :
             LET lost == {e \in by(v.destination, i, "spoilage") : e.op = in.op} IN
             /\ \E out \in by(v.source, i, "transfer_out") :
                  out.op < in.op /\ in.quantity = -out.quantity /\ in.cost = -out.cost
             /\ in.quantity + sum(lost) = v.lines[i].received
             /\ v.lines[i].received <= v.lines[i].dispatched

=============================================================================
