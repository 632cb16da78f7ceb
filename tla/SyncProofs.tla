----------------------------- MODULE SyncProofs -----------------------------
(***************************************************************************)
(* Proofs about SyncPipeline.  With any faults, crashes and restores: the  *)
(* invariant PipeInv (an operation id names one operation wherever it      *)
(* occurs, and what edge and core hold about it is consistent), the truth  *)
(* of the outbox, the refinement of CoreSync and the single effect at      *)
(* core. Without restores: streams are sent in order, the refinements of   *)
(* Delivery and of EdgeStore, and what core's order rows then show.        *)
(*                                                                         *)
(* The lemmas of EdgeStoreProofs and KitchenProofs are used for the        *)
(* outlet's tables and, as Saved, for their copy; those of CoreSyncProofs, *)
(* as Ledger, for core.                                                    *)
(***************************************************************************)
EXTENDS SyncPipeline, EdgeStoreProofs, SequenceTheorems

\* The projections in the copy of the outlet's database.
Saved == INSTANCE KitchenProofs WITH
  orderStatus <- backup.orderStatus, orderVersion <- backup.orderVersion,
  orderNumber <- backup.orderNumber, orderRef <- backup.orderRef,
  ticketStatus <- backup.ticketStatus, ticketVersion <- backup.ticketVersion,
  ticketOrder <- backup.ticketOrder

\* What an outlet's log holds: a supported command, at version 1 if it creates an order; a
\* whole-order command has the rank of its status as version, unless it cancels.
EdgeRow ==
  {op \in OperationRow :
    /\ op.type = "order" <=> op.agg \in Orders
    /\ op.type = "order" => op.stream = op.agg
    /\ op.type = "kitchenTicket" <=> op.command = "kitchenTicket.transition"
    /\ op.ver \in 1..5
    /\ op.command = "order.create" => op.ver = 1 /\ op.to = "received"
    /\ op.command \in {"order.transition", "kitchenTicket.transitionAll"} =>
         op.to = "cancelled" \/ op.ver = Rank(Cloud!projectedStatus(op.to)) + 1}

\* Core, for outlets that send such operations.
Ledger == INSTANCE CoreSyncProofs WITH Submissions <- EdgeRow

\* The status functions are the same for the copy.
LEMMA SavedRules ==
  /\ Saved!OrderStatus = OrderStatus /\ Saved!TicketStatus = TicketStatus
  /\ Saved!Terminal = Terminal
  /\ \A s : Saved!Rank(s) = Rank(s) /\ Saved!TicketRank(s) = TicketRank(s)
  /\ \A s, S : Saved!Backed(s, S) <=> Backed(s, S)
<1>1. /\ Saved!OrderStatus = OrderStatus /\ Saved!TicketStatus = TicketStatus
      /\ Saved!Terminal = Terminal
      /\ \A s : Saved!Rank(s) = Rank(s) /\ Saved!TicketRank(s) = TicketRank(s)
  BY DEF OrderStatus, TicketStatus, Saved!OrderStatus, Saved!TicketStatus, Terminal,
     Saved!Terminal, Rank, Saved!Rank, TicketRank, Saved!TicketRank
<1>2. ASSUME NEW s, NEW S PROVE Saved!Backed(s, S) <=> Backed(s, S)
  <2>1. Saved!deriveOrderStatus(S) = deriveOrderStatus(S) /\ Saved!Terminal = Terminal
    BY DEF deriveOrderStatus, Saved!deriveOrderStatus, Terminal, Saved!Terminal
  <2>2. \A c : Saved!Rank(c) = Rank(c)
    BY DEF Rank, Saved!Rank
  <2>3. \A c : Saved!shouldAdvanceOrder(s, c) <=> shouldAdvanceOrder(s, c)
    BY <2>1, <2>2 DEF shouldAdvanceOrder, Saved!shouldAdvanceOrder
  <2> QED
    BY <2>1, <2>3 DEF Backed, Saved!Backed
<1> QED
  BY <1>1, <1>2

\* A restored outlet is in a state that it was in.
LEMMA RestoreRows ==
  ASSUME Saved!RowsInv, Restore
  PROVE  RowsInv'
<1>1. /\ orderStatus' = backup.orderStatus /\ orderVersion' = backup.orderVersion
      /\ orderNumber' = backup.orderNumber /\ orderRef' = backup.orderRef
      /\ ticketStatus' = backup.ticketStatus /\ ticketVersion' = backup.ticketVersion
      /\ ticketOrder' = backup.ticketOrder
  BY DEF Restore
<1>2. KitchenTypeOK'
  BY <1>1, SavedRules DEF KitchenTypeOK, Saved!RowsInv, Saved!KitchenInv, Saved!KitchenTypeOK
<1>3. \A o : /\ listTicketsForOrder(o)' = Saved!listTicketsForOrder(o)
             /\ Exists(o)' <=> Saved!Exists(o)
             /\ StatusesOf(o, ticketStatus)' = Saved!StatusesOf(o, backup.ticketStatus)
  BY <1>1 DEF listTicketsForOrder, Saved!listTicketsForOrder, Exists, Saved!Exists, StatusesOf,
     Saved!StatusesOf
<1>4. RowsComplete'
  BY <1>1, <1>3 DEF RowsComplete, Saved!RowsInv, Saved!KitchenInv, Saved!RowsComplete, Exists,
     Saved!Exists
<1>5. MaxNumberExists'
  BY <1>1 DEF MaxNumberExists, Saved!RowsInv, Saved!KitchenInv, Saved!MaxNumberExists
<1>6. \A o \in Orders : OrderBacked(o)'
  BY <1>1, <1>3, SavedRules DEF OrderBacked, Saved!RowsInv, Saved!KitchenInv, Saved!OrderBacked
<1>7. VersionInv'
  BY <1>1, SavedRules DEF VersionInv, Saved!RowsInv, Saved!VersionInv
<1>8. LedInv'
  <2>1. \A o, t : Reached(o, t)' <=> Saved!Reached(o, t)
    BY <1>1, SavedRules DEF Reached, Saved!Reached
  <2>2. \A o : Led(o)' <=> Saved!Led(o)
    BY <1>3, <2>1 DEF Led, Saved!Led
  <2> QED
    BY <1>3, <2>2 DEF LedInv, Saved!RowsInv, Saved!LedInv
<1>9. RankInv'
  BY <1>1, <1>3, SavedRules DEF RankInv, Saved!RowsInv, Saved!RankInv
<1> QED
  BY <1>2, <1>4, <1>5, <1>6, <1>7, <1>8, <1>9 DEF RowsInv, KitchenInv

\* A copy is a state of the outlet.
LEMMA BackupRows ==
  ASSUME RowsInv, Backup
  PROVE  Saved!RowsInv'
<1>1. /\ orderStatus = backup'.orderStatus /\ orderVersion = backup'.orderVersion
      /\ orderNumber = backup'.orderNumber /\ orderRef = backup'.orderRef
      /\ ticketStatus = backup'.ticketStatus /\ ticketVersion = backup'.ticketVersion
      /\ ticketOrder = backup'.ticketOrder
  BY DEF Backup
<1>2. Saved!KitchenTypeOK'
  BY <1>1, SavedRules DEF KitchenTypeOK, RowsInv, KitchenInv, Saved!KitchenTypeOK
<1>3. \A o : /\ listTicketsForOrder(o) = Saved!listTicketsForOrder(o)'
             /\ Exists(o) <=> Saved!Exists(o)'
             /\ StatusesOf(o, ticketStatus) = Saved!StatusesOf(o, backup.ticketStatus)'
  BY <1>1 DEF listTicketsForOrder, Saved!listTicketsForOrder, Exists, Saved!Exists, StatusesOf,
     Saved!StatusesOf
<1>4. Saved!RowsComplete'
  BY <1>1, <1>3 DEF RowsComplete, RowsInv, KitchenInv, Saved!RowsComplete, Exists, Saved!Exists
<1>5. Saved!MaxNumberExists'
  BY <1>1 DEF MaxNumberExists, RowsInv, KitchenInv, Saved!MaxNumberExists
<1>6. \A o \in Orders : Saved!OrderBacked(o)'
  BY <1>1, <1>3, SavedRules DEF OrderBacked, RowsInv, KitchenInv, Saved!OrderBacked
<1>7. Saved!VersionInv'
  BY <1>1, SavedRules DEF VersionInv, RowsInv, Saved!VersionInv
<1>8. Saved!LedInv'
  <2>1. \A o, t : Reached(o, t) <=> Saved!Reached(o, t)'
    BY <1>1, SavedRules DEF Reached, Saved!Reached
  <2>2. \A o : Led(o) <=> Saved!Led(o)'
    BY <1>3, <2>1 DEF Led, Saved!Led
  <2> QED
    BY <1>3, <2>2 DEF LedInv, RowsInv, Saved!LedInv
<1>9. Saved!RankInv'
  BY <1>1, <1>3, SavedRules DEF RankInv, RowsInv, Saved!RankInv
<1> QED
  BY <1>2, <1>4, <1>5, <1>6, <1>7, <1>8, <1>9 DEF Saved!RowsInv, Saved!KitchenInv
-----------------------------------------------------------------------------
(* Core in the pipeline is core as CoreSync has it *)

LEMMA LedgerAssumption ==
  /\ Ledger!OrderStatus = OrderStatus /\ Ledger!TicketStatus = TicketStatus
  /\ DirectOrders \subseteq Orders
  /\ \A op \in EdgeRow :
       /\ op.id \in Ops /\ op.ver \in Nat
       /\ op.to \in Ledger!OrderStatus \cup Ledger!TicketStatus
       /\ op.type = "order" <=> op.agg \in Orders
       /\ op.command = "order.create" => op.ver = 1 /\ op.to = "received"
  /\ None \notin Ledger!OrderStatus \cup Ledger!TicketStatus
  /\ None \notin [body : EdgeRow, status : {"accepted", "rejected", "conflict"}]
<1>1. Ledger!OrderStatus = OrderStatus /\ Ledger!TicketStatus = TicketStatus
  BY DEF OrderStatus, TicketStatus, Ledger!OrderStatus, Ledger!TicketStatus
<1> QED
  BY <1>1, PipelineAssumption, NoneAssumption DEF EdgeRow, OperationRow

\* Core's decision and its step.
LEMMA LedgerSteps ==
  ASSUME NEW op
  PROVE  /\ Cloud!acceptSyncOperation(op) = Ledger!acceptSyncOperation(op)
         /\ Cloud!ApplySyncOperation(op) <=> Ledger!ApplySyncOperation(op)
         /\ \A to : Cloud!projectedStatus(to) = Ledger!projectedStatus(to)
<1>1. /\ Cloud!existingSyncOutcome(op) = Ledger!existingSyncOutcome(op)
      /\ Cloud!syncCommandProblem(op) = Ledger!syncCommandProblem(op)
      /\ Cloud!validateSyncOperation(op) = Ledger!validateSyncOperation(op)
  BY DEF Cloud!existingSyncOutcome, Ledger!existingSyncOutcome, Cloud!syncCommandProblem,
     Ledger!syncCommandProblem, Cloud!validateSyncOperation, Ledger!validateSyncOperation
<1>2. \A type, agg : Cloud!VersionsAt(type, agg) = Ledger!VersionsAt(type, agg)
  BY DEF Cloud!VersionsAt, Ledger!VersionsAt
<1>3. Cloud!validateCausalVersion(op) = Ledger!validateCausalVersion(op)
  BY <1>2 DEF Cloud!validateCausalVersion, Ledger!validateCausalVersion
<1>4. Cloud!acceptSyncOperation(op) = Ledger!acceptSyncOperation(op)
  BY <1>1, <1>3 DEF Cloud!acceptSyncOperation, Ledger!acceptSyncOperation
<1>5. \A to : Cloud!projectedStatus(to) = Ledger!projectedStatus(to)
  BY DEF Cloud!projectedStatus, Ledger!projectedStatus
<1>6. Cloud!projectOperationalMutation(op) <=> Ledger!projectOperationalMutation(op)
  BY <1>5 DEF Cloud!projectOperationalMutation, Ledger!projectOperationalMutation
<1>7. Cloud!recordSyncProblem(op) <=> Ledger!recordSyncProblem(op)
  BY DEF Cloud!recordSyncProblem, Ledger!recordSyncProblem
<1>8. /\ Cloud!CommitProblem(op) <=> Ledger!CommitProblem(op)
      /\ Cloud!CommitAccepted(op) <=> Ledger!CommitAccepted(op)
      /\ Cloud!NoCommit(op) <=> Ledger!NoCommit(op)
  BY <1>1, <1>4, <1>6, <1>7 DEF Cloud!CommitProblem, Ledger!CommitProblem, Cloud!CommitAccepted,
     Ledger!CommitAccepted, Cloud!NoCommit, Ledger!NoCommit
<1> QED
  BY <1>4, <1>5, <1>8 DEF Cloud!ApplySyncOperation, Ledger!ApplySyncOperation

\* Its own transitions.
LEMMA LedgerTransitions ==
  ASSUME NEW o, NEW to
  PROVE  Cloud!CoreTransitionOrder(o, to) <=> Ledger!CoreTransitionOrder(o, to)
<1>1. \A a, b : Cloud!CanTransitionOrder(a, b) <=> Ledger!CanTransitionOrder(a, b)
  BY DEF Cloud!CanTransitionOrder, Ledger!CanTransitionOrder, Cloud!Terminal, Ledger!Terminal
<1> QED
  BY <1>1 DEF Cloud!CoreTransitionOrder, Ledger!CoreTransitionOrder

\* Its invariant is kept by every operation an outlet sends.
LEMMA LedgerKept ==
  ASSUME Ledger!CloudInv, NEW op \in EdgeRow, Cloud!ApplySyncOperation(op)
  PROVE  Ledger!CloudInv'
<1>1. Ledger!CloudNext
  BY LedgerSteps DEF Ledger!CloudNext
<1> QED
  BY <1>1, Ledger!CloudStep, LedgerAssumption
-----------------------------------------------------------------------------
(* Commands *)

\* Deriving the status of one order leaves the other rows alone.
LEMMA DerivedElsewhere ==
  ASSUME RowsInv, NEW o \in Orders, advanceDerived(o)
  PROVE  \A p \in Orders : p # o => orderStatus'[p] = orderStatus[p] /\ orderVersion'[p] = orderVersion[p]
BY DEF advanceDerived, updateOrder, orderVars, RowsInv, KitchenInv, KitchenTypeOK

\* What a command of the outlet adds to its log, and what it does to the order rows.
Commits(op) ==
  /\ op \in EdgeRow /\ op.id = issued + 1
  /\ operations' = Append(operations, op)
  /\ op.type = "order" => /\ orderStatus[op.agg] \notin Terminal
                          /\ orderVersion'[op.agg] = op.ver
                          /\ orderStatus'[op.agg] = Cloud!projectedStatus(op.to)
  /\ \A p \in Orders : p # op.stream => /\ orderStatus'[p] = orderStatus[p]
                                        /\ orderVersion'[p] = orderVersion[p]

LEMMA CreateCommand ==
  ASSUME RowsInv, NEW route, NEW env \in Envelopes, env.id = issued + 1, NEW o \in Orders,
         NEW T \in SUBSET Tickets, StoreCreateOrder(route, env, o, T, None)
  PROVE  KitchenNext /\ \E op \in EdgeRow : Commits(op)
<1>1. CreateOrder(o, T, None)
  BY DEF StoreCreateOrder
<1>2. PICK op : op = [id |-> env.id, type |-> "order", agg |-> o, stream |-> o, ver |-> 1,
                      command |-> "order.create", to |-> "received", parent |-> None]
  OBVIOUS
<1>3. op \in EdgeRow
  BY <1>2, EnvelopesAssumption DEF EdgeRow, OperationRow, OrderStatus
<1>4. operations' = Append(operations, op)
  BY <1>2 DEF StoreCreateOrder, appendOperation
<1>5. /\ orderStatus[o] = None /\ orderStatus'[o] = "received" /\ orderVersion'[o] = 1
      /\ \A p \in Orders : p # o => orderStatus'[p] = orderStatus[p] /\ orderVersion'[p] = orderVersion[p]
  BY <1>1 DEF CreateOrder, Exists, RowsInv, KitchenInv, KitchenTypeOK
<1>6. None \notin Terminal /\ Cloud!projectedStatus("received") = "received"
  BY NoneAssumption DEF Terminal, OrderStatus, Cloud!projectedStatus
<1> QED
  BY <1>1, <1>2, <1>3, <1>4, <1>5, <1>6 DEF Commits, KitchenNext

\* An order transition has the version of its rank.
LEMMA OrderCommand ==
  ASSUME RowsInv, NEW route, NEW env \in Envelopes, env.id = issued + 1, NEW o \in Orders,
         NEW to \in OrderStatus, NEW ver \in Versions,
         StoreTransitionOrder(route, env, o, to, ver)
  PROVE  KitchenNext /\ \E op \in EdgeRow : Commits(op)
<1>1. TransitionOrder(o, to, ver)
  BY DEF StoreTransitionOrder
<1>2. KitchenNext
  BY <1>1 DEF KitchenNext
<1>3. /\ orderStatus[o] \notin Terminal /\ orderStatus'[o] = to
      /\ to = "cancelled" \/ orderVersion'[o] = Rank(to) + 1
  BY <1>1, OrderRanked DEF RowsInv
<1>4. VersionInv'
  BY <1>2, RowsStep DEF RowsInv
<1>5. orderVersion'[o] \in 1..5
  BY <1>3, <1>4, NoneAssumption DEF VersionInv, Rank, OrderStatus
<1>6. Cloud!projectedStatus(to) = to
  BY DEF Cloud!projectedStatus, OrderStatus
<1>7. PICK op : op = [id |-> env.id, type |-> "order", agg |-> o, stream |-> o,
                      ver |-> orderVersion'[o], command |-> "order.transition", to |-> to,
                      parent |-> None]
  OBVIOUS
<1>8. op \in OperationRow
  BY <1>5, <1>7, EnvelopesAssumption DEF OperationRow
<1>9. op \in EdgeRow
  BY <1>3, <1>5, <1>6, <1>7, <1>8 DEF EdgeRow
<1>10. operations' = Append(operations, op)
  BY <1>7 DEF StoreTransitionOrder, appendOperation
<1>11. \A p \in Orders : p # o => orderStatus'[p] = orderStatus[p] /\ orderVersion'[p] = orderVersion[p]
  BY <1>1, UpdateOrderFacts DEF TransitionOrder, RowsInv, KitchenInv
<1> QED
  BY <1>2, <1>3, <1>6, <1>7, <1>9, <1>10, <1>11 DEF Commits

\* A ticket is no order.
LEMMA TicketCommand ==
  ASSUME RowsInv, NEW route, NEW env \in Envelopes, env.id = issued + 1, NEW t \in Tickets,
         NEW to \in TicketStatus, NEW ver \in Versions, NEW parent \in Orders \cup {None},
         StoreTransitionTicket(route, env, t, to, ver, parent)
  PROVE  KitchenNext /\ \E op \in EdgeRow : Commits(op)
<1>1. TransitionTicket(t, to, ver, parent)
  BY DEF StoreTransitionTicket
<1>2. KitchenNext
  BY <1>1 DEF KitchenNext
<1>3. ticketVersion'[t] = ticketVersion[t] + 1
  BY <1>1, TicketCatchesUp DEF RowsInv
<1>4. VersionInv' /\ KitchenTypeOK'
  BY <1>2, RowsStep DEF RowsInv, KitchenInv
<1>5. ticketVersion'[t] \in 1..5
  <2>1. ticketVersion'[t] # 0
    BY <1>3 DEF RowsInv, KitchenInv, KitchenTypeOK
  <2> QED
    BY <1>4, <2>1, NoneAssumption DEF VersionInv, TicketRank, KitchenTypeOK, TicketStatus
<1>6. ticketOrder[t] \in Orders /\ t \notin Orders
  BY <1>1, PipelineAssumption DEF TransitionTicket, RowsInv, KitchenInv, KitchenTypeOK, RowsComplete
<1>7. PICK op : op = [id |-> env.id, type |-> "kitchenTicket", agg |-> t,
                      stream |-> ticketOrder[t], ver |-> ticketVersion'[t],
                      command |-> "kitchenTicket.transition", to |-> to, parent |-> parent]
  OBVIOUS
<1>8. op \in OperationRow
  BY <1>5, <1>6, <1>7, EnvelopesAssumption DEF OperationRow
<1>9. op \in EdgeRow
  BY <1>5, <1>6, <1>7, <1>8 DEF EdgeRow
<1>10. operations' = Append(operations, op)
  BY <1>7 DEF StoreTransitionTicket, appendOperation
<1>11. \A p \in Orders : p # ticketOrder[t] =>
         orderStatus'[p] = orderStatus[p] /\ orderVersion'[p] = orderVersion[p]
  BY <1>1, <1>6, DerivedElsewhere DEF TransitionTicket, RowsInv
<1> QED
  BY <1>2, <1>7, <1>9, <1>10, <1>11 DEF Commits

\* So has a whole-order ticket command.
LEMMA AllTicketsCommand ==
  ASSUME RowsInv, NEW route, NEW env \in Envelopes, env.id = issued + 1, NEW o \in Orders,
         NEW to \in TicketStatus, NEW ver \in Versions,
         StoreTransitionOrderTickets(route, env, o, to, ver)
  PROVE  KitchenNext /\ \E op \in EdgeRow : Commits(op)
<1>1. TransitionOrderTickets(o, to, ver)
  BY DEF StoreTransitionOrderTickets
<1>2. KitchenNext
  BY <1>1 DEF KitchenNext
<1>3. /\ orderStatus[o] \notin Terminal
      /\ IF to \in Terminal THEN orderStatus'[o] = to ELSE orderStatus'[o] \notin Terminal
      /\ to = "cancelled" \/ orderVersion'[o] = TicketRank(to) + 1
  BY <1>1, AllTicketsRanked DEF RowsInv
<1>4. VersionInv' /\ AllAdvance /\ KitchenTypeOK'
  BY <1>2, RowsStep, NextStep DEF RowsInv, KitchenInv
<1>5. Exists(o)'
  <2>1. Exists(o)
    BY <1>1 DEF TransitionOrderTickets
  <2> QED
    BY <1>4, <2>1, VersionsGrow DEF RowsInv
<1>6. orderVersion'[o] \in 1..5
  BY <1>4, <1>5 DEF VersionInv, Rank, OrderStatus, Exists, KitchenTypeOK
<1>7. Rank(Cloud!projectedStatus(to)) = TicketRank(to)
  BY DEF Cloud!projectedStatus, TicketStatus, Rank, TicketRank
<1>8. PICK op : op = [id |-> env.id, type |-> "order", agg |-> o, stream |-> o,
                      ver |-> orderVersion'[o], command |-> "kitchenTicket.transitionAll",
                      to |-> to, parent |-> None]
  OBVIOUS
<1>9. op \in OperationRow
  BY <1>6, <1>8, EnvelopesAssumption DEF OperationRow
<1>10. op \in EdgeRow
  BY <1>3, <1>6, <1>7, <1>8, <1>9 DEF EdgeRow
<1>11. operations' = Append(operations, op)
  BY <1>8 DEF StoreTransitionOrderTickets, appendOperation
<1>12. \A p \in Orders : p # o => orderStatus'[p] = orderStatus[p] /\ orderVersion'[p] = orderVersion[p]
  BY <1>1, DerivedElsewhere DEF TransitionOrderTickets, RowsInv
<1>13. orderStatus'[o] = Cloud!projectedStatus(to)
  <2>1. CASE to \in Terminal
    BY <1>3, <2>1 DEF Terminal, Cloud!projectedStatus
  <2>2. CASE to \notin Terminal
    <3>1. orderStatus'[o] \in OrderStatus \ Terminal
      BY <1>3, <1>4, <1>5, <2>2 DEF KitchenTypeOK, Exists
    <3>2. Rank(orderStatus'[o]) = TicketRank(to)
      BY <1>2, <1>3, <1>5, <2>2, <3>1, RowsStep DEF RowsInv, RankInv, Terminal, Rank, OrderStatus, TicketRank, TicketStatus
    <3> QED
      BY <2>2, <3>1, <3>2 DEF Rank, TicketRank, Terminal, OrderStatus, TicketStatus, Cloud!projectedStatus
  <2> QED
    BY <2>1, <2>2
<1> QED
  BY <1>2, <1>3, <1>8, <1>10, <1>11, <1>12, <1>13 DEF Commits

\* A command moves the projections like Kitchen and logs one operation, under a new id.
LEMMA CommandCommits ==
  ASSUME RowsInv, issued \in Nat, EdgeCommand
  PROVE  /\ KitchenNext /\ RowsInv' /\ Next
         /\ \E op \in EdgeRow : Commits(op)
<1> DEFINE env == [id |-> issued + 1, key |-> issued + 1]
<1>1. issued + 1 \in Ops
  <2>1. IsFiniteSet(Ops) /\ Ops = 1..Cardinality(Ops)
    BY PipelineAssumption
  <2>2. issued < Cardinality(Ops) /\ Cardinality(Ops) \in Nat
    BY <2>1, FS_CardinalityType DEF EdgeCommand
  <2>3. issued + 1 \in 1..Cardinality(Ops)
    BY <2>2
  <2> QED
    BY <2>1, <2>3
<1>2. env \in Envelopes /\ env.id = issued + 1
  BY <1>1, PipelineAssumption
<1>3. /\ Asked("order.transition") \subseteq OrderStatus
      /\ \A c \in {"kitchenTicket.transitionAll", "kitchenTicket.transition", "direct ticket"} :
           Asked(c) \subseteq TicketStatus
  BY PipelineAssumption DEF Asked
<1> HIDE DEF env
<1>4. CASE \E o \in Orders, T \in SUBSET Tickets :
             StoreCreateOrder("syncMutations", env, o, T, None)
  <2>1. PICK o \in Orders, T \in SUBSET Tickets : StoreCreateOrder("syncMutations", env, o, T, None)
    BY <1>4
  <2>2. Next
    BY <1>2, <2>1 DEF Next, handleBrowserMutation
  <2> QED
    BY <1>2, <2>1, <2>2, CreateCommand, RowsStep
<1>5. CASE \E o \in Orders, to \in Asked("order.transition"), ver \in Versions :
             StoreTransitionOrder("orderTransitions", env, o, to, ver)
  <2>1. PICK o \in Orders, to \in Asked("order.transition"), ver \in Versions :
          StoreTransitionOrder("orderTransitions", env, o, to, ver)
    BY <1>5
  <2>2. to \in OrderStatus
    BY <1>3
  <2>3. Next
    BY <1>2, <2>1, <2>2 DEF Next, handleTransitionOrder
  <2> QED
    BY <1>2, <2>1, <2>2, <2>3, OrderCommand, RowsStep
<1>6. CASE \E o \in Orders, to \in Asked("kitchenTicket.transitionAll"), ver \in Versions :
             StoreTransitionOrderTickets("syncMutations", env, o, to, ver)
  <2>1. PICK o \in Orders, to \in Asked("kitchenTicket.transitionAll"), ver \in Versions :
          StoreTransitionOrderTickets("syncMutations", env, o, to, ver)
    BY <1>6
  <2>2. to \in TicketStatus
    BY <1>3
  <2>3. Next
    BY <1>2, <2>1, <2>2 DEF Next, handleBrowserMutation
  <2> QED
    BY <1>2, <2>1, <2>2, <2>3, AllTicketsCommand, RowsStep
<1>7. CASE \E t \in Tickets, o \in Orders, to \in Asked("kitchenTicket.transition"),
              ver \in Versions : StoreTransitionTicket("syncMutations", env, t, to, ver, o)
  <2>1. PICK t \in Tickets, o \in Orders, to \in Asked("kitchenTicket.transition"),
             ver \in Versions : StoreTransitionTicket("syncMutations", env, t, to, ver, o)
    BY <1>7
  <2>2. to \in TicketStatus /\ o \in Orders \cup {None}
    BY <1>3
  <2>3. Next
    BY <1>2, <2>1, <2>2 DEF Next, handleBrowserMutation
  <2> QED
    BY <1>2, <2>1, <2>2, <2>3, TicketCommand, RowsStep
<1>8. CASE \E t \in Tickets, to \in Asked("direct ticket"), ver \in Versions :
             StoreTransitionTicket("ticketTransitions", env, t, to, ver, None)
  <2>1. PICK t \in Tickets, to \in Asked("direct ticket"), ver \in Versions :
          StoreTransitionTicket("ticketTransitions", env, t, to, ver, None)
    BY <1>8
  <2>2. to \in TicketStatus /\ None \in Orders \cup {None}
    BY <1>3
  <2>3. Next
    BY <1>2, <2>1, <2>2 DEF Next, handleTransitionTicket
  <2> QED
    BY <1>2, <2>1, <2>2, <2>3, TicketCommand, RowsStep
<1> QED
  BY <1>4, <1>5, <1>6, <1>7, <1>8 DEF EdgeCommand, env
-----------------------------------------------------------------------------
(* The pipeline's invariant *)

OutboxState == {None, "pending", "synchronized", "reconciliation"}

Request == [batch : Seq(EdgeRow),
            results : Seq({"ACCEPTED", "DUPLICATE", "REJECTED", "CONFLICT", "RETRY"})]

\* The outlet's database, the copy of it, and the requests are well-formed.
OutletInv ==
  /\ issued \in Nat
  /\ RowsInv
  /\ operations \in Seq(EdgeRow)
  /\ outbox \in [Ops -> OutboxState]
  /\ backup # None => /\ Saved!RowsInv
                      /\ backup.operations \in Seq(EdgeRow)
                      /\ backup.outbox \in [Ops -> OutboxState]

RequestsInv ==
  /\ requests \in [Slots -> Request \cup {None}]
  /\ \A s \in Slots : requests[s] # None => Len(requests[s].results) <= Len(requests[s].batch)

\* The places where an operation may be: the log, its copy, a request, the inbox.
IsKnown(op) ==
  \/ \E i \in DOMAIN operations : operations[i] = op
  \/ backup # None /\ \E i \in DOMAIN backup.operations : backup.operations[i] = op
  \/ \E s \in Slots : requests[s] # None
                      /\ \E i \in DOMAIN requests[s].batch : requests[s].batch[i] = op
  \/ \E id \in Ops : inbox[id] # None /\ inbox[id].body = op

\* Wherever it is, and whatever was restored in between, an id names one operation.
RegisteredInv ==
  /\ \A op : IsKnown(op) => op.id \in 1..issued
  /\ \A a, b : IsKnown(a) /\ IsKnown(b) /\ a.id = b.id => a = b

AcceptedRow(id) == inbox[id] # None /\ inbox[id].status = "accepted"
RefusedRow(id)  == inbox[id] # None /\ inbox[id].status # "accepted"

\* What an outbox says of an operation, core's inbox says too.
Truthful(box) ==
  \A id \in Ops : /\ box[id] = "synchronized" => AcceptedRow(id)
                  /\ box[id] = "reconciliation" => RefusedRow(id)

\* And so does what a request was answered so far.
AnsweredTruthfully(s) ==
  requests[s] # None => \A i \in 1..Len(requests[s].results) :
    /\ requests[s].results[i] \in {"ACCEPTED", "DUPLICATE"} => AcceptedRow(requests[s].batch[i].id)
    /\ requests[s].results[i] \in {"REJECTED", "CONFLICT"} => RefusedRow(requests[s].batch[i].id)

TruthInv ==
  /\ Truthful(outbox)
  /\ backup # None => Truthful(backup.outbox)
  /\ \A s \in Slots : AnsweredTruthfully(s)

PipeInv == OutletInv /\ RequestsInv /\ RegisteredInv /\ TruthInv /\ Ledger!CloudInv

\* A step that leaves the outlet's tables alone, or its copy, keeps what they satisfy.
LEMMA RowsFrame == RowsInv /\ UNCHANGED kitchenVars => RowsInv'
BY DEF RowsInv, kitchenVars, KitchenInv, KitchenTypeOK, RowsComplete, MaxNumberExists, OrderBacked,
   Exists, StatusesOf, listTicketsForOrder, VersionInv, LedInv, Led, Reached, RankInv

LEMMA SavedFrame == Saved!RowsInv /\ UNCHANGED backup => Saved!RowsInv'
<1> SUFFICES ASSUME Saved!RowsInv, UNCHANGED backup PROVE Saved!RowsInv'
  OBVIOUS
<1>1. /\ Saved!KitchenTypeOK => Saved!KitchenTypeOK'
      /\ Saved!MaxNumberExists => Saved!MaxNumberExists'
      /\ Saved!VersionInv => Saved!VersionInv'
  BY DEF Saved!KitchenTypeOK, Saved!MaxNumberExists, Saved!VersionInv
<1>2. \A o : /\ Saved!listTicketsForOrder(o)' = Saved!listTicketsForOrder(o)
             /\ Saved!Exists(o)' <=> Saved!Exists(o)
  BY DEF Saved!listTicketsForOrder, Saved!Exists
<1>3. Saved!RowsComplete => Saved!RowsComplete'
  BY <1>2 DEF Saved!RowsComplete
<1>4. \A o : Saved!OrderBacked(o)' <=> Saved!OrderBacked(o)
  <2>1. \A o : Saved!StatusesOf(o, backup.ticketStatus)' = Saved!StatusesOf(o, backup.ticketStatus)
    BY <1>2 DEF Saved!StatusesOf
  <2> QED
    BY <1>2, <2>1 DEF Saved!OrderBacked
<1>5. Saved!LedInv => Saved!LedInv'
  BY <1>2 DEF Saved!LedInv, Saved!Led, Saved!Reached
<1>6. Saved!RankInv => Saved!RankInv'
  BY <1>2 DEF Saved!RankInv
<1> QED
  BY <1>1, <1>3, <1>4, <1>5, <1>6 DEF Saved!RowsInv, Saved!KitchenInv

LEMMA OutletFrame ==
  ASSUME OutletInv, UNCHANGED <<edgeVars, issued, backup>>, outbox' \in [Ops -> OutboxState]
  PROVE  OutletInv'
BY RowsFrame, SavedFrame DEF OutletInv, edgeVars, kitchenVars

\* No step but a command makes an operation.
LEMMA RegisteredFrame ==
  ASSUME RegisteredInv, UNCHANGED issued, \A op : IsKnown(op)' => IsKnown(op)
  PROVE  RegisteredInv'
BY DEF RegisteredInv

\* The operations of a request.
LEMMA RequestFacts ==
  ASSUME RequestsInv, NEW s \in Slots, requests[s] # None
  PROVE  /\ requests[s].batch \in Seq(EdgeRow) /\ Len(requests[s].batch) \in Nat
         /\ DOMAIN requests[s].batch = 1..Len(requests[s].batch)
         /\ \A i \in 1..Len(requests[s].batch) :
              requests[s].batch[i] \in EdgeRow /\ requests[s].batch[i].id \in Ops
         /\ requests[s].results \in
              Seq({"ACCEPTED", "DUPLICATE", "REJECTED", "CONFLICT", "RETRY"})
         /\ Len(requests[s].results) \in Nat
         /\ Len(requests[s].results) <= Len(requests[s].batch)
         /\ requests[s] = [batch |-> requests[s].batch, results |-> requests[s].results]
<1>1. requests[s] \in Request
  BY DEF RequestsInv
<1>2. requests[s].batch \in Seq(EdgeRow)
  BY <1>1 DEF Request
<1>3. \A i \in 1..Len(requests[s].batch) : requests[s].batch[i] \in EdgeRow
  BY <1>2
<1> QED
  <2>1. \A op \in EdgeRow : op.id \in Ops
    BY DEF EdgeRow, OperationRow
  <2>2. /\ requests[s].results \in Seq({"ACCEPTED", "DUPLICATE", "REJECTED", "CONFLICT", "RETRY"})
        /\ requests[s] = [batch |-> requests[s].batch, results |-> requests[s].results]
    BY <1>1 DEF Request
  <2>3. Len(requests[s].results) <= Len(requests[s].batch)
    BY DEF RequestsInv
  <2>4. Len(requests[s].batch) \in Nat /\ Len(requests[s].results) \in Nat
    BY <1>2, <2>2, LenProperties
  <2> QED
    BY <1>2, <1>3, <2>1, <2>2, <2>3, <2>4, LenProperties

\* Settled rows stay as they are, so what was true of them stays true.
RowsSettled == \A id \in Ops : inbox[id] # None => inbox'[id] = inbox[id]

LEMMA TruthKept ==
  ASSUME RowsSettled
  PROVE  /\ \A id \in Ops : AcceptedRow(id) => AcceptedRow(id)'
         /\ \A id \in Ops : RefusedRow(id) => RefusedRow(id)'
         /\ TruthInv /\ UNCHANGED outbox => Truthful(outbox)'
         /\ TruthInv /\ UNCHANGED backup => (backup # None => Truthful(backup.outbox))'
         /\ \A s \in Slots : TruthInv /\ RequestsInv /\ requests'[s] = requests[s] =>
                               AnsweredTruthfully(s)'
<1>1. \A id \in Ops : (AcceptedRow(id) => AcceptedRow(id)') /\ (RefusedRow(id) => RefusedRow(id)')
  BY DEF RowsSettled, AcceptedRow, RefusedRow
<1>2. TruthInv /\ UNCHANGED outbox => Truthful(outbox)'
  BY <1>1 DEF TruthInv, Truthful
<1>3. TruthInv /\ UNCHANGED backup => (backup # None => Truthful(backup.outbox))'
  BY <1>1 DEF TruthInv, Truthful
<1>4. ASSUME NEW s \in Slots, TruthInv, RequestsInv, requests'[s] = requests[s]
      PROVE  AnsweredTruthfully(s)'
  <2> SUFFICES ASSUME requests[s] # None, NEW i \in 1..Len(requests[s].results)
               PROVE  /\ requests[s].results[i] \in {"ACCEPTED", "DUPLICATE"} =>
                           AcceptedRow(requests[s].batch[i].id)'
                      /\ requests[s].results[i] \in {"REJECTED", "CONFLICT"} =>
                           RefusedRow(requests[s].batch[i].id)'
    BY <1>4 DEF AnsweredTruthfully, AcceptedRow, RefusedRow
  <2>1. PICK id \in Ops : id = requests[s].batch[i].id
    <3>1. /\ Len(requests[s].batch) \in Nat /\ Len(requests[s].results) \in Nat
          /\ Len(requests[s].results) <= Len(requests[s].batch)
          /\ \A k \in 1..Len(requests[s].batch) : requests[s].batch[k].id \in Ops
      BY <1>4, RequestFacts
    <3>2. i \in 1..Len(requests[s].batch)
      BY <3>1
    <3> QED
      BY <3>1, <3>2
  <2>2. /\ requests[s].results[i] \in {"ACCEPTED", "DUPLICATE"} => AcceptedRow(id)
        /\ requests[s].results[i] \in {"REJECTED", "CONFLICT"} => RefusedRow(id)
    BY <1>4, <2>1 DEF TruthInv, AnsweredTruthfully
  <2>3. requests'[s].batch[i].id = id
    BY <1>4, <2>1
  <2> QED
    BY <1>1, <2>1, <2>2, <2>3 DEF AcceptedRow, RefusedRow
<1> QED
  BY <1>1, <1>2, <1>3, <1>4

\* Core's state does not change.
LEMMA LedgerFrame == Ledger!CloudInv /\ UNCHANGED coreVars => Ledger!CloudInv'
<1> SUFFICES ASSUME Ledger!CloudInv, UNCHANGED coreVars PROVE Ledger!CloudInv'
  OBVIOUS
<1>1. UNCHANGED Ledger!cloudVars
  BY DEF coreVars, Ledger!cloudVars
<1> QED
  BY <1>1, Ledger!CloudStep, LedgerAssumption
-----------------------------------------------------------------------------
(* Every step keeps the invariant *)

\* A command adds one operation, under an id that nothing has.
LEMMA CommandStep ==
  ASSUME PipeInv, EdgeCommand
  PROVE  PipeInv'
<1>1. PICK op \in EdgeRow : Commits(op)
  BY CommandCommits DEF PipeInv, OutletInv
<1>2. /\ issued \in Nat /\ issued' = issued + 1 /\ operations \in Seq(EdgeRow)
      /\ op.id = issued + 1 /\ operations' = Append(operations, op) /\ op.id \in Ops
      /\ outbox' = [outbox EXCEPT ![op.id] = "pending"]
      /\ UNCHANGED <<requests, backup, inbox>> /\ UNCHANGED coreVars
  BY <1>1 DEF PipeInv, OutletInv, Commits, EdgeCommand, pushVars, boundVars, coreVars, EdgeRow,
     OperationRow
<1>3. OutletInv'
  <2>1. RowsInv'
    BY CommandCommits DEF PipeInv, OutletInv
  <2>2. outbox' \in [Ops -> OutboxState]
    BY <1>2 DEF PipeInv, OutletInv, OutboxState
  <2>3. operations' \in Seq(EdgeRow)
    BY <1>2, AppendProperties
  <2> QED
    BY <1>2, <2>1, <2>2, <2>3, SavedFrame DEF PipeInv, OutletInv
<1>4. RequestsInv'
  BY <1>2 DEF PipeInv, RequestsInv
<1>5. \A x : IsKnown(x)' => IsKnown(x) \/ x = op
  <2>1. \A i \in DOMAIN operations' :
          \/ i \in DOMAIN operations /\ operations'[i] = operations[i]
          \/ operations'[i] = op
    BY <1>2, AppendProperties
  <2> QED
    BY <1>2, <2>1 DEF IsKnown
<1>6. RegisteredInv'
  <2>1. RegisteredInv
    BY DEF PipeInv
  <2>2. \A x : IsKnown(x) => x.id \in 1..issued /\ x.id # op.id
    BY <1>2, <2>1 DEF RegisteredInv
  <2>3. \A x : IsKnown(x)' => x.id \in 1..issued'
    BY <1>2, <1>5, <2>2
  <2>4. ASSUME NEW a, NEW b, IsKnown(a)', IsKnown(b)', a.id = b.id PROVE a = b
    BY <1>5, <2>1, <2>2, <2>4 DEF RegisteredInv
  <2> QED
    BY <2>3, <2>4 DEF RegisteredInv
<1>7. TruthInv'
  <2>1. RowsSettled
    BY <1>2 DEF RowsSettled
  <2>2. Truthful(outbox)'
    BY <1>2 DEF PipeInv, OutletInv, TruthInv, Truthful, AcceptedRow, RefusedRow
  <2> QED
    BY <1>2, <2>1, <2>2, TruthKept DEF PipeInv, TruthInv
<1>8. Ledger!CloudInv'
  BY <1>2, LedgerFrame DEF PipeInv
<1> QED
  BY <1>3, <1>4, <1>6, <1>7, <1>8 DEF PipeInv

\* The coordinator's bookkeeping: requests end, the outbox tells what was answered.
LEMMA PassiveStep ==
  ASSUME PipeInv, UNCHANGED <<edgeVars, issued, backup, coreVars>>,
         UNCHANGED requests \/ \E s \in Slots : requests' = [requests EXCEPT ![s] = None],
         outbox' \in [Ops -> OutboxState], Truthful(outbox)'
  PROVE  PipeInv'
<1>1. OutletInv' /\ Ledger!CloudInv'
  BY OutletFrame, LedgerFrame DEF PipeInv
<1>2. \A r \in Slots : requests'[r] = requests[r] \/ requests'[r] = None
  BY DEF PipeInv, RequestsInv
<1>3. RequestsInv'
  BY <1>2 DEF PipeInv, RequestsInv
<1>4. RegisteredInv'
  <2>1. \A x : IsKnown(x)' => IsKnown(x)
    BY <1>2 DEF IsKnown, edgeVars, coreVars
  <2> QED
    BY <2>1, RegisteredFrame DEF PipeInv
<1>5. TruthInv'
  <2>1. RowsSettled
    BY DEF RowsSettled, coreVars
  <2>2. ASSUME NEW r \in Slots PROVE AnsweredTruthfully(r)'
    <3>1. CASE requests'[r] = requests[r]
      BY <2>1, <3>1, TruthKept DEF PipeInv
    <3>2. CASE requests'[r] = None
      BY <3>2 DEF AnsweredTruthfully
    <3> QED
      BY <1>2, <3>1, <3>2
  <2> QED
    BY <2>1, <2>2, TruthKept DEF PipeInv, TruthInv
<1> QED
  BY <1>1, <1>3, <1>4, <1>5 DEF PipeInv

\* When the outbox is left alone it stays truthful.
LEMMA QuietStep ==
  ASSUME PipeInv, UNCHANGED <<edgeVars, issued, outbox, backup, coreVars>>,
         UNCHANGED requests \/ \E s \in Slots : requests' = [requests EXCEPT ![s] = None]
  PROVE  PipeInv'
<1>1. Truthful(outbox)'
  BY TruthKept DEF PipeInv, RowsSettled, coreVars
<1>2. outbox' \in [Ops -> OutboxState]
  BY DEF PipeInv, OutletInv
<1> QED
  BY <1>1, <1>2, PassiveStep

\* The operations of a batch come from the log.
LEMMA SyncOnceStep ==
  ASSUME PipeInv, NEW s \in Slots, SyncOnce(s)
  PROVE  PipeInv'
<1>0. PICK n \in 1..BatchSize : \E head \in [1..n -> PendingOperations] :
        requests' = [requests EXCEPT ![s] =
          [batch |-> [i \in 1..n |-> operations[head[i]]], results |-> <<>>]]
  BY DEF SyncOnce
<1>1. PICK head \in [1..n -> PendingOperations] :
        requests' = [requests EXCEPT ![s] =
          [batch |-> [i \in 1..n |-> operations[head[i]]], results |-> <<>>]]
  BY <1>0
<1> DEFINE new == [batch |-> [i \in 1..n |-> operations[head[i]]], results |-> <<>>]
<1>2. n \in Nat
  <2>1. BatchSize \in Nat
    BY PipelineAssumption
  <2> QED
    BY <2>1
<1>3. \A i \in 1..n : head[i] \in DOMAIN operations /\ operations[head[i]] \in EdgeRow
  BY DEF PendingOperations, PipeInv, OutletInv
<1>4. /\ new.batch \in Seq(EdgeRow) /\ Len(new.batch) = n /\ DOMAIN new.batch = 1..n
      /\ new.results = <<>> /\ Len(new.results) = 0
  BY <1>2, <1>3
<1>5. new \in Request
  BY <1>4 DEF Request
<1>6. requests \in [Slots -> Request \cup {None}] /\ requests' = [requests EXCEPT ![s] = new]
  BY <1>1 DEF PipeInv, RequestsInv
<1>7. \A x : (\E i \in DOMAIN new.batch : new.batch[i] = x) => IsKnown(x)
  BY <1>3, <1>4 DEF IsKnown
<1> HIDE DEF new
<1>8. UNCHANGED <<edgeVars, issued, backup, coreVars, outbox, inbox>>
  BY DEF SyncOnce, boundVars, coreVars
<1>9. OutletInv' /\ Ledger!CloudInv'
  BY <1>8, OutletFrame, LedgerFrame DEF PipeInv, OutletInv
<1>10. RequestsInv'
  BY <1>2, <1>4, <1>5, <1>6 DEF PipeInv, RequestsInv
<1>11. RegisteredInv'
  <2>1. \A r \in Slots : requests'[r] = IF r = s THEN new ELSE requests[r]
    BY <1>6
  <2>2. \A x : IsKnown(x)' => IsKnown(x)
    BY <1>7, <1>8, <2>1 DEF IsKnown, edgeVars
  <2> QED
    BY <1>8, <2>2, RegisteredFrame DEF PipeInv
<1>12. TruthInv'
  <2>1. RowsSettled
    BY <1>8 DEF RowsSettled
  <2>2. ASSUME NEW r \in Slots PROVE AnsweredTruthfully(r)'
    <3>1. CASE r # s
      BY <1>6, <2>1, <3>1, TruthKept DEF PipeInv
    <3>2. CASE r = s
      BY <1>4, <1>6, <3>2 DEF AnsweredTruthfully
    <3> QED
      BY <3>1, <3>2
  <2> QED
    BY <1>8, <2>1, <2>2, TruthKept DEF PipeInv, TruthInv
<1> QED
  BY <1>9, <1>10, <1>11, <1>12 DEF PipeInv

\* RecordSyncResults writes what core answered, which core's inbox says.
LEMMA RespondStep ==
  ASSUME PipeInv, NEW s \in Slots, Respond(s)
  PROVE  PipeInv'
<1>1. /\ requests[s] # None /\ Len(requests[s].results) = Len(requests[s].batch)
      /\ requests' = [requests EXCEPT ![s] = None]
      /\ UNCHANGED <<edgeVars, issued, backup, coreVars, inbox>>
  BY DEF Respond, boundVars, coreVars
<1>2. CASE waiting # s
  BY <1>1, <1>2, QuietStep DEF Respond
<1>3. CASE waiting = s
  <2>1. outbox' = [id \in Ops |->
          IF id \notin BatchIds(s) \/ outbox[id] # "pending" THEN outbox[id]
          ELSE CASE ResultOf(s, id) \in {"ACCEPTED", "DUPLICATE"} -> "synchronized"
                 [] ResultOf(s, id) \in {"REJECTED", "CONFLICT"}  -> "reconciliation"
                 [] OTHER -> "pending"]
    BY <1>3 DEF Respond, RecordSyncResults
  <2>2. \A id \in Ops : \/ outbox'[id] = outbox[id]
                        \/ outbox'[id] = "pending"
                        \/ /\ outbox'[id] = "synchronized" /\ id \in BatchIds(s)
                           /\ ResultOf(s, id) \in {"ACCEPTED", "DUPLICATE"}
                        \/ /\ outbox'[id] = "reconciliation" /\ id \in BatchIds(s)
                           /\ ResultOf(s, id) \in {"REJECTED", "CONFLICT"}
    BY <2>1
  <2>3. outbox' \in [Ops -> OutboxState]
    BY <2>1, <2>2 DEF PipeInv, OutletInv, OutboxState
  <2>4. ASSUME NEW id \in Ops, id \in BatchIds(s)
        PROVE  /\ ResultOf(s, id) \in {"ACCEPTED", "DUPLICATE"} => AcceptedRow(id)
               /\ ResultOf(s, id) \in {"REJECTED", "CONFLICT"} => RefusedRow(id)
    <3>1. \E i \in DOMAIN requests[s].batch : requests[s].batch[i].id = id
      BY <2>4 DEF BatchIds
    <3>2. PICK i \in DOMAIN requests[s].batch :
            /\ requests[s].batch[i].id = id /\ ResultOf(s, id) = requests[s].results[i]
      BY <3>1 DEF ResultOf
    <3>3. i \in 1..Len(requests[s].results)
      BY <1>1, RequestFacts DEF PipeInv
    <3> QED
      BY <1>1, <3>2, <3>3 DEF PipeInv, TruthInv, AnsweredTruthfully
  <2>5. Truthful(outbox)'
    <3>1. \A id \in Ops : (AcceptedRow(id)' <=> AcceptedRow(id)) /\ (RefusedRow(id)' <=> RefusedRow(id))
      BY <1>1 DEF AcceptedRow, RefusedRow
    <3>2. ASSUME NEW id \in Ops
          PROVE  /\ outbox'[id] = "synchronized" => AcceptedRow(id)
                 /\ outbox'[id] = "reconciliation" => RefusedRow(id)
      BY <2>2, <2>4 DEF PipeInv, TruthInv, Truthful
    <3> QED
      BY <3>1, <3>2 DEF Truthful
  <2> QED
    BY <1>1, <2>3, <2>5, PassiveStep
<1> QED
  BY <1>2, <1>3

\* What core answers to an operation, its inbox says from then on.
LEMMA CoreAnswers ==
  ASSUME PipeInv, NEW op \in EdgeRow, IsKnown(op), Cloud!ApplySyncOperation(op)
  PROVE  LET r == Cloud!acceptSyncOperation(op) IN
         /\ r \in {"ACCEPTED", "DUPLICATE", "REJECTED", "CONFLICT", "RETRY"}
         /\ r \in {"ACCEPTED", "DUPLICATE"} => AcceptedRow(op.id)'
         /\ r \in {"REJECTED", "CONFLICT"} => RefusedRow(op.id)'
         /\ RowsSettled
         /\ \A id \in Ops : inbox'[id] # None => inbox'[id] = inbox[id] \/ inbox'[id].body = op
         /\ Ledger!CloudInv'
<1> DEFINE r == Cloud!acceptSyncOperation(op)
<1>1. /\ Ledger!CloudInv /\ inbox \in [Ops -> Ledger!Row \cup {None}] /\ op.id \in Ops
      /\ op.ver >= 1
  BY DEF PipeInv, Ledger!CloudInv, Ledger!CloudTypeOK, EdgeRow, OperationRow
<1>2. Ledger!CloudInv'
  BY <1>1, LedgerKept
<1>3. ASSUME inbox[op.id] # None
      PROVE  inbox[op.id].body = op /\ inbox[op.id].status \in {"accepted", "rejected", "conflict"}
  <2>1. inbox[op.id].body.id = op.id
    BY <1>1, <1>3 DEF Ledger!CloudInv, Ledger!RowsFiled
  <2>2. IsKnown(inbox[op.id].body)
    BY <1>1, <1>3 DEF IsKnown
  <2>3. inbox[op.id].body = op
    BY <2>1, <2>2 DEF PipeInv, RegisteredInv
  <2> QED
    BY <1>1, <1>3, <2>3 DEF Ledger!Row
<1>4. /\ inbox[op.id] # None => r = IF inbox[op.id].status = "accepted" THEN "DUPLICATE"
                                   ELSE IF inbox[op.id].status = "rejected" THEN "REJECTED"
                                   ELSE "CONFLICT"
      /\ inbox[op.id] = None => r \in {"ACCEPTED", "REJECTED", "CONFLICT", "RETRY"}
  BY <1>1, <1>3 DEF Cloud!acceptSyncOperation, Cloud!existingSyncOutcome, Cloud!validateSyncOperation
<1>5. CASE Cloud!CommitProblem(op)
  <2>1. PICK st \in {"rejected", "conflict"} :
          inbox' = [inbox EXCEPT ![op.id] = [body |-> op, status |-> st]]
    BY <1>5 DEF Cloud!CommitProblem
  <2>2. inbox[op.id] = None /\ r \in {"REJECTED", "CONFLICT"}
    BY <1>5 DEF Cloud!CommitProblem
  <2>3. [body |-> op, status |-> st] # None
    BY LedgerAssumption
  <2>4. RefusedRow(op.id)'
    BY <1>1, <2>1, <2>3 DEF RefusedRow
  <2>5. /\ RowsSettled
        /\ \A id \in Ops : inbox'[id] # None => inbox'[id] = inbox[id] \/ inbox'[id].body = op
    BY <1>1, <2>1, <2>2 DEF RowsSettled
  <2> QED
    BY <1>2, <2>2, <2>4, <2>5
<1>6. CASE Cloud!CommitAccepted(op)
  <2>1. inbox' = [inbox EXCEPT ![op.id] = [body |-> op, status |-> "accepted"]] /\ r = "ACCEPTED"
    BY <1>6 DEF Cloud!CommitAccepted
  <2>2. inbox[op.id] = None
    BY <1>4, <2>1
  <2>3. [body |-> op, status |-> "accepted"] # None
    BY LedgerAssumption
  <2>4. AcceptedRow(op.id)'
    BY <1>1, <2>1, <2>3 DEF AcceptedRow
  <2>5. /\ RowsSettled
        /\ \A id \in Ops : inbox'[id] # None => inbox'[id] = inbox[id] \/ inbox'[id].body = op
    BY <1>1, <2>1, <2>2 DEF RowsSettled
  <2> QED
    BY <1>2, <2>1, <2>4, <2>5
<1>7. CASE Cloud!NoCommit(op)
  <2>1. UNCHANGED inbox /\ (inbox[op.id] # None \/ r = "RETRY")
    BY <1>1, <1>7 DEF Cloud!NoCommit, Cloud!validateSyncOperation
  <2>2. /\ r \in {"ACCEPTED", "DUPLICATE"} => AcceptedRow(op.id)'
        /\ r \in {"REJECTED", "CONFLICT"} => RefusedRow(op.id)'
    BY <1>3, <1>4, <2>1 DEF AcceptedRow, RefusedRow
  <2> QED
    BY <1>2, <1>4, <2>1, <2>2 DEF RowsSettled
<1> QED
  BY <1>5, <1>6, <1>7 DEF Cloud!ApplySyncOperation

\* A request gets its next result, and core has done what that says.
LEMMA AnswerStep ==
  ASSUME PipeInv, NEW s \in Slots, Unfinished(s), NEW op \in EdgeRow, op = NextOperation(s),
         UNCHANGED <<edgeVars, issued, outbox, backup>>,
         NEW r \in {"ACCEPTED", "DUPLICATE", "REJECTED", "CONFLICT", "RETRY"}, AddResult(s, r),
         RowsSettled, Ledger!CloudInv',
         \A id \in Ops : inbox'[id] # None => inbox'[id] = inbox[id] \/ inbox'[id].body = op,
         r \in {"ACCEPTED", "DUPLICATE"} => AcceptedRow(op.id)',
         r \in {"REJECTED", "CONFLICT"} => RefusedRow(op.id)'
  PROVE  PipeInv'
<1>1. requests[s] # None /\ Len(requests[s].results) < Len(requests[s].batch)
  BY DEF Unfinished
<1>2. PICK b, q : b = requests[s].batch /\ q = requests[s].results
  OBVIOUS
<1>3. /\ b \in Seq(EdgeRow) /\ Len(b) \in Nat /\ DOMAIN b = 1..Len(b)
      /\ q \in Seq({"ACCEPTED", "DUPLICATE", "REJECTED", "CONFLICT", "RETRY"})
      /\ Len(q) \in Nat /\ Len(q) < Len(b)
      /\ requests[s] = [batch |-> b, results |-> q]
  BY <1>1, <1>2, RequestFacts DEF PipeInv
<1>4. /\ Append(q, r) \in Seq({"ACCEPTED", "DUPLICATE", "REJECTED", "CONFLICT", "RETRY"})
      /\ Len(Append(q, r)) = Len(q) + 1 /\ Append(q, r)[Len(q) + 1] = r
      /\ \A i \in 1..Len(q) : Append(q, r)[i] = q[i]
  BY <1>3, AppendProperties
<1>5. PICK new : new = [batch |-> b, results |-> Append(q, r)]
  OBVIOUS
<1>6. new \in Request /\ new.batch = b /\ new.results = Append(q, r)
  BY <1>3, <1>4, <1>5 DEF Request
<1>7. /\ requests \in [Slots -> Request \cup {None}]
      /\ \A t \in Slots : requests'[t] = IF t = s THEN new ELSE requests[t]
      /\ requests' = [requests EXCEPT ![s] = new]
  <2>1. requests \in [Slots -> Request \cup {None}]
    BY DEF PipeInv, RequestsInv
  <2>2. requests' = [requests EXCEPT ![s] = [requests[s] EXCEPT !.results = Append(q, r)]]
    BY <1>2 DEF AddResult
  <2>3. [requests[s] EXCEPT !.results = Append(q, r)] = new
    <3>1. \A x : [[batch |-> b, results |-> q] EXCEPT !.results = x] = [batch |-> b, results |-> x]
      OBVIOUS
    <3> QED
      BY <1>3, <1>5, <3>1
  <2>4. requests' = [requests EXCEPT ![s] = new]
    BY <2>2, <2>3
  <2> QED
    BY <2>1, <2>4
<1>8. op = b[Len(q) + 1]
  BY <1>2 DEF NextOperation
<1>9. OutletInv'
  BY OutletFrame DEF PipeInv, OutletInv
<1>10. RequestsInv'
  <2>1. Len(new.results) <= Len(new.batch)
    BY <1>3, <1>4, <1>6
  <2> QED
    BY <1>6, <1>7, <2>1 DEF PipeInv, RequestsInv
<1>11. RegisteredInv'
  <2>1. IsKnown(op)
    <3>1. Len(q) + 1 \in DOMAIN requests[s].batch
      BY <1>2, <1>3
    <3> QED
      BY <1>1, <1>2, <1>8, <3>1 DEF IsKnown
  <2>2. ASSUME NEW x, IsKnown(x)' PROVE IsKnown(x)
    <3>1. CASE \E i \in DOMAIN operations' : operations'[i] = x
      BY <3>1 DEF IsKnown, edgeVars
    <3>2. CASE backup' # None /\ \E i \in DOMAIN backup'.operations : backup'.operations[i] = x
      BY <3>2 DEF IsKnown
    <3>3. CASE \E t \in Slots : requests'[t] # None
                 /\ \E i \in DOMAIN requests'[t].batch : requests'[t].batch[i] = x
      BY <1>1, <1>2, <1>6, <1>7, <3>3 DEF IsKnown
    <3>4. CASE \E id \in Ops : inbox'[id] # None /\ inbox'[id].body = x
      BY <2>1, <3>4 DEF IsKnown
    <3> QED
      BY <2>2, <3>1, <3>2, <3>3, <3>4 DEF IsKnown
  <2> QED
    BY <2>2, RegisteredFrame DEF PipeInv
<1>12. TruthInv'
  <2>1. ASSUME NEW t \in Slots, t # s PROVE AnsweredTruthfully(t)'
    BY <1>7, <2>1, TruthKept DEF PipeInv
  <2>2. AnsweredTruthfully(s)'
    <3>1. requests'[s].batch = b /\ requests'[s].results = Append(q, r)
      BY <1>6, <1>7
    <3>2. ASSUME NEW i \in 1..(Len(q) + 1), NEW id, id = b[i].id
          PROVE  /\ Append(q, r)[i] \in {"ACCEPTED", "DUPLICATE"} => AcceptedRow(id)'
                 /\ Append(q, r)[i] \in {"REJECTED", "CONFLICT"} => RefusedRow(id)'
      <4>1. CASE i \in 1..Len(q)
        <5>1. /\ q[i] \in {"ACCEPTED", "DUPLICATE"} => AcceptedRow(id)
              /\ q[i] \in {"REJECTED", "CONFLICT"} => RefusedRow(id)
          BY <1>1, <1>2, <3>2, <4>1 DEF PipeInv, TruthInv, AnsweredTruthfully
        <5>2. id \in Ops
          BY <1>3, <3>2 DEF EdgeRow, OperationRow
        <5> QED
          BY <1>4, <4>1, <5>1, <5>2, TruthKept
      <4>2. CASE i = Len(q) + 1
        BY <1>4, <1>8, <3>2, <4>2
      <4> QED
        BY <1>3, <4>1, <4>2
    <3> QED
      BY <1>4, <3>1, <3>2 DEF AnsweredTruthfully, AcceptedRow, RefusedRow
  <2>3. Truthful(outbox)' /\ (backup # None => Truthful(backup.outbox))'
    BY TruthKept DEF PipeInv
  <2> QED
    BY <2>1, <2>2, <2>3 DEF TruthInv
<1> QED
  BY <1>9, <1>10, <1>11, <1>12 DEF PipeInv

\* Core handles the operation it is at.
LEMMA NextOperationFacts ==
  ASSUME PipeInv, NEW s \in Slots, Unfinished(s)
  PROVE  NextOperation(s) \in EdgeRow /\ IsKnown(NextOperation(s))
<1>1. requests[s] # None /\ Len(requests[s].results) < Len(requests[s].batch)
  BY DEF Unfinished
<1>2. /\ Len(requests[s].results) \in Nat /\ Len(requests[s].batch) \in Nat
      /\ DOMAIN requests[s].batch = 1..Len(requests[s].batch)
      /\ \A i \in 1..Len(requests[s].batch) : requests[s].batch[i] \in EdgeRow
  BY <1>1, RequestFacts DEF PipeInv
<1>3. Len(requests[s].results) + 1 \in 1..Len(requests[s].batch)
  BY <1>1, <1>2
<1> QED
  BY <1>1, <1>2, <1>3 DEF NextOperation, IsKnown

LEMMA HandleStep ==
  ASSUME PipeInv, NEW s \in Slots, handleSyncOperations(s)
  PROVE  PipeInv'
<1>1. PICK op \in EdgeRow : op = NextOperation(s)
  BY NextOperationFacts DEF handleSyncOperations
<1>2. PICK r : r = Cloud!acceptSyncOperation(op)
  OBVIOUS
<1>3. /\ Unfinished(s) /\ IsKnown(op) /\ Cloud!ApplySyncOperation(op) /\ AddResult(s, r)
      /\ UNCHANGED <<edgeVars, issued, outbox, backup>>
  BY <1>1, <1>2, NextOperationFacts DEF handleSyncOperations, boundVars
<1>4. /\ r \in {"ACCEPTED", "DUPLICATE", "REJECTED", "CONFLICT", "RETRY"}
      /\ r \in {"ACCEPTED", "DUPLICATE"} => AcceptedRow(op.id)'
      /\ r \in {"REJECTED", "CONFLICT"} => RefusedRow(op.id)'
      /\ RowsSettled
      /\ \A id \in Ops : inbox'[id] # None => inbox'[id] = inbox[id] \/ inbox'[id].body = op
      /\ Ledger!CloudInv'
  BY <1>2, <1>3, CoreAnswers
<1> QED
  BY <1>1, <1>3, <1>4, AnswerStep

LEMMA DatabaseErrorStep ==
  ASSUME PipeInv, NEW s \in Slots, DatabaseError(s)
  PROVE  PipeInv'
<1>1. PICK op \in EdgeRow : op = NextOperation(s)
  BY NextOperationFacts DEF DatabaseError
<1>2. /\ Unfinished(s) /\ IsKnown(op) /\ AddResult(s, "RETRY")
      /\ UNCHANGED coreVars \/ Cloud!ApplySyncOperation(op)
      /\ UNCHANGED <<edgeVars, issued, outbox, backup>>
  BY <1>1, NextOperationFacts DEF DatabaseError
<1>3. /\ RowsSettled
      /\ \A id \in Ops : inbox'[id] # None => inbox'[id] = inbox[id] \/ inbox'[id].body = op
      /\ Ledger!CloudInv'
  <2>1. CASE UNCHANGED coreVars
    BY <2>1, LedgerFrame DEF PipeInv, RowsSettled, coreVars
  <2>2. CASE Cloud!ApplySyncOperation(op)
    BY <1>2, <2>2, CoreAnswers
  <2> QED
    BY <1>2, <2>1, <2>2
<1> QED
  BY <1>1, <1>2, <1>3, AnswerStep

LEMMA CoreTransitionStep ==
  ASSUME PipeInv, CoreTransition
  PROVE  PipeInv'
<1>1. PICK o \in DirectOrders, to \in OrderStatus : Cloud!CoreTransitionOrder(o, to)
  BY DEF CoreTransition
<1>2. UNCHANGED <<edgeVars, issued, outbox, requests, backup, inbox>>
  BY <1>1 DEF CoreTransition, pushVars, boundVars, Cloud!CoreTransitionOrder
<1>3. Ledger!CloudInv'
  <2>1. Ledger!CloudNext
    BY <1>1, LedgerTransitions, LedgerAssumption DEF Ledger!CloudNext
  <2> QED
    BY <2>1, Ledger!CloudStep, LedgerAssumption DEF PipeInv
<1>4. OutletInv' /\ RequestsInv'
  BY <1>2, OutletFrame DEF PipeInv, OutletInv, RequestsInv
<1>5. RegisteredInv'
  <2>1. \A x : IsKnown(x)' => IsKnown(x)
    BY <1>2 DEF IsKnown, edgeVars
  <2> QED
    BY <1>2, <2>1, RegisteredFrame DEF PipeInv
<1>6. TruthInv'
  <2>1. RowsSettled
    BY <1>2 DEF RowsSettled
  <2> QED
    BY <1>2, <2>1, TruthKept DEF PipeInv, TruthInv
<1> QED
  BY <1>3, <1>4, <1>5, <1>6 DEF PipeInv

\* A copy is a state of the outlet.
LEMMA BackupStep ==
  ASSUME PipeInv, Backup
  PROVE  PipeInv'
<1>1. /\ UNCHANGED <<edgeVars, issued, outbox, requests, inbox, coreVars>>
      /\ backup'.operations = operations /\ backup'.outbox = outbox
  BY DEF Backup, pushVars, coreVars
<1>2. OutletInv'
  <2>1. RowsInv' /\ Saved!RowsInv'
    BY <1>1, RowsFrame, BackupRows DEF PipeInv, OutletInv, edgeVars, kitchenVars
  <2> QED
    BY <1>1, <2>1 DEF PipeInv, OutletInv, edgeVars
<1>3. RequestsInv' /\ Ledger!CloudInv'
  BY <1>1, LedgerFrame DEF PipeInv, RequestsInv
<1>4. RegisteredInv'
  <2>1. \A x : IsKnown(x)' => IsKnown(x)
    BY <1>1 DEF IsKnown, edgeVars
  <2> QED
    BY <1>1, <2>1, RegisteredFrame DEF PipeInv
<1>5. TruthInv'
  <2>1. RowsSettled
    BY <1>1 DEF RowsSettled
  <2>2. Truthful(outbox)' /\ \A s \in Slots : AnsweredTruthfully(s)'
    BY <1>1, <2>1, TruthKept DEF PipeInv
  <2>3. Truthful(backup.outbox)'
    BY <1>1, <2>2 DEF Truthful, AcceptedRow, RefusedRow
  <2> QED
    BY <2>2, <2>3 DEF TruthInv
<1> QED
  BY <1>2, <1>3, <1>4, <1>5 DEF PipeInv

\* A restored outlet forgets operations; core, and the requests under way, do not.
LEMMA RestoreStep ==
  ASSUME PipeInv, Restore
  PROVE  PipeInv'
<1>1. /\ UNCHANGED <<issued, requests, inbox, coreVars>>
      /\ backup # None /\ backup' = None
      /\ operations' = backup.operations /\ outbox' = backup.outbox
  BY DEF Restore, coreVars
<1>2. OutletInv'
  <2>1. RowsInv'
    BY <1>1, RestoreRows DEF PipeInv, OutletInv
  <2> QED
    BY <1>1, <2>1 DEF PipeInv, OutletInv
<1>3. RequestsInv' /\ Ledger!CloudInv'
  BY <1>1, LedgerFrame DEF PipeInv, RequestsInv
<1>4. RegisteredInv'
  <2>1. \A x : IsKnown(x)' => IsKnown(x)
    BY <1>1 DEF IsKnown
  <2> QED
    BY <1>1, <2>1, RegisteredFrame DEF PipeInv
<1>5. TruthInv'
  <2>1. RowsSettled
    BY <1>1 DEF RowsSettled
  <2>2. \A s \in Slots : AnsweredTruthfully(s)'
    BY <1>1, <2>1, TruthKept DEF PipeInv
  <2>3. Truthful(outbox)'
    BY <1>1 DEF PipeInv, TruthInv, Truthful, AcceptedRow, RefusedRow
  <2> QED
    BY <1>1, <2>2, <2>3 DEF TruthInv
<1> QED
  BY <1>2, <1>3, <1>4, <1>5 DEF PipeInv

LEMMA PipeInitially == PipeInit => PipeInv
<1> SUFFICES ASSUME PipeInit PROVE PipeInv
  OBVIOUS
<1>1. /\ KitchenInit /\ issued = 0 /\ outbox = [id \in Ops |-> None] /\ operations = <<>>
      /\ requests = [s \in Slots |-> None] /\ backup = None /\ inbox = [i \in Ops |-> None]
  BY DEF PipeInit, Init, Cloud!CloudInit
<1>2. OutletInv
  <2>1. KitchenInv
    BY <1>1, InitInv
  <2>2. VersionInv /\ LedInv /\ RankInv
    BY <1>1 DEF KitchenInit, VersionInv, LedInv, RankInv, Exists
  <2> QED
    BY <1>1, <2>1, <2>2 DEF OutletInv, RowsInv, OutboxState
<1>3. RequestsInv /\ TruthInv
  <2>1. None \notin {"pending", "synchronized", "reconciliation"}
    BY PipelineAssumption
  <2> QED
    BY <1>1, <2>1 DEF RequestsInv, TruthInv, Truthful, AnsweredTruthfully
<1>4. RegisteredInv
  BY <1>1 DEF RegisteredInv, IsKnown
<1>5. Ledger!CloudInv
  <2>1. Ledger!CloudInit
    BY DEF PipeInit, Cloud!CloudInit, Ledger!CloudInit
  <2> QED
    BY <2>1, Ledger!CloudInitially, LedgerAssumption
<1> QED
  BY <1>2, <1>3, <1>4, <1>5 DEF PipeInv

LEMMA PipeStep == PipeInv /\ [PipeNext]_pipeVars => PipeInv'
<1> SUFFICES ASSUME PipeInv, [PipeNext]_pipeVars PROVE PipeInv'
  OBVIOUS
<1>1. ASSUME NEW id \in Ops, BecomesDue(id) PROVE PipeInv'
  BY <1>1, QuietStep DEF BecomesDue, pushVars, boundVars
<1>2. ASSUME NEW s \in Slots, PushFails(s) PROVE PipeInv'
  BY <1>2, QuietStep DEF PushFails, RecordSyncFailure
<1>3. ASSUME NEW s \in Slots, CoreCrash(s) PROVE PipeInv'
  BY <1>3, QuietStep DEF CoreCrash
<1>4. CASE EdgeCrash
  BY <1>4, QuietStep DEF EdgeCrash
<1>5. CASE UNCHANGED pipeVars
  BY <1>5, QuietStep DEF pipeVars, pushVars, boundVars
<1> QED
  BY <1>1, <1>2, <1>3, <1>4, <1>5, CommandStep, CoreTransitionStep, SyncOnceStep, RespondStep,
     HandleStep, DatabaseErrorStep, BackupStep, RestoreStep DEF PipeNext

\* The pipeline's invariant, for outlets of any size, with any number of requests at the
\* same time, faults, retries, crashes and restores.
THEOREM PipelineInvariant == PipeSpec => []PipeInv
BY PipeInitially, PipeStep, PTL DEF PipeSpec

\* RecordSyncResults marks an operation synchronized only after core committed its inbox
\* row and its effect, and for reconciliation only when core refused it and opened a case;
\* a restore of the outlet's database does not change that.
THEOREM OutboxIsTruthful == PipeSpec => []OutboxTruthful
<1>1. PipeInv => OutboxTruthful
  <2> SUFFICES ASSUME PipeInv, NEW i \in DOMAIN operations
               PROVE  LET op == operations[i] IN
                      /\ outbox[op.id] = "synchronized" =>
                           op \in {events[k] : k \in DOMAIN events}
                           /\ inbox[op.id].status = "accepted"
                      /\ outbox[op.id] = "reconciliation" =>
                           op.id \in cases /\ op \notin {events[k] : k \in DOMAIN events}
    BY DEF OutboxTruthful, Logged
  <2>1. PICK op \in EdgeRow : op = operations[i]
    BY DEF PipeInv, OutletInv
  <2>2. op.id \in Ops /\ IsKnown(op)
    BY <2>1 DEF EdgeRow, OperationRow, IsKnown
  <2>3. /\ \A k \in DOMAIN events :
             inbox[events[k].id] = [body |-> events[k], status |-> "accepted"]
        /\ {events[k] : k \in DOMAIN events} =
             {inbox[id].body : id \in {j \in Ops : inbox[j] # None /\ inbox[j].status = "accepted"}}
        /\ cases = {id \in Ops : inbox[id] # None /\ inbox[id].status # "accepted"}
        /\ inbox[op.id] # None => inbox[op.id].body.id = op.id
    BY <2>2 DEF PipeInv, Ledger!CloudInv, Ledger!RowsFiled, Ledger!EvidenceMatchesEffect
  <2>4. CASE outbox[op.id] = "synchronized"
    <3>1. AcceptedRow(op.id)
      BY <2>2, <2>4 DEF PipeInv, TruthInv, Truthful
    <3>2. IsKnown(inbox[op.id].body) /\ inbox[op.id].body.id = op.id
      BY <2>2, <2>3, <3>1 DEF IsKnown, AcceptedRow
    <3>3. inbox[op.id].body = op
      BY <2>2, <3>2 DEF PipeInv, RegisteredInv
    <3> QED
      BY <2>1, <2>2, <2>3, <2>4, <3>1, <3>3 DEF AcceptedRow
  <2>5. CASE outbox[op.id] = "reconciliation"
    <3>1. RefusedRow(op.id)
      BY <2>2, <2>5 DEF PipeInv, TruthInv, Truthful
    <3>2. op \notin {events[k] : k \in DOMAIN events}
      <4>1. ASSUME NEW k \in DOMAIN events, events[k] = op PROVE FALSE
        <5>1. inbox[op.id] = [body |-> op, status |-> "accepted"]
          BY <2>3, <4>1
        <5> QED
          BY <3>1, <5>1 DEF RefusedRow
      <4> QED
        BY <4>1
    <3> QED
      BY <2>1, <2>2, <2>3, <2>5, <3>1, <3>2 DEF RefusedRow
  <2> QED
    BY <2>1, <2>4, <2>5
<1> QED
  BY <1>1, PipelineInvariant, PTL
-----------------------------------------------------------------------------
(* Core's part in the pipeline *)

\* Core changes only by an operation that an outlet logged or by its own staff.
LEMMA CoreSteps ==
  ASSUME PipeInv, [PipeNext]_pipeVars
  PROVE  \/ UNCHANGED coreVars
         \/ \E op \in EdgeRow : IsKnown(op) /\ Cloud!ApplySyncOperation(op)
         \/ \E o \in DirectOrders, to \in OrderStatus : Cloud!CoreTransitionOrder(o, to)
<1>1. ASSUME NEW s \in Slots, handleSyncOperations(s) \/ DatabaseError(s)
      PROVE  \/ UNCHANGED coreVars
             \/ \E op \in EdgeRow : IsKnown(op) /\ Cloud!ApplySyncOperation(op)
  BY <1>1, NextOperationFacts DEF handleSyncOperations, DatabaseError
<1>2. CASE CoreTransition
  BY <1>2 DEF CoreTransition
<1>3. ASSUME NEW s \in Slots, SyncOnce(s) \/ Respond(s) \/ PushFails(s) \/ CoreCrash(s)
      PROVE  UNCHANGED coreVars
  BY <1>3 DEF SyncOnce, Respond, PushFails, CoreCrash
<1>4. CASE EdgeCommand \/ EdgeCrash \/ Backup \/ Restore \/ \E id \in Ops : BecomesDue(id)
  BY <1>4 DEF EdgeCommand, EdgeCrash, Backup, Restore, BecomesDue
<1>5. CASE UNCHANGED pipeVars
  BY <1>5 DEF pipeVars
<1> QED
  BY <1>1, <1>2, <1>3, <1>4, <1>5 DEF PipeNext

\* Core behind the batch endpoint, with its crashes and repeated requests, is core as
\* CoreSync has it, for outlets that send what EdgeStore logs.  So CoreSync's theorems hold
\* of it: the ledger is contiguous and an answer that was lost is given again.
THEOREM PipelineRunsCore == PipeSpec => Ledger!CloudSpec
<1>1. PipeInit => Ledger!CloudInit
  BY DEF PipeInit, Cloud!CloudInit, Ledger!CloudInit
<1>2. PipeInv /\ [PipeNext]_pipeVars => [Ledger!CloudNext]_(Ledger!cloudVars)
  <2> SUFFICES ASSUME PipeInv, [PipeNext]_pipeVars PROVE [Ledger!CloudNext]_(Ledger!cloudVars)
    OBVIOUS
  <2>1. CASE UNCHANGED coreVars
    BY <2>1 DEF coreVars, Ledger!cloudVars
  <2>2. ASSUME NEW op \in EdgeRow, Cloud!ApplySyncOperation(op) PROVE Ledger!CloudNext
    BY <2>2, LedgerSteps DEF Ledger!CloudNext
  <2>3. ASSUME NEW o \in DirectOrders, NEW to \in OrderStatus, Cloud!CoreTransitionOrder(o, to)
        PROVE  Ledger!CloudNext
    BY <2>3, LedgerTransitions, LedgerAssumption DEF Ledger!CloudNext
  <2> QED
    BY <2>1, <2>2, <2>3, CoreSteps
<1> QED
  BY <1>1, <1>2, PipelineInvariant, PTL DEF PipeSpec, Ledger!CloudSpec

\* The version of an order row at core is the rank of its status, unless it is cancelled,
\* whoever moved it; and its consumption was posted when it is completed, once.
CloudRanked ==
  \A o \in Orders :
    /\ cloudStatus[o] # None =>
         /\ cloudStatus[o] \in OrderStatus /\ cloudVersion[o] \in 1..5
         /\ cloudStatus[o] = "cancelled" \/ cloudVersion[o] = Rank(cloudStatus[o]) + 1
    /\ cloudStatus[o] = None => cloudVersion[o] = 0
    /\ consumptions[o] = IF cloudStatus[o] = "completed" THEN 1 ELSE 0

LEMMA AppliedRanked ==
  ASSUME PipeInv, CloudRanked, NEW op \in EdgeRow, Cloud!ApplySyncOperation(op)
  PROVE  CloudRanked'
<1>1. CASE UNCHANGED <<cloudStatus, cloudVersion, consumptions>>
  BY <1>1 DEF CloudRanked
<1>2. CASE Cloud!CommitAccepted(op)
  <2>1. /\ cloudStatus \in [Orders -> OrderStatus \cup TicketStatus \cup {None}]
        /\ cloudVersion \in [Orders -> Nat] /\ consumptions \in [Orders -> Nat]
    BY LedgerAssumption DEF PipeInv, Ledger!CloudInv, Ledger!CloudTypeOK
  <2>2. Cloud!projectOperationalMutation(op)
    BY <1>2 DEF Cloud!CommitAccepted
  <2>3. /\ op.ver \in 1..5 /\ op.to \in OrderStatus \cup TicketStatus
        /\ op.command \in {"order.create", "order.transition", "kitchenTicket.transitionAll"} =>
             op.agg \in Orders
        /\ op.command = "order.create" => op.ver = 1
        /\ op.command \in {"order.transition", "kitchenTicket.transitionAll"} =>
             op.to = "cancelled" \/ op.ver = Rank(Cloud!projectedStatus(op.to)) + 1
    BY DEF EdgeRow, OperationRow
  <2>4. CASE op.command = "order.create" /\ cloudStatus[op.agg] = None
    <3>1. /\ cloudStatus' = [cloudStatus EXCEPT ![op.agg] = "received"]
          /\ cloudVersion' = [cloudVersion EXCEPT ![op.agg] = 1] /\ UNCHANGED consumptions
      BY <2>2, <2>3, <2>4 DEF Cloud!projectOperationalMutation
    <3> QED
      BY <2>1, <2>3, <2>4, <3>1, NoneAssumption DEF CloudRanked, OrderStatus, Rank
  <2>5. CASE /\ op.command \in {"order.transition", "kitchenTicket.transitionAll"}
             /\ cloudStatus[op.agg] # None /\ cloudVersion[op.agg] < op.ver
    <3>1. PICK p : p = Cloud!projectedStatus(op.to)
      OBVIOUS
    <3>2. /\ p \in OrderStatus /\ (op.to = "cancelled" <=> p = "cancelled")
          /\ (op.to = "completed" <=> p = "completed")
      BY <2>3, <3>1 DEF Cloud!projectedStatus, OrderStatus, TicketStatus
    <3>3. /\ cloudStatus' = [cloudStatus EXCEPT ![op.agg] = p]
          /\ cloudVersion' = [cloudVersion EXCEPT ![op.agg] = op.ver]
          /\ consumptions' = [consumptions EXCEPT ![op.agg] =
                                IF op.to = "completed" THEN @ + 1 ELSE @]
      BY <2>2, <2>5, <3>1 DEF Cloud!projectOperationalMutation
    <3>4. cloudStatus[op.agg] # "completed" /\ consumptions[op.agg] = 0
      BY <2>3, <2>5 DEF CloudRanked, Rank
    <3>5. p = "cancelled" \/ op.ver = Rank(p) + 1
      BY <2>3, <2>5, <3>1, <3>2
    <3>6. /\ cloudStatus'[op.agg] = p /\ cloudVersion'[op.agg] = op.ver
          /\ consumptions'[op.agg] = IF p = "completed" THEN 1 ELSE 0
      BY <2>1, <2>3, <2>5, <3>2, <3>3, <3>4
    <3>7. ASSUME NEW o \in Orders, o # op.agg
          PROVE  /\ cloudStatus'[o] = cloudStatus[o] /\ cloudVersion'[o] = cloudVersion[o]
                 /\ consumptions'[o] = consumptions[o]
      BY <2>1, <3>3, <3>7
    <3> QED
      BY <2>3, <3>2, <3>5, <3>6, <3>7, NoneAssumption DEF CloudRanked
  <2> QED
    BY <1>1, <2>2, <2>4, <2>5 DEF Cloud!projectOperationalMutation
<1> QED
  BY <1>1, <1>2 DEF Cloud!ApplySyncOperation, Cloud!CommitProblem, Cloud!NoCommit

LEMMA TransitionRanked ==
  ASSUME PipeInv, CloudRanked, NEW o \in DirectOrders, NEW to \in OrderStatus,
         Cloud!CoreTransitionOrder(o, to)
  PROVE  CloudRanked'
<1>1. /\ o \in Orders /\ cloudStatus \in [Orders -> OrderStatus \cup TicketStatus \cup {None}]
      /\ cloudVersion \in [Orders -> Nat] /\ consumptions \in [Orders -> Nat]
  BY LedgerAssumption DEF PipeInv, Ledger!CloudInv, Ledger!CloudTypeOK
<1>2. /\ cloudStatus[o] # None /\ Cloud!CanTransitionOrder(cloudStatus[o], to)
      /\ cloudStatus' = [cloudStatus EXCEPT ![o] = to]
      /\ cloudVersion' = [cloudVersion EXCEPT ![o] = @ + 1]
      /\ consumptions' = [consumptions EXCEPT ![o] = IF to = "completed" THEN @ + 1 ELSE @]
  BY DEF Cloud!CoreTransitionOrder
<1>3. /\ cloudStatus[o] \in OrderStatus \ Terminal
      /\ to = "cancelled" \/ Rank(to) = Rank(cloudStatus[o]) + 1
  BY <1>1, <1>2 DEF CloudRanked, Cloud!CanTransitionOrder, Cloud!Terminal, Terminal, Rank,
     OrderStatus
<1>4. /\ cloudVersion[o] = Rank(cloudStatus[o]) + 1 /\ Rank(cloudStatus[o]) \in 0..3
      /\ consumptions[o] = 0
  BY <1>1, <1>2, <1>3 DEF CloudRanked, Rank, Terminal, OrderStatus
<1>5. /\ cloudStatus'[o] = to /\ cloudVersion'[o] = Rank(cloudStatus[o]) + 2
      /\ consumptions'[o] = IF to = "completed" THEN 1 ELSE 0
  BY <1>1, <1>2, <1>4
<1>6. ASSUME NEW p \in Orders, p # o
      PROVE  /\ cloudStatus'[p] = cloudStatus[p] /\ cloudVersion'[p] = cloudVersion[p]
             /\ consumptions'[p] = consumptions[p]
  BY <1>1, <1>2, <1>6
<1> QED
  BY <1>3, <1>4, <1>5, <1>6, NoneAssumption DEF CloudRanked

LEMMA AlwaysRanked == PipeSpec => []CloudRanked
<1>1. PipeInit => CloudRanked
  <2> SUFFICES ASSUME PipeInit PROVE CloudRanked
    OBVIOUS
  <2> QED
    BY NoneAssumption DEF PipeInit, Cloud!CloudInit, CloudRanked, OrderStatus
<1>2. PipeInv /\ CloudRanked /\ [PipeNext]_pipeVars => CloudRanked'
  <2> SUFFICES ASSUME PipeInv, CloudRanked, [PipeNext]_pipeVars PROVE CloudRanked'
    OBVIOUS
  <2>1. CASE UNCHANGED coreVars
    BY <2>1 DEF coreVars, CloudRanked
  <2> QED
    BY <2>1, CoreSteps, AppliedRanked, TransitionRanked
<1> QED
  BY <1>1, <1>2, PipelineInvariant, PTL DEF PipeSpec

\* However often an outlet repeats its work after a restore, and whatever core's staff do
\* with the same orders, the ledger has an operation and an aggregate version once and
\* completing an order posts its recipe consumption once.
THEOREM EffectsHappenOnceAtCore == PipeSpec => []EffectsOnce
<1>1. PipeInv /\ CloudRanked => EffectsOnce
  <2> SUFFICES ASSUME PipeInv, CloudRanked PROVE EffectsOnce
    OBVIOUS
  <2>1. /\ events \in Seq(EdgeRow) /\ Ledger!LedgerContiguous
        /\ \A i, j \in DOMAIN events : events[i].id = events[j].id => i = j
    BY DEF PipeInv, Ledger!CloudInv, Ledger!CloudTypeOK, Ledger!EvidenceMatchesEffect
  <2>2. DOMAIN events = 1..Len(events) /\ Len(events) \in Nat
    BY <2>1, LenProperties
  <2>3. ASSUME NEW i \in DOMAIN events, NEW j \in DOMAIN events, j < i,
               events[i].agg = events[j].agg
        PROVE  events[i].ver # events[j].ver
    <3>1. events[i] \in EdgeRow /\ events[j] \in EdgeRow
      BY <2>1
    <3>2. events[i].type = events[j].type /\ events[i].ver \in Nat
      BY <2>3, <3>1 DEF EdgeRow, OperationRow
    <3>3. events[j].ver \in Ledger!VersionsBefore(i)
      BY <2>2, <2>3, <3>2 DEF Ledger!VersionsBefore
    <3>4. Ledger!VersionsBefore(i) = Ledger!FirstVersion(events[i].type)..(events[i].ver - 1)
      BY <2>1 DEF Ledger!LedgerContiguous
    <3> QED
      BY <3>2, <3>3, <3>4 DEF Ledger!FirstVersion
  <2>4. ASSUME NEW i \in DOMAIN events, NEW j \in DOMAIN events, i # j,
               events[i].agg = events[j].agg
        PROVE  events[i].ver # events[j].ver
    BY <2>2, <2>3, <2>4
  <2>5. \A o \in Orders : consumptions[o] <= 1
    BY DEF CloudRanked
  <2> QED
    BY <2>1, <2>4, <2>5 DEF EffectsOnce
<1> QED
  BY <1>1, AlwaysRanked, PipelineInvariant, PTL
-----------------------------------------------------------------------------
(* Outlets that are not restored *)

\* What is synchronized stays so: a row is written again only while it is pending.
LEMMA SynchronizedStays ==
  ASSUME PipeInv, [PipeNext]_pipeVars, ~Restore
  PROVE  \A id \in Ops : outbox[id] = "synchronized" => outbox'[id] = "synchronized"
<1>1. outbox \in [Ops -> OutboxState]
  BY DEF PipeInv, OutletInv
<1>2. CASE EdgeCommand
  <2>1. PICK new : new = issued + 1
    OBVIOUS
  <2>2. outbox' = [outbox EXCEPT ![new] = "pending"] /\ issued \in Nat
    BY <1>2, <2>1 DEF EdgeCommand, PipeInv, OutletInv
  <2>3. ASSUME new \in Ops, outbox[new] = "synchronized" PROVE FALSE
    <3>1. AcceptedRow(new)
      BY <2>3 DEF PipeInv, TruthInv, Truthful
    <3>2. inbox[new].body.id = new /\ IsKnown(inbox[new].body)
      BY <2>3, <3>1 DEF AcceptedRow, IsKnown, PipeInv, Ledger!CloudInv, Ledger!RowsFiled
    <3>3. new \in 1..issued
      BY <3>2 DEF PipeInv, RegisteredInv
    <3> QED
      BY <2>1, <2>2, <3>3
  <2> QED
    BY <1>1, <2>2, <2>3
<1>3. ASSUME NEW s \in Slots, Respond(s)
      PROVE  \A id \in Ops : outbox[id] = "synchronized" => outbox'[id] = "synchronized"
  BY <1>1, <1>3 DEF Respond, RecordSyncResults
<1>4. ASSUME NEW s \in Slots,
             SyncOnce(s) \/ handleSyncOperations(s) \/ DatabaseError(s) \/ PushFails(s) \/ CoreCrash(s)
      PROVE  UNCHANGED outbox
  BY <1>4 DEF SyncOnce, handleSyncOperations, DatabaseError, PushFails, RecordSyncFailure, CoreCrash
<1>5. CASE CoreTransition \/ EdgeCrash \/ Backup \/ \E id \in Ops : BecomesDue(id)
  BY <1>5 DEF CoreTransition, EdgeCrash, Backup, BecomesDue
<1>6. CASE UNCHANGED pipeVars
  BY <1>6 DEF pipeVars
<1> QED
  BY <1>2, <1>3, <1>4, <1>5, <1>6 DEF PipeNext

\* A request keeps its batch until it ends.
LEMMA BatchesStay ==
  ASSUME PipeInv, [PipeNext]_pipeVars, NEW t \in Slots, requests'[t] # None
  PROVE  \/ requests[t] # None /\ requests'[t].batch = requests[t].batch
         \/ SyncOnce(t)
<1>1. requests \in [Slots -> Request \cup {None}]
  BY DEF PipeInv, RequestsInv
<1>2. ASSUME NEW s \in Slots, SyncOnce(s), s # t PROVE requests'[t] = requests[t]
  BY <1>1, <1>2 DEF SyncOnce
<1>3. ASSUME NEW s \in Slots, requests' = [requests EXCEPT ![s] = None]
      PROVE  requests'[t] = requests[t]
  BY <1>1, <1>3
<1>4. ASSUME NEW s \in Slots, Unfinished(s), NEW r, AddResult(s, r)
      PROVE  requests[t] # None /\ requests'[t].batch = requests[t].batch
  <2>1. CASE s # t
    BY <1>1, <1>4, <2>1 DEF AddResult
  <2>2. CASE s = t
    <3>1. requests[t] # None /\ requests[t] \in Request
      BY <1>1, <1>4, <2>2 DEF Unfinished
    <3>2. requests'[t] = [requests[t] EXCEPT !.results = Append(requests[t].results, r)]
      BY <1>1, <1>4, <2>2 DEF AddResult
    <3> QED
      BY <3>1, <3>2 DEF Request
  <2> QED
    BY <2>1, <2>2
<1>5. ASSUME NEW s \in Slots, Respond(s) \/ CoreCrash(s) \/ PushFails(s)
      PROVE  requests'[t] = requests[t]
  BY <1>3, <1>5 DEF Respond, CoreCrash, PushFails
<1>6. ASSUME NEW s \in Slots, handleSyncOperations(s) \/ DatabaseError(s)
      PROVE  requests[t] # None /\ requests'[t].batch = requests[t].batch
  BY <1>4, <1>6 DEF handleSyncOperations, DatabaseError
<1>7. CASE EdgeCommand \/ CoreTransition \/ EdgeCrash \/ Backup \/ Restore
             \/ \E id \in Ops : BecomesDue(id)
  BY <1>7 DEF EdgeCommand, CoreTransition, EdgeCrash, Backup, Restore, BecomesDue, pushVars
<1>8. CASE UNCHANGED pipeVars
  BY <1>8 DEF pipeVars, pushVars
<1> QED
  BY <1>2, <1>5, <1>6, <1>7, <1>8 DEF PipeNext

\* The n-th operation of the log is the n-th command, and whatever is on its way to core
\* follows only synchronized operations of its stream.
LogInOrder ==
  /\ restores \in Nat /\ backup = None
  /\ Len(operations) = issued
  /\ \A i \in 1..issued : operations[i].id = i

PredecessorsSynchronized(op) ==
  \A j \in 1..(op.id - 1) : operations[j].stream = op.stream => outbox[j] = "synchronized"

HeadsInv ==
  \A s \in Slots : requests[s] # None =>
    \A k \in DOMAIN requests[s].batch : PredecessorsSynchronized(requests[s].batch[k])

\* The log grows by commands only.
LEMMA LogGrows ==
  ASSUME MaxRestores = 0, PipeInv, LogInOrder, [PipeNext]_pipeVars
  PROVE  /\ ~Restore
         /\ UNCHANGED <<edgeVars, issued>> \/ EdgeCommand
         /\ restores' = restores /\ backup' = None
<1>1. ~Restore /\ ~Backup
  BY DEF LogInOrder, Restore, Backup
<1>2. ASSUME NEW s \in Slots,
             SyncOnce(s) \/ Respond(s) \/ handleSyncOperations(s) \/ DatabaseError(s)
               \/ PushFails(s) \/ CoreCrash(s)
      PROVE  UNCHANGED <<edgeVars, issued, restores, backup>>
  BY <1>2 DEF SyncOnce, Respond, handleSyncOperations, DatabaseError, PushFails, CoreCrash, boundVars
<1>3. CASE CoreTransition \/ EdgeCrash \/ \E id \in Ops : BecomesDue(id)
  BY <1>1, <1>3 DEF CoreTransition, EdgeCrash, BecomesDue, boundVars, LogInOrder
<1>4. CASE EdgeCommand
  BY <1>1, <1>4 DEF EdgeCommand, boundVars, LogInOrder
<1>5. CASE UNCHANGED pipeVars
  BY <1>1, <1>5 DEF pipeVars, boundVars, LogInOrder
<1> QED
  BY <1>1, <1>2, <1>3, <1>4, <1>5 DEF PipeNext, LogInOrder

LEMMA LogInOrderStep ==
  ASSUME MaxRestores = 0, PipeInv, LogInOrder, [PipeNext]_pipeVars
  PROVE  LogInOrder' /\ issued <= issued' /\ \A i \in 1..issued : operations'[i] = operations[i]
<1>1. issued \in Nat /\ operations \in Seq(EdgeRow)
  BY DEF PipeInv, OutletInv
<1>2. CASE UNCHANGED <<edgeVars, issued>>
  BY <1>1, <1>2, LogGrows DEF LogInOrder, edgeVars
<1>3. CASE EdgeCommand
  <2>1. PICK op \in EdgeRow : Commits(op)
    BY <1>1, <1>3, CommandCommits DEF PipeInv, OutletInv
  <2>2. /\ issued' = issued + 1 /\ operations' = Append(operations, op) /\ op.id = issued + 1
    BY <1>3, <2>1 DEF Commits, EdgeCommand
  <2>3. /\ Len(operations') = issued + 1 /\ operations'[issued + 1] = op
        /\ \A i \in 1..issued : operations'[i] = operations[i]
    BY <1>1, <2>2, AppendProperties DEF LogInOrder
  <2>4. \A i \in 1..(issued + 1) : operations'[i].id = i
    BY <1>1, <2>2, <2>3 DEF LogInOrder
  <2> QED
    BY <1>1, <2>2, <2>3, <2>4, LogGrows DEF LogInOrder
<1> QED
  BY <1>2, <1>3, LogGrows

\* What core knows or is sent is in the log, at its id.
LEMMA KnownInLog ==
  ASSUME PipeInv, LogInOrder, NEW op, IsKnown(op)
  PROVE  op.id \in 1..issued /\ op = operations[op.id]
<1>1. op.id \in 1..issued /\ issued \in Nat /\ operations \in Seq(EdgeRow)
  BY DEF PipeInv, OutletInv, RegisteredInv
<1>2. op.id \in DOMAIN operations
  BY <1>1, LenProperties DEF LogInOrder
<1>3. IsKnown(operations[op.id]) /\ operations[op.id].id = op.id
  BY <1>1, <1>2 DEF IsKnown, LogInOrder
<1> QED
  BY <1>1, <1>3 DEF PipeInv, RegisteredInv

LEMMA HeadsStep ==
  ASSUME MaxRestores = 0, PipeInv, LogInOrder, HeadsInv, [PipeNext]_pipeVars
  PROVE  HeadsInv'
<1>1. issued \in Nat /\ issued <= issued' /\ \A i \in 1..issued : operations'[i] = operations[i]
  BY LogInOrderStep DEF PipeInv, OutletInv
<1>2. /\ operations \in Seq(EdgeRow) /\ DOMAIN operations = 1..issued
      /\ \A i \in 1..issued : operations[i].id = i /\ i \in Ops
  <2>1. operations \in Seq(EdgeRow) /\ DOMAIN operations = 1..issued
    BY LenProperties DEF PipeInv, OutletInv, LogInOrder
  <2> QED
    BY <2>1 DEF LogInOrder, EdgeRow, OperationRow
<1>3. \A id \in Ops : outbox[id] = "synchronized" => outbox'[id] = "synchronized"
  BY LogGrows, SynchronizedStays
<1>4. ASSUME NEW op, op.id \in 1..issued, PredecessorsSynchronized(op)
      PROVE  PredecessorsSynchronized(op)'
  BY <1>1, <1>2, <1>3, <1>4 DEF PredecessorsSynchronized
<1>5. ASSUME NEW s \in Slots, requests'[s] # None, NEW k \in DOMAIN requests'[s].batch,
             NEW op, op = requests'[s].batch[k]
      PROVE  op.id \in 1..issued /\ PredecessorsSynchronized(op)
  <2>1. CASE requests[s] # None /\ requests'[s].batch = requests[s].batch
    <3>1. IsKnown(op)
      BY <1>5, <2>1 DEF IsKnown
    <3> QED
      BY <1>5, <2>1, <3>1, KnownInLog DEF HeadsInv
  <2>2. CASE SyncOnce(s)
    <3>1. PICK n \in 1..BatchSize : \E head \in [1..n -> PendingOperations] :
            requests' = [requests EXCEPT ![s] =
              [batch |-> [i \in 1..n |-> operations[head[i]]], results |-> <<>>]]
      BY <2>2 DEF SyncOnce
    <3>2. PICK head \in [1..n -> PendingOperations] :
            requests' = [requests EXCEPT ![s] =
              [batch |-> [i \in 1..n |-> operations[head[i]]], results |-> <<>>]]
      BY <3>1
    <3>3. requests'[s].batch = [i \in 1..n |-> operations[head[i]]]
      BY <3>2 DEF PipeInv, RequestsInv
    <3>4. PICK h \in PendingOperations : op = operations[h]
      BY <1>5, <3>3
    <3>5. /\ h \in 1..issued
          /\ \A j \in 1..(h - 1) : operations[j].stream = operations[h].stream =>
               outbox[operations[j].id] = "synchronized"
      BY <1>2, <3>4 DEF PendingOperations
    <3>6. op.id = h
      BY <1>2, <3>4, <3>5
    <3> QED
      BY <1>1, <1>2, <3>4, <3>5, <3>6 DEF PredecessorsSynchronized
  <2> QED
    BY <1>5, <2>1, <2>2, BatchesStay
<1> QED
  BY <1>4, <1>5 DEF HeadsInv, PredecessorsSynchronized

UnrestoredInv == PipeInv /\ LogInOrder /\ HeadsInv

\* Streams are held back: an operation is on its way to core only after all its predecessors
\* in the stream are synchronized.
THEOREM UnrestoredInvariant ==
  ASSUME MaxRestores = 0
  PROVE  PipeSpec => []UnrestoredInv
<1>1. PipeInit => LogInOrder /\ HeadsInv
  BY DEF PipeInit, Init, LogInOrder, HeadsInv
<1>2. PipeInv /\ LogInOrder /\ HeadsInv /\ [PipeNext]_pipeVars => LogInOrder' /\ HeadsInv'
  BY LogInOrderStep, HeadsStep
<1> QED
  BY <1>1, <1>2, PipelineInvariant, PTL DEF PipeSpec, UnrestoredInv

\* An accepted operation and its effect.
LEMMA AcceptedHasEffect ==
  ASSUME PipeInv, LogInOrder, NEW id \in Ops, AcceptedRow(id)
  PROVE  /\ id \in 1..issued /\ operations[id].id = id
         /\ operations[id] \in {events[k] : k \in DOMAIN events}
<1>1. inbox[id].body.id = id /\ IsKnown(inbox[id].body)
  BY DEF AcceptedRow, IsKnown, PipeInv, Ledger!CloudInv, Ledger!RowsFiled
<1>2. inbox[id].body \in {events[k] : k \in DOMAIN events}
  BY DEF AcceptedRow, PipeInv, Ledger!CloudInv, Ledger!EvidenceMatchesEffect
<1> QED
  BY <1>1, <1>2, KnownInLog

\* An operation that takes its effect has its predecessors' effects before it.
LEMMA AppliedInOrder ==
  ASSUME UnrestoredInv, NEW s \in Slots, Unfinished(s), NEW op, op = NextOperation(s)
  PROVE  /\ op.id \in 1..issued /\ op = operations[op.id] /\ op \in EdgeRow
         /\ \A j \in 1..(op.id - 1) : operations[j].stream = op.stream =>
              operations[j] \in {events[k] : k \in DOMAIN events}
<1>1. op.id \in 1..issued /\ op = operations[op.id] /\ op \in EdgeRow /\ issued \in Nat
  BY NextOperationFacts, KnownInLog DEF UnrestoredInv, PipeInv, OutletInv
<1>2. PredecessorsSynchronized(op)
  <2>1. requests[s] # None /\ Len(requests[s].results) < Len(requests[s].batch)
    BY DEF Unfinished
  <2>2. /\ Len(requests[s].results) \in Nat /\ Len(requests[s].batch) \in Nat
        /\ DOMAIN requests[s].batch = 1..Len(requests[s].batch)
    BY <2>1, RequestFacts DEF UnrestoredInv, PipeInv
  <2>3. Len(requests[s].results) + 1 \in DOMAIN requests[s].batch
    BY <2>1, <2>2
  <2> QED
    BY <2>1, <2>3 DEF UnrestoredInv, HeadsInv, NextOperation
<1>3. ASSUME NEW j \in 1..(op.id - 1), operations[j].stream = op.stream
      PROVE  operations[j] \in {events[k] : k \in DOMAIN events}
  <2>1. outbox[j] = "synchronized" /\ j \in 1..issued
    BY <1>1, <1>2, <1>3 DEF PredecessorsSynchronized
  <2>2. j \in Ops
    <3>1. operations[j] \in EdgeRow /\ operations[j].id = j
      BY <2>1, LenProperties DEF UnrestoredInv, PipeInv, OutletInv, LogInOrder
    <3> QED
      BY <3>1 DEF EdgeRow, OperationRow
  <2>3. AcceptedRow(j)
    BY <2>1, <2>2 DEF UnrestoredInv, PipeInv, TruthInv, Truthful
  <2> QED
    BY <2>2, <2>3, AcceptedHasEffect DEF UnrestoredInv
<1> QED
  BY <1>1, <1>3

\* A command logs an operation.
LEMMA CommandLogs ==
  ASSUME UnrestoredInv, EdgeCommand
  PROVE  Promise!DeliveryNext
<1>1. PICK op \in EdgeRow : Commits(op)
  BY CommandCommits DEF UnrestoredInv, PipeInv, OutletInv
<1>2. /\ issued \in Nat /\ operations \in Seq(EdgeRow) /\ Len(operations) = issued
      /\ operations' = Append(operations, op) /\ op.id = issued + 1 /\ op.id \in Ops
      /\ outbox' = [outbox EXCEPT ![op.id] = "pending"] /\ UNCHANGED events
      /\ outbox \in [Ops -> OutboxState]
  BY <1>1 DEF Commits, EdgeCommand, UnrestoredInv, PipeInv, OutletInv, LogInOrder, coreVars,
     EdgeRow, OperationRow
<1>3. Len(operations') = Len(operations) + 1 /\ operations'[Len(operations')] = op
  BY <1>2, AppendProperties
<1>4. op.id \notin {e.id : e \in Promise!Logged}
  <2>1. \A i \in DOMAIN operations : operations[i].id # op.id
    BY <1>2, LenProperties DEF UnrestoredInv, LogInOrder
  <2> QED
    BY <2>1 DEF Promise!Logged
<1>5. {id \in Ops : outbox'[id] = "synchronized"} = {id \in Ops : outbox[id] = "synchronized"}
  <2>1. \A id \in Ops : outbox[id] = "synchronized" => outbox'[id] = "synchronized"
    <3>1. ~Restore /\ [PipeNext]_pipeVars
      <4>1. issued' = issued + 1
        BY DEF EdgeCommand
      <4>2. issued' # issued
        BY <1>2, <4>1
      <4> QED
        BY <4>2 DEF Restore, PipeNext
    <3> QED
      BY <3>1, SynchronizedStays DEF UnrestoredInv
  <2>2. \A id \in Ops : outbox'[id] = "synchronized" => outbox[id] = "synchronized"
    BY <1>2
  <2> QED
    BY <2>1, <2>2
<1>6. Promise!LogOperation(op)
  BY <1>2, <1>4, <1>5 DEF Promise!LogOperation
<1> QED
  BY <1>3, <1>6 DEF Promise!DeliveryNext

\* Core's transaction is the operation's effect, or changes nothing the promise speaks of.
LEMMA ApplyIsEffect ==
  ASSUME UnrestoredInv, NEW s \in Slots, Unfinished(s), NEW op, op = NextOperation(s),
         Cloud!ApplySyncOperation(op), UNCHANGED <<operations, outbox>>
  PROVE  Promise!DeliveryNext \/ UNCHANGED Promise!deliveryVars
<1>1. /\ op.id \in 1..issued /\ op = operations[op.id] /\ op \in EdgeRow
      /\ \A j \in 1..(op.id - 1) : operations[j].stream = op.stream =>
           operations[j] \in {events[k] : k \in DOMAIN events}
  BY AppliedInOrder
<1>2. CASE UNCHANGED events
  BY <1>2 DEF Promise!deliveryVars
<1>3. CASE Cloud!CommitAccepted(op)
  <2>1. events' = Append(events, op) /\ Cloud!acceptSyncOperation(op) = "ACCEPTED"
    BY <1>3 DEF Cloud!CommitAccepted
  <2>2. inbox[op.id] = None
    BY <2>1 DEF Cloud!acceptSyncOperation, Cloud!existingSyncOutcome
  <2>3. op \notin {events[k] : k \in DOMAIN events}
    <3>1. ASSUME NEW k \in DOMAIN events, events[k] = op PROVE FALSE
      <4>1. inbox[op.id] = [body |-> op, status |-> "accepted"]
        BY <3>1 DEF UnrestoredInv, PipeInv, Ledger!CloudInv, Ledger!RowsFiled
      <4> QED
        BY <1>1, <2>2, <4>1, LedgerAssumption
    <3> QED
      BY <3>1
  <2>4. op.id \in DOMAIN operations
    BY <1>1, LenProperties DEF UnrestoredInv, PipeInv, OutletInv, LogInOrder
  <2>5. Promise!Effect(op.id)
    BY <1>1, <2>1, <2>3 DEF Promise!Effect, Promise!Effected
  <2> QED
    BY <2>4, <2>5 DEF Promise!DeliveryNext
<1> QED
  BY <1>2, <1>3 DEF Cloud!ApplySyncOperation, Cloud!CommitProblem, Cloud!NoCommit

\* RecordSyncResults confirms operations that took effect.
LEMMA RespondConfirms ==
  ASSUME UnrestoredInv, UnrestoredInv', NEW s \in Slots, Respond(s)
  PROVE  Promise!DeliveryNext
<1>1. UNCHANGED <<operations, events>>
  BY DEF Respond, edgeVars, coreVars
<1>2. {id \in Ops : outbox'[id] = "synchronized"} \subseteq {e.id : e \in Promise!Effected}
  <2>1. ASSUME NEW id \in Ops, outbox'[id] = "synchronized"
        PROVE  id \in {e.id : e \in Promise!Effected}
    <3>1. AcceptedRow(id)'
      BY <2>1 DEF UnrestoredInv, PipeInv, TruthInv, Truthful
    <3>2. AcceptedRow(id)
      BY <3>1 DEF AcceptedRow, Respond, coreVars
    <3>3. operations[id].id = id /\ operations[id] \in Promise!Effected
      BY <3>2, AcceptedHasEffect DEF UnrestoredInv, Promise!Effected
    <3> QED
      BY <3>3
  <2> QED
    BY <2>1
<1>3. \A id \in Ops : outbox[id] = "synchronized" => outbox'[id] = "synchronized"
  BY DEF Respond, RecordSyncResults
<1>4. {id \in Ops : outbox'[id] = "synchronized"} =
        {id \in Ops : outbox[id] = "synchronized"} \cup {id \in Ops : outbox'[id] = "synchronized"}
  BY <1>3
<1>5. Promise!Confirm({id \in Ops : outbox'[id] = "synchronized"})
  BY <1>1, <1>2, <1>4 DEF Promise!Confirm
<1> QED
  BY <1>5 DEF Promise!DeliveryNext

\* An outlet that is not restored and core together keep Delivery's promise: exactly-once,
\* in stream order, and confirmed only after the effect, whatever requests are lost, run
\* beside their retry, or are cut off by a crash of either process.
THEOREM PipelineDelivers ==
  ASSUME MaxRestores = 0
  PROVE  PipeSpec => ImplementsDelivery
<1>1. PipeInit => Promise!DeliveryInit
  <2> SUFFICES ASSUME PipeInit PROVE Promise!DeliveryInit
    OBVIOUS
  <2>1. {id \in Ops : outbox[id] = "synchronized"} = {}
    BY PipelineAssumption DEF PipeInit
  <2> QED
    BY <2>1 DEF PipeInit, Init, Cloud!CloudInit, Promise!DeliveryInit
<1>2. UnrestoredInv /\ UnrestoredInv' /\ [PipeNext]_pipeVars =>
        [Promise!DeliveryNext]_(Promise!deliveryVars)
  <2> SUFFICES ASSUME UnrestoredInv, UnrestoredInv', [PipeNext]_pipeVars
               PROVE  Promise!DeliveryNext \/ UNCHANGED Promise!deliveryVars
    OBVIOUS
  <2>1. ~Restore /\ ~Backup
    BY DEF UnrestoredInv, LogInOrder, Restore, Backup
  <2>2. CASE UNCHANGED <<operations, outbox, events>>
    BY <2>2 DEF Promise!deliveryVars
  <2>3. ASSUME NEW s \in Slots, SyncOnce(s) \/ PushFails(s) \/ CoreCrash(s)
        PROVE  UNCHANGED <<operations, outbox, events>>
    BY <2>3 DEF SyncOnce, PushFails, RecordSyncFailure, CoreCrash, edgeVars, coreVars
  <2>4. ASSUME NEW s \in Slots, handleSyncOperations(s) \/ DatabaseError(s)
        PROVE  Promise!DeliveryNext \/ UNCHANGED Promise!deliveryVars
    <3>1. PICK op : op = NextOperation(s)
      OBVIOUS
    <3>2. /\ Unfinished(s) /\ UNCHANGED <<operations, outbox>>
          /\ UNCHANGED coreVars \/ Cloud!ApplySyncOperation(op)
      BY <2>4, <3>1 DEF handleSyncOperations, DatabaseError, edgeVars
    <3>3. CASE UNCHANGED coreVars
      BY <2>2, <3>2, <3>3 DEF coreVars
    <3> QED
      BY <3>1, <3>2, <3>3, ApplyIsEffect
  <2>5. CASE CoreTransition \/ EdgeCrash \/ \E id \in Ops : BecomesDue(id)
    <3>1. UNCHANGED <<operations, outbox, events>>
      BY <2>5 DEF CoreTransition, Cloud!CoreTransitionOrder, EdgeCrash, BecomesDue, edgeVars, coreVars
    <3> QED
      BY <2>2, <3>1
  <2>6. CASE UNCHANGED pipeVars
    BY <2>2, <2>6 DEF pipeVars, edgeVars, coreVars
  <2> QED
    BY <2>1, <2>2, <2>3, <2>4, <2>5, <2>6, CommandLogs, RespondConfirms DEF PipeNext
<1> QED
  BY <1>1, <1>2, UnrestoredInvariant, PTL DEF PipeSpec, ImplementsDelivery, Promise!DeliverySpec

\* Without restores the outlet in the pipeline is the outlet as EdgeStore has it, so
\* EdgeStore's theorems hold of it.
THEOREM PipelineRunsStore ==
  ASSUME MaxRestores = 0
  PROVE  PipeSpec => Spec
<1>1. PipeInit => Init
  BY DEF PipeInit
<1>2. UnrestoredInv /\ [PipeNext]_pipeVars => [Next]_vars
  <2> SUFFICES ASSUME UnrestoredInv, [PipeNext]_pipeVars PROVE [Next]_vars
    OBVIOUS
  <2>1. CASE UNCHANGED edgeVars
    BY <2>1 DEF edgeVars, kitchenVars, vars
  <2>2. CASE EdgeCommand
    BY <2>2, CommandCommits DEF UnrestoredInv, PipeInv, OutletInv
  <2> QED
    BY <2>1, <2>2, LogGrows DEF UnrestoredInv
<1> QED
  BY <1>1, <1>2, UnrestoredInvariant, PTL DEF PipeSpec, Spec
-----------------------------------------------------------------------------
(* The order row at core *)

\* A logged cancellation is the last whole-order command of its order.
CancelledLast(o, i) ==
  operations[i].type = "order" /\ operations[i].agg = o /\ operations[i].to = "cancelled" =>
    /\ orderStatus[o] = "cancelled"
    /\ \A j \in 1..issued : operations[j].type = "order" /\ operations[j].agg = o => j <= i

CancelInv == \A o \in Orders : \A i \in 1..issued : CancelledLast(o, i)

\* What a command does to a log whose n-th operation is the n-th command.
LEMMA CommandInLog ==
  ASSUME UnrestoredInv, EdgeCommand, NEW op \in EdgeRow, Commits(op)
  PROVE  /\ issued \in Nat /\ issued' = issued + 1 /\ operations'[issued + 1] = op
         /\ \A i \in 1..issued : operations'[i] = operations[i]
<1>1. /\ issued \in Nat /\ operations \in Seq(EdgeRow) /\ Len(operations) = issued
      /\ operations' = Append(operations, op)
  BY DEF UnrestoredInv, PipeInv, OutletInv, LogInOrder, Commits
<1>2. issued' = issued + 1
  BY DEF EdgeCommand
<1> QED
  BY <1>1, <1>2, AppendProperties

LEMMA CancelStep ==
  ASSUME MaxRestores = 0, UnrestoredInv, CancelInv, [PipeNext]_pipeVars
  PROVE  CancelInv'
<1>1. CASE UNCHANGED <<edgeVars, issued>>
  BY <1>1 DEF CancelInv, CancelledLast, edgeVars, kitchenVars
<1>2. CASE EdgeCommand
  <2>1. PICK op \in EdgeRow : Commits(op)
    BY <1>2, CommandCommits DEF UnrestoredInv, PipeInv, OutletInv
  <2>2. /\ issued \in Nat /\ issued' = issued + 1 /\ operations'[issued + 1] = op
        /\ \A i \in 1..issued : operations'[i] = operations[i]
    BY <1>2, <2>1, CommandInLog
  <2>3. \A o \in Orders : orderStatus[o] = "cancelled" => orderStatus'[o] = "cancelled"
    <3>1. KitchenNext /\ KitchenInv
      BY <1>2, CommandCommits DEF UnrestoredInv, PipeInv, OutletInv, RowsInv
    <3>2. AllAdvance
      BY <3>1, NextStep
    <3> QED
      BY <3>1, <3>2, NoneAssumption DEF AllAdvance, OrderAdvances, Terminal, Exists, OrderStatus
  <2>4. ASSUME NEW o \in Orders, NEW i \in 1..(issued + 1),
               operations'[i].type = "order", operations'[i].agg = o,
               operations'[i].to = "cancelled"
        PROVE  /\ orderStatus'[o] = "cancelled"
               /\ \A j \in 1..(issued + 1) :
                    operations'[j].type = "order" /\ operations'[j].agg = o => j <= i
    <3>1. CASE i = issued + 1
      <4>1. orderStatus'[o] = Cloud!projectedStatus("cancelled")
        BY <2>1, <2>2, <2>4, <3>1 DEF Commits
      <4> QED
        BY <2>2, <3>1, <4>1 DEF Cloud!projectedStatus
    <3>2. CASE i \in 1..issued
      <4>1. /\ orderStatus[o] = "cancelled"
            /\ \A j \in 1..issued : operations[j].type = "order" /\ operations[j].agg = o => j <= i
        BY <2>2, <2>4, <3>2 DEF CancelInv, CancelledLast
      <4>2. ~(op.type = "order" /\ op.agg = o)
        BY <2>1, <4>1 DEF Commits, Terminal
      <4> QED
        BY <2>2, <2>3, <4>1, <4>2
    <3> QED
      BY <2>2, <3>1, <3>2
  <2> QED
    BY <2>2, <2>4 DEF CancelInv, CancelledLast
<1> QED
  BY <1>1, <1>2, LogGrows DEF UnrestoredInv

\* An order event of the ledger comes from the log.
LEMMA EventFacts ==
  ASSUME UnrestoredInv, NEW k \in DOMAIN events
  PROVE  /\ events[k] \in EdgeRow /\ events[k].id \in 1..issued
         /\ operations[events[k].id] = events[k]
<1>1. events \in Seq(EdgeRow)
  BY DEF UnrestoredInv, PipeInv, Ledger!CloudInv, Ledger!CloudTypeOK
<1>2. PICK e \in EdgeRow : e = events[k]
  BY <1>1
<1>3. inbox[e.id] = [body |-> e, status |-> "accepted"] /\ e.id \in Ops
  BY <1>2 DEF UnrestoredInv, PipeInv, Ledger!CloudInv, Ledger!RowsFiled, EdgeRow, OperationRow
<1>4. inbox[e.id] # None /\ inbox[e.id].body = e
  BY <1>2, <1>3, LedgerAssumption
<1>5. IsKnown(e)
  BY <1>3, <1>4 DEF IsKnown
<1> QED
  BY <1>2, <1>5, KnownInLog DEF UnrestoredInv

\* Events of an order grow in version.
LEMMA EventsGrow ==
  ASSUME PipeInv, NEW o \in Orders, NEW k \in DOMAIN events, NEW m \in DOMAIN events, m < k,
         events[k].type = "order", events[m].type = "order", events[k].agg = o, events[m].agg = o
  PROVE  events[m].ver < events[k].ver
<1>1. events \in Seq(EdgeRow) /\ Ledger!LedgerContiguous
  BY DEF PipeInv, Ledger!CloudInv, Ledger!CloudTypeOK
<1>2. DOMAIN events = 1..Len(events) /\ Len(events) \in Nat
  BY <1>1, LenProperties
<1>3. events[k] \in EdgeRow
  BY <1>1
<1>4. events[k].ver \in Nat
  BY <1>3 DEF EdgeRow, OperationRow
<1>5. events[m].ver \in Ledger!VersionsBefore(k)
  BY <1>2 DEF Ledger!VersionsBefore
<1>6. Ledger!VersionsBefore(k) = 1..(events[k].ver - 1)
  BY <1>1 DEF Ledger!LedgerContiguous, Ledger!FirstVersion
<1> QED
  BY <1>4, <1>5, <1>6

\* An operation that moves the row of an order that core knows has the next version.
LEMMA NextVersion ==
  ASSUME UnrestoredInv, DirectOrders = {}, NEW op \in EdgeRow,
         Cloud!acceptSyncOperation(op) = "ACCEPTED", op.type = "order",
         cloudStatus[op.agg] # None
  PROVE  /\ op.command # "order.create"
         /\ \E k \in DOMAIN events :
              /\ events[k].type = "order" /\ events[k].agg = op.agg
              /\ events[k].ver = op.ver - 1 /\ cloudVersion[op.agg] = op.ver - 1
              /\ cloudStatus[op.agg] = Cloud!projectedStatus(events[k].to)
<1>1. PICK o \in Orders : o = op.agg
  BY DEF EdgeRow
<1> DEFINE known == Ledger!VersionsAt("order", o)
<1>2. known # {} => \E k \in DOMAIN events :
        /\ Ledger!LastEventOf(o, k) /\ cloudVersion[o] = events[k].ver
        /\ cloudStatus[o] = Ledger!projectedStatus(events[k].to)
  BY <1>1 DEF UnrestoredInv, PipeInv, Ledger!CloudInv, Ledger!ProjectionFollowsLedger
<1>3. known # {}
  BY <1>1 DEF UnrestoredInv, PipeInv, Ledger!CloudInv, Ledger!ProjectionFollowsLedger
<1>4. known = 1..(op.ver - 1) /\ op.command # "order.create"
  <2>1. Ledger!CloudInv /\ Ledger!acceptSyncOperation(op) = "ACCEPTED"
    BY LedgerSteps DEF UnrestoredInv, PipeInv
  <2>2. /\ Ledger!VersionsAt(op.type, op.agg) = Ledger!FirstVersion(op.type)..(op.ver - 1)
        /\ op.type = "order" /\ Ledger!VersionsAt(op.type, op.agg) # {} =>
             op.command # "order.create"
    BY <2>1, Ledger!AcceptedIsNext, LedgerAssumption
  <2> QED
    BY <1>1, <1>3, <2>2 DEF Ledger!FirstVersion
<1>5. PICK k \in DOMAIN events :
        /\ Ledger!LastEventOf(o, k) /\ cloudVersion[o] = events[k].ver
        /\ cloudStatus[o] = Ledger!projectedStatus(events[k].to)
  BY <1>2, <1>3
<1>6. op.ver \in Nat /\ events[k].ver \in Nat
  <2>1. events[k] \in EdgeRow
    BY EventFacts
  <2> QED
    BY <2>1 DEF EdgeRow, OperationRow
<1>7. op.ver - 1 \in known
  BY <1>3, <1>4, <1>6
<1>8. PICK m \in DOMAIN events :
        events[m].type = "order" /\ events[m].agg = o /\ events[m].ver = op.ver - 1
  BY <1>7 DEF Ledger!VersionsAt
<1>9. events[k].type = "order" /\ events[k].agg = o /\ m <= k
  BY <1>5, <1>8 DEF Ledger!LastEventOf
<1>10. events[k].ver \in known
  BY <1>9 DEF Ledger!VersionsAt
<1>11. events[k].ver = op.ver - 1
  <2>1. m \in Nat /\ k \in Nat
    BY LenProperties DEF UnrestoredInv, PipeInv, Ledger!CloudInv, Ledger!CloudTypeOK
  <2>2. m = k \/ m < k
    BY <1>9, <2>1
  <2>3. m < k => op.ver - 1 < events[k].ver
    BY <1>8, <1>9, EventsGrow DEF UnrestoredInv
  <2> QED
    BY <1>4, <1>6, <1>8, <1>10, <2>2, <2>3
<1> QED
  BY <1>1, <1>4, <1>5, <1>9, <1>11, LedgerSteps

\* When only its outlet moves an order and that outlet is not restored, the order row at
\* core takes the steps of the order machine, although projectOperationalMutation does not
\* look at the status it replaces.
THEOREM CloudStepsAreValid ==
  ASSUME MaxRestores = 0, DirectOrders = {}
  PROVE  PipeSpec => CloudStepsValid
<1> DEFINE Valid == \A o \in Orders :
             cloudStatus[o] # None /\ cloudStatus'[o] # cloudStatus[o] =>
               CanTransitionOrder(cloudStatus[o], cloudStatus'[o])
<1>1. PipeInit => CancelInv
  BY DEF PipeInit, CancelInv
<1>2. UnrestoredInv /\ CancelInv /\ [PipeNext]_pipeVars => CancelInv'
  BY CancelStep
<1>3. UnrestoredInv /\ CancelInv /\ CloudRanked /\ VersionsIncrease /\ [PipeNext]_pipeVars =>
        [Valid]_pipeVars
  <2> SUFFICES ASSUME UnrestoredInv, CancelInv, CloudRanked, VersionsIncrease,
                      [PipeNext]_pipeVars, NEW o \in Orders,
                      cloudStatus[o] # None, cloudStatus'[o] # cloudStatus[o]
               PROVE  CanTransitionOrder(cloudStatus[o], cloudStatus'[o])
    OBVIOUS
  <2>1. PICK op \in EdgeRow : IsKnown(op) /\ Cloud!ApplySyncOperation(op)
    BY CoreSteps DEF UnrestoredInv, coreVars
  <2>2. Cloud!CommitAccepted(op)
    BY <2>1 DEF Cloud!ApplySyncOperation, Cloud!CommitProblem, Cloud!NoCommit
  <2>3. Cloud!acceptSyncOperation(op) = "ACCEPTED" /\ Cloud!projectOperationalMutation(op)
    BY <2>2 DEF Cloud!CommitAccepted
  <2>4. PICK p : p = Cloud!projectedStatus(op.to)
    OBVIOUS
  <2>5. cloudStatus \in [Orders -> OrderStatus \cup TicketStatus \cup {None}]
    BY LedgerAssumption DEF UnrestoredInv, PipeInv, Ledger!CloudInv, Ledger!CloudTypeOK
  <2>6. /\ op.command \in {"order.transition", "kitchenTicket.transitionAll"}
        /\ cloudStatus' = [cloudStatus EXCEPT ![op.agg] = p]
    BY <2>3, <2>4, <2>5 DEF Cloud!projectOperationalMutation
  <2>7. o = op.agg /\ cloudStatus'[o] = p
    BY <2>5, <2>6
  <2>8. /\ op.type = "order" /\ op.ver \in 1..5 /\ op.to \in OrderStatus \cup TicketStatus
        /\ op.to = "cancelled" \/ op.ver = Rank(p) + 1
    BY <2>4, <2>6 DEF EdgeRow, OperationRow
  <2>9. p \in OrderStatus /\ (op.to = "cancelled" <=> p = "cancelled")
    BY <2>4, <2>8 DEF Cloud!projectedStatus, OrderStatus, TicketStatus
  <2>10. PICK k \in DOMAIN events :
           /\ events[k].type = "order" /\ events[k].agg = o
           /\ events[k].ver = op.ver - 1 /\ cloudVersion[o] = op.ver - 1
           /\ cloudStatus[o] = Cloud!projectedStatus(events[k].to)
    BY <2>3, <2>7, <2>8, NextVersion
  <2>11. cloudStatus[o] # "cancelled"
    <3> SUFFICES ASSUME cloudStatus[o] = "cancelled" PROVE FALSE
      OBVIOUS
    <3>1. PICK e \in EdgeRow : e = events[k] /\ e.id \in 1..issued /\ operations[e.id] = e
      BY EventFacts
    <3>2. e.to = "cancelled"
      BY <2>10, <3>1 DEF Cloud!projectedStatus
    <3>3. op.id \in 1..issued /\ operations[op.id] = op
      BY <2>1, KnownInLog DEF UnrestoredInv
    <3>4. op.id <= e.id
      BY <2>7, <2>8, <2>10, <3>1, <3>2, <3>3 DEF CancelInv, CancelledLast
    <3>5. e.ver < op.ver
      BY <2>8, <2>10, <3>1
    <3>6. DOMAIN operations = 1..issued /\ issued \in Nat
      BY LenProperties DEF UnrestoredInv, PipeInv, OutletInv, LogInOrder
    <3>7. op.id < e.id => op.ver < e.ver
      BY <2>7, <2>8, <2>10, <3>1, <3>3, <3>6 DEF VersionsIncrease
    <3>8. op.id = e.id => op = e
      BY <3>1, <3>3
    <3>9. op.ver \in Nat /\ e.ver \in Nat
      BY <2>8, <3>1 DEF EdgeRow, OperationRow
    <3> QED
      BY <3>1, <3>3, <3>4, <3>5, <3>6, <3>7, <3>8, <3>9
  <2>12. cloudStatus[o] \in OrderStatus /\ Rank(cloudStatus[o]) = op.ver - 2
    BY <2>8, <2>10, <2>11 DEF CloudRanked, Rank, OrderStatus
  <2>13. p # "cancelled" => Rank(p) = Rank(cloudStatus[o]) + 1
    BY <2>8, <2>9, <2>12 DEF Rank
  <2>14. Rank(cloudStatus[o]) <= 3
    BY <2>8, <2>12
  <2> QED
    BY <2>7, <2>9, <2>11, <2>12, <2>13, <2>14 DEF CanTransitionOrder, Rank, OrderStatus, Terminal
<1> QED
  BY <1>1, <1>2, <1>3, UnrestoredInvariant, AlwaysRanked, PipelineRunsStore,
     LoggedVersionsIncrease, PTL DEF PipeSpec, CloudStepsValid

\* The kitchen works with whole-order commands.
WholeOrders == \A c \in Commands : c[1] \in {"order.transition", "kitchenTicket.transitionAll"}

\* Then every command is logged under its order.
LEMMA WholeCommand ==
  ASSUME WholeOrders, UnrestoredInv, EdgeCommand, NEW op \in EdgeRow, Commits(op)
  PROVE  op.type = "order"
<1>1. operations'[issued + 1] = op /\ operations \in Seq(EdgeRow) /\ Len(operations) = issued
  BY CommandInLog DEF UnrestoredInv, PipeInv, OutletInv, LogInOrder
<1>2. Asked("kitchenTicket.transition") = {} /\ Asked("direct ticket") = {}
  BY DEF WholeOrders, Asked
<1>3. \E row : operations' = Append(operations, row) /\ row.type = "order"
  <2> DEFINE env == [id |-> issued + 1, key |-> issued + 1]
  <2> HIDE DEF env
  <2>1. \/ \E o \in Orders, T \in SUBSET Tickets :
             StoreCreateOrder("syncMutations", env, o, T, None)
        \/ \E o \in Orders, to \in Asked("order.transition"), ver \in Versions :
             StoreTransitionOrder("orderTransitions", env, o, to, ver)
        \/ \E o \in Orders, to \in Asked("kitchenTicket.transitionAll"), ver \in Versions :
             StoreTransitionOrderTickets("syncMutations", env, o, to, ver)
    BY <1>2 DEF EdgeCommand, env
  <2>2. ASSUME NEW type, NEW agg, NEW stream, NEW ver, NEW command, NEW to, NEW parent,
               type = "order",
               appendOperation(env, type, agg, stream, ver, command, to, parent)
        PROVE  \E row : operations' = Append(operations, row) /\ row.type = "order"
    BY <2>2 DEF appendOperation
  <2>3. ASSUME NEW o, NEW T, StoreCreateOrder("syncMutations", env, o, T, None)
        PROVE  \E row : operations' = Append(operations, row) /\ row.type = "order"
    BY <2>3 DEF StoreCreateOrder, appendOperation
  <2>4. ASSUME NEW o, NEW to, NEW ver, StoreTransitionOrder("orderTransitions", env, o, to, ver)
        PROVE  \E row : operations' = Append(operations, row) /\ row.type = "order"
    BY <2>4 DEF StoreTransitionOrder, appendOperation
  <2>5. ASSUME NEW o, NEW to, NEW ver,
               StoreTransitionOrderTickets("syncMutations", env, o, to, ver)
        PROVE  \E row : operations' = Append(operations, row) /\ row.type = "order"
    BY <2>5 DEF StoreTransitionOrderTickets, appendOperation
  <2> QED
    BY <2>1, <2>3, <2>4, <2>5
<1>4. PICK row : operations' = Append(operations, row) /\ row.type = "order"
  BY <1>3
<1>5. operations'[issued + 1] = row
  BY <1>1, <1>4
<1> QED
  BY <1>1, <1>4, <1>5

\* The log tells every order row.
LastInv ==
  \A o \in Orders : Exists(o) =>
    \E i \in 1..issued :
      /\ operations[i].type = "order" /\ operations[i].agg = o
      /\ operations[i].ver = orderVersion[o]
      /\ Cloud!projectedStatus(operations[i].to) = orderStatus[o]

LEMMA LastStep ==
  ASSUME MaxRestores = 0, WholeOrders, UnrestoredInv, LastInv, [PipeNext]_pipeVars
  PROVE  LastInv'
<1>1. CASE UNCHANGED <<edgeVars, issued>>
  BY <1>1 DEF LastInv, Exists, edgeVars, kitchenVars, Cloud!projectedStatus
<1>2. CASE EdgeCommand
  <2>1. PICK op \in EdgeRow : Commits(op)
    BY <1>2, CommandCommits DEF UnrestoredInv, PipeInv, OutletInv
  <2>2. /\ issued \in Nat /\ issued' = issued + 1 /\ operations'[issued + 1] = op
        /\ \A i \in 1..issued : operations'[i] = operations[i]
    BY <1>2, <2>1, CommandInLog
  <2>3. /\ op.type = "order" /\ op.agg \in Orders /\ op.stream = op.agg
        /\ orderVersion'[op.agg] = op.ver
        /\ orderStatus'[op.agg] = Cloud!projectedStatus(op.to)
        /\ \A p \in Orders : p # op.agg => /\ orderStatus'[p] = orderStatus[p]
                                           /\ orderVersion'[p] = orderVersion[p]
    <3>1. op.type = "order"
      BY <1>2, <2>1, WholeCommand
    <3>2. op.agg \in Orders /\ op.stream = op.agg
      BY <3>1 DEF EdgeRow
    <3> QED
      BY <2>1, <3>1, <3>2 DEF Commits
  <2>4. ASSUME NEW o \in Orders, orderStatus'[o] # None
        PROVE  \E i \in 1..(issued + 1) :
                 /\ operations'[i].type = "order" /\ operations'[i].agg = o
                 /\ operations'[i].ver = orderVersion'[o]
                 /\ Cloud!projectedStatus(operations'[i].to) = orderStatus'[o]
    <3>1. CASE o = op.agg
      <4>1. issued + 1 \in 1..(issued + 1)
        BY <2>2
      <4> QED
        BY <2>2, <2>3, <3>1, <4>1
    <3>2. CASE o # op.agg
      <4>1. PICK i \in 1..issued :
              /\ operations[i].type = "order" /\ operations[i].agg = o
              /\ operations[i].ver = orderVersion[o]
              /\ Cloud!projectedStatus(operations[i].to) = orderStatus[o]
        BY <2>3, <2>4, <3>2 DEF LastInv, Exists
      <4>2. i \in 1..(issued + 1) /\ operations'[i] = operations[i]
        BY <2>2
      <4> QED
        BY <2>3, <3>2, <4>1, <4>2
    <3> QED
      BY <3>1, <3>2
  <2> QED
    BY <2>2, <2>4 DEF LastInv, Exists, Cloud!projectedStatus
<1> QED
  BY <1>1, <1>2, LogGrows DEF UnrestoredInv

\* Once the stream of an order is synchronized, core has the outlet's status and version of
\* it, for outlets that are not restored, work with whole-order commands, and are the only
\* ones to move their orders.
THEOREM CloudAlwaysConverges ==
  ASSUME MaxRestores = 0, DirectOrders = {}, WholeOrders
  PROVE  PipeSpec => []CloudConverges
<1>1. PipeInit => LastInv
  BY DEF PipeInit, Init, KitchenInit, LastInv, Exists
<1>2. UnrestoredInv /\ LastInv /\ [PipeNext]_pipeVars => LastInv'
  BY LastStep
<1>3. UnrestoredInv /\ LastInv /\ CloudRanked /\ StoreInv => CloudConverges
  <2> SUFFICES ASSUME UnrestoredInv, LastInv, CloudRanked, StoreInv, NEW o \in Orders,
                      \A op \in Logged : op.stream = o => outbox[op.id] = "synchronized"
               PROVE  cloudStatus[o] = orderStatus[o] /\ cloudVersion[o] = orderVersion[o]
    BY DEF CloudConverges
  <2>1. /\ DOMAIN operations = 1..issued /\ Len(operations) = issued /\ issued \in Nat
        /\ operations \in Seq(EdgeRow)
    BY LenProperties DEF UnrestoredInv, PipeInv, OutletInv, LogInOrder
  <2>2. ASSUME NEW k \in DOMAIN events, events[k].type = "order", events[k].agg = o
        PROVE  Exists(o) /\ events[k].ver <= orderVersion[o]
    <3>1. PICK e \in EdgeRow : e = events[k] /\ e.id \in 1..issued /\ operations[e.id] = e
      BY EventFacts
    <3> QED
      BY <2>1, <2>2, <3>1 DEF StoreInv, LogInv, OrderLogged
  <2>3. CASE ~Exists(o)
    <3>1. Ledger!VersionsAt("order", o) = {}
      BY <2>2, <2>3 DEF Ledger!VersionsAt
    <3>2. cloudStatus[o] = None
      BY <3>1 DEF UnrestoredInv, PipeInv, Ledger!CloudInv, Ledger!ProjectionFollowsLedger
    <3>3. orderStatus[o] = None /\ orderVersion[o] = 0
      BY <2>3 DEF Exists, UnrestoredInv, PipeInv, OutletInv, RowsInv, VersionInv
    <3> QED
      BY <3>2, <3>3 DEF CloudRanked
  <2>4. CASE Exists(o)
    <3>1. PICK i \in 1..issued :
            /\ operations[i].type = "order" /\ operations[i].agg = o
            /\ operations[i].ver = orderVersion[o]
            /\ Cloud!projectedStatus(operations[i].to) = orderStatus[o]
      BY <2>4 DEF LastInv
    <3>2. PICK last \in EdgeRow : last = operations[i]
      BY <2>1
    <3>3. /\ last.stream = o /\ last.id = i /\ last \in Logged /\ last.id \in Ops
          /\ last.type = "order" /\ last.agg = o /\ last.ver = orderVersion[o] /\ last.ver \in Nat
      BY <2>1, <3>1, <3>2 DEF EdgeRow, OperationRow, Logged, UnrestoredInv, LogInOrder
    <3>4. AcceptedRow(last.id)
      BY <3>3 DEF UnrestoredInv, PipeInv, TruthInv, Truthful
    <3>5. PICK m \in DOMAIN events : events[m] = last
      BY <3>2, <3>3, <3>4, AcceptedHasEffect DEF UnrestoredInv
    <3>6. Ledger!VersionsAt("order", o) # {}
      BY <3>3, <3>5 DEF Ledger!VersionsAt
    <3>7. PICK k \in DOMAIN events :
            /\ Ledger!LastEventOf(o, k) /\ cloudVersion[o] = events[k].ver
            /\ cloudStatus[o] = Ledger!projectedStatus(events[k].to)
      BY <3>6 DEF UnrestoredInv, PipeInv, Ledger!CloudInv, Ledger!ProjectionFollowsLedger
    <3>8. events[k].type = "order" /\ events[k].agg = o /\ m <= k
      BY <3>3, <3>5, <3>7 DEF Ledger!LastEventOf
    <3>9. events[k].ver <= last.ver /\ events[k].ver \in Nat
      <4>1. events[k] \in EdgeRow
        BY EventFacts
      <4> QED
        BY <2>2, <3>3, <3>8, <4>1 DEF EdgeRow, OperationRow
    <3>10. m = k
      <4>1. m \in Nat /\ k \in Nat
        BY LenProperties DEF UnrestoredInv, PipeInv, Ledger!CloudInv, Ledger!CloudTypeOK
      <4>2. m < k => events[m].ver < events[k].ver
        BY <3>3, <3>5, <3>8, EventsGrow DEF UnrestoredInv
      <4> QED
        BY <3>3, <3>5, <3>8, <3>9, <4>1, <4>2
    <3> QED
      BY <3>1, <3>2, <3>3, <3>5, <3>7, <3>10, LedgerSteps
  <2> QED
    BY <2>3, <2>4
<1> QED
  BY <1>1, <1>2, <1>3, UnrestoredInvariant, AlwaysRanked, PipelineRunsStore, StoreInvariant, PTL
  DEF PipeSpec
=============================================================================
