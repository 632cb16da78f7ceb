---------------------------- MODULE SyncPipeline ----------------------------
(***************************************************************************)
(* An outlet edge and core, connected by the synchronization coordinator   *)
(* (services/edge/internal/syncer/syncer.go) over the edge's outbox        *)
(* (store.go: PendingOperations, RecordSyncResults, RecordSyncFailure) and *)
(* core's batch endpoint (services/core/internal/api/sync.go).             *)
(*                                                                         *)
(* EdgeStore supplies the outlet's commands, CoreSync what core does with  *)
(* one operation.  Here are the interleavings and faults between them: a   *)
(* batch is handled one transaction per operation; requests and responses  *)
(* are lost or time out while core goes on; a timed-out batch runs beside  *)
(* its retry; either process crashes; the outlet is restored from a        *)
(* backup; core's staff change the same order.                             *)
(***************************************************************************)
EXTENDS EdgeStore

CONSTANTS
  Commands,      \* the transitions the outlet's clients ask for: <<command, status>>
  DirectOrders,  \* orders that core's staff also transition at core
  BatchSize,     \* FEASTCLOUD_SYNC_BATCH_SIZE
  Slots,         \* bound: batch requests core handles at the same time
  MaxFaults,     \* bound: faults in a behaviour
  MaxRestores    \* bound: restores of the outlet's database in a behaviour

ASSUME PipelineAssumption ==
  /\ IsFiniteSet(Ops) /\ Ops = 1..Cardinality(Ops)   \* the n-th command's envelope id is n
  /\ Keys = Ops
  /\ Envelopes = {[id |-> i, key |-> i] : i \in Ops}
  /\ Commands \subseteq ({"order.transition"} \X OrderStatus)
       \cup ({"kitchenTicket.transitionAll", "kitchenTicket.transition", "direct ticket"}
               \X TicketStatus)
  /\ DirectOrders \subseteq Orders
  /\ Orders \cap Tickets = {}
  /\ BatchSize \in Nat \ {0}
  /\ None \notin Slots \cup {"pending", "synchronized", "reconciliation"}
  /\ None \notin [body : OperationRow, status : {"accepted", "rejected", "conflict"}]

VARIABLES
  issued,       \* command envelopes clients have created
  outbox,       \* outbox.state of an operation, None when there is no row
  due,          \* pending rows whose next_attempt_at has come
  waiting,      \* the request SyncOnce holds runMu for, None when idle
  requests,     \* batch requests that reached core: [batch, results] or None
  faults, restores,
  backup,       \* a copy of the outlet's database, None before it is made
  inbox, events, cloudStatus, cloudVersion, consumptions, cases, degraded

Cloud == INSTANCE CoreSync WITH Submissions <- {}

edgeVars   == <<kitchenVars, orderHist, ticketHist, operations, records, answers>>
pushVars   == <<waiting, requests>>
boundVars  == <<faults, restores, backup>>
coreVars   == <<inbox, events, cloudStatus, cloudVersion, consumptions, cases, degraded>>
pipeVars   == <<edgeVars, issued, outbox, due, pushVars, boundVars, coreVars>>
-----------------------------------------------------------------------------
(* The outlet's commands *)

Asked(command) == {c[2] : c \in {d \in Commands : d[1] = command}}

\* The command's transaction also inserts the operation's outbox row, due at once.
EdgeCommand ==
  /\ issued < Cardinality(Ops)
  /\ LET env == [id |-> issued + 1, key |-> issued + 1] IN
     /\ \/ \E o \in Orders, T \in SUBSET Tickets :
             StoreCreateOrder("syncMutations", env, o, T, None)
        \/ \E o \in Orders, to \in Asked("order.transition"), ver \in Versions :
             StoreTransitionOrder("orderTransitions", env, o, to, ver)
        \/ \E o \in Orders, to \in Asked("kitchenTicket.transitionAll"), ver \in Versions :
             StoreTransitionOrderTickets("syncMutations", env, o, to, ver)
        \/ \E t \in Tickets, o \in Orders, to \in Asked("kitchenTicket.transition"), ver \in Versions :
             StoreTransitionTicket("syncMutations", env, t, to, ver, o)
        \/ \E t \in Tickets, to \in Asked("direct ticket"), ver \in Versions :
             StoreTransitionTicket("ticketTransitions", env, t, to, ver, None)
     /\ outbox' = [outbox EXCEPT ![env.id] = "pending"]
     /\ due' = due \cup {env.id}
  /\ issued' = issued + 1
  /\ UNCHANGED <<pushVars, boundVars, coreVars>>
-----------------------------------------------------------------------------
(* The coordinator *)

\* The operation at this sequence number of the log waits for its synchronization.
IsDue(i) == operations[i].id \in due /\ outbox[operations[i].id] = "pending"

\* Faulty: every due operation is sent, predecessors or not.
PendingOperationsAll == {i \in DOMAIN operations : IsDue(i)}

\* Faulty: predecessor.sequence <= o.sequence, every operation waits for itself.
PendingOperationsSelf ==
  {i \in DOMAIN operations :
    /\ IsDue(i)
    /\ \A j \in 1..i : operations[j].stream = operations[i].stream =>
         outbox[operations[j].id] = "synchronized"}

\* The sequence numbers of the due heads of the causality streams.
PendingOperations ==
  {i \in DOMAIN operations :
    /\ IsDue(i)
    /\ \A j \in 1..(i - 1) : operations[j].stream = operations[i].stream =>
         outbox[operations[j].id] = "synchronized"}

\* SyncOnce up to Push: of the heads in sequence order, LIMIT and fitBatch keep the first
\* n, at least one, which are sent.
SyncOnce(s) ==
  /\ waiting = None
  /\ requests[s] = None
  /\ \E n \in 1..BatchSize : \E head \in [1..n -> PendingOperations] :
       /\ \A i, j \in 1..n : i < j => head[i] < head[j]
       /\ \A k \in PendingOperations : k <= head[n] => \E i \in 1..n : head[i] = k
       /\ requests' = [requests EXCEPT ![s] =
            [batch |-> [i \in 1..n |-> operations[head[i]]], results |-> <<>>]]
  /\ waiting' = s
  /\ UNCHANGED <<edgeVars, issued, outbox, due, boundVars, coreVars>>

BatchIds(s) == {requests[s].batch[i].id : i \in DOMAIN requests[s].batch}

\* The result of an operation of the request.  Core sends one for each; validateResults refuses
\* an unknown or a repeated one, and a missing one would be recorded as RETRY.
ResultOf(s, id) ==
  requests[s].results[CHOOSE i \in DOMAIN requests[s].batch : requests[s].batch[i].id = id]

\* One transaction for the whole batch; RETRY keeps the row pending and delays it.
RecordSyncResults(s) ==
  /\ outbox' = [id \in Ops |->
       IF id \notin BatchIds(s) \/ outbox[id] # "pending" THEN outbox[id]
       ELSE CASE ResultOf(s, id) \in {"ACCEPTED", "DUPLICATE"} -> "synchronized"
              [] ResultOf(s, id) \in {"REJECTED", "CONFLICT"}  -> "reconciliation"
              [] OTHER -> "pending"]
  /\ due' = due \ BatchIds(s)

\* Faulty: a failed push closes its operations.
RecordSyncFailureCloses(s) ==
  /\ outbox' = [id \in Ops |-> IF id \in BatchIds(s) THEN "synchronized" ELSE outbox[id]]
  /\ due' = due \ BatchIds(s)

\* Every operation of the batch stays pending and is delayed (retryDelay).
RecordSyncFailure(s) ==
  /\ due' = due \ BatchIds(s)
  /\ UNCHANGED outbox

\* A complete response reaches the coordinator, or a request nobody waits for ends.
Respond(s) ==
  /\ requests[s] # None
  /\ Len(requests[s].results) = Len(requests[s].batch)
  /\ IF waiting = s THEN RecordSyncResults(s) /\ waiting' = None
                    ELSE UNCHANGED <<outbox, due, waiting>>
  /\ requests' = [requests EXCEPT ![s] = None]
  /\ UNCHANGED <<edgeVars, issued, boundVars, coreVars>>

\* The delay of a pending row is over.
BecomesDue(id) ==
  /\ outbox[id] = "pending" /\ id \notin due
  /\ due' = due \cup {id}
  /\ UNCHANGED <<edgeVars, issued, outbox, pushVars, boundVars, coreVars>>
-----------------------------------------------------------------------------
(* Core's batch endpoint *)

Unfinished(s) == requests[s] # None /\ Len(requests[s].results) < Len(requests[s].batch)
NextOperation(s) == requests[s].batch[Len(requests[s].results) + 1]
AddResult(s, result) == requests' = [requests EXCEPT ![s].results = Append(@, result)]

\* handleSyncOperations applies the batch one operation, one transaction at a time.
handleSyncOperations(s) ==
  /\ Unfinished(s)
  /\ Cloud!ApplySyncOperation(NextOperation(s))
  /\ AddResult(s, Cloud!acceptSyncOperation(NextOperation(s)))
  /\ UNCHANGED <<edgeVars, issued, outbox, due, waiting, boundVars>>

\* The database fails before the commit, or the answer to the commit is lost: either way
\* the operation reads RETRY.
DatabaseError(s) ==
  /\ Unfinished(s)
  /\ faults < MaxFaults
  /\ faults' = faults + 1
  /\ \/ UNCHANGED coreVars
     \/ Cloud!ApplySyncOperation(NextOperation(s))
  /\ AddResult(s, "RETRY")
  /\ UNCHANGED <<edgeVars, issued, outbox, due, waiting, restores, backup>>

\* Core's own transition of an order (POST /api/v1/orders/{id}/transitions).
CoreTransition ==
  /\ \E o \in DirectOrders, to \in OrderStatus : Cloud!CoreTransitionOrder(o, to)
  /\ UNCHANGED <<edgeVars, issued, outbox, due, pushVars, boundVars>>
-----------------------------------------------------------------------------
(* Faults *)

\* Push fails: the request or its response is lost, core crashes under it, or it times
\* out and core goes on with it.
PushFails(s) ==
  /\ waiting = s
  /\ faults < MaxFaults
  /\ faults' = faults + 1
  /\ RecordSyncFailure(s)
  /\ waiting' = None
  /\ \/ requests' = [requests EXCEPT ![s] = None]
     \/ UNCHANGED requests
  /\ UNCHANGED <<edgeVars, issued, restores, backup, coreVars>>

\* The edge process restarts: the outbox is durable, the exchange is forgotten.
EdgeCrash ==
  /\ waiting # None
  /\ faults < MaxFaults
  /\ faults' = faults + 1
  /\ waiting' = None
  /\ UNCHANGED <<edgeVars, issued, outbox, due, requests, restores, backup, coreVars>>

\* Core restarts while it handles a request nobody waits for any more.
CoreCrash(s) ==
  /\ requests[s] # None /\ waiting # s
  /\ faults < MaxFaults
  /\ faults' = faults + 1
  /\ requests' = [requests EXCEPT ![s] = None]
  /\ UNCHANGED <<edgeVars, issued, outbox, due, waiting, restores, backup, coreVars>>

\* The outlet's database file is copied.
Backup ==
  /\ restores < MaxRestores
  /\ backup = None
  /\ backup' = [orderStatus |-> orderStatus, orderVersion |-> orderVersion,
                orderNumber |-> orderNumber, orderRef |-> orderRef,
                ticketStatus |-> ticketStatus, ticketVersion |-> ticketVersion,
                ticketOrder |-> ticketOrder, orderHist |-> orderHist, ticketHist |-> ticketHist,
                operations |-> operations, records |-> records, outbox |-> outbox, due |-> due]
  /\ UNCHANGED <<edgeVars, issued, outbox, due, pushVars, faults, restores, coreVars>>

\* The edge restarts on the copy.
Restore ==
  /\ restores < MaxRestores
  /\ backup # None
  /\ orderStatus' = backup.orderStatus /\ orderVersion' = backup.orderVersion
  /\ orderNumber' = backup.orderNumber /\ orderRef' = backup.orderRef
  /\ ticketStatus' = backup.ticketStatus /\ ticketVersion' = backup.ticketVersion
  /\ ticketOrder' = backup.ticketOrder
  /\ orderHist' = backup.orderHist /\ ticketHist' = backup.ticketHist
  /\ operations' = backup.operations /\ records' = backup.records
  /\ outbox' = backup.outbox /\ due' = backup.due
  /\ restores' = restores + 1
  /\ backup' = None
  /\ waiting' = None
  /\ UNCHANGED <<answers, issued, requests, faults, coreVars>>

PipeInit ==
  /\ Init
  /\ issued = 0
  /\ outbox = [id \in Ops |-> None]
  /\ due = {}
  /\ waiting = None
  /\ requests = [s \in Slots |-> None]
  /\ faults = 0 /\ restores = 0 /\ backup = None
  /\ Cloud!CloudInit

PipeNext ==
  \/ EdgeCommand
  \/ CoreTransition
  \/ \E id \in Ops : BecomesDue(id)
  \/ \E s \in Slots :
       SyncOnce(s) \/ Respond(s) \/ handleSyncOperations(s) \/ DatabaseError(s)
         \/ PushFails(s) \/ CoreCrash(s)
  \/ EdgeCrash
  \/ Backup
  \/ Restore

PipeSpec == PipeInit /\ [][PipeNext]_pipeVars

\* The ticker calls SyncOnce again and again, delays end, core goes on with a request it
\* has, and a finished response arrives or is given up.
PipeFairness ==
  /\ WF_pipeVars(\E s \in Slots : SyncOnce(s))
  /\ \A id \in Ops : WF_pipeVars(BecomesDue(id))
  /\ \A s \in Slots : WF_pipeVars(handleSyncOperations(s)) /\ WF_pipeVars(Respond(s))

FairPipeSpec == PipeSpec /\ PipeFairness
-----------------------------------------------------------------------------
(* Properties *)

Logged == {operations[i] : i \in DOMAIN operations}

\* docs/contracts/api-and-sync.md: "Mark an operation synchronized only after the cloud
\* commits its inbox and effect."  And what the outlet queues for reconciliation core
\* refused, with an open case.
OutboxTruthful ==
  \A op \in Logged :
    /\ outbox[op.id] = "synchronized" =>
         op \in {events[i] : i \in DOMAIN events} /\ inbox[op.id].status = "accepted"
    /\ outbox[op.id] = "reconciliation" =>
         op.id \in cases /\ op \notin {events[i] : i \in DOMAIN events}

\* docs/security/threat-model.md: "restored edges cannot duplicate cloud effects."  Core's
\* ledger has an operation once and an aggregate version once, and an order's recipe
\* consumption is posted once, also when an outlet repeats its work after a restore and
\* core's staff complete orders themselves.
EffectsOnce ==
  /\ \A i, j \in DOMAIN events :
       i # j => /\ events[i].id # events[j].id
                /\ events[i].agg = events[j].agg => events[i].ver # events[j].ver
  /\ \A o \in Orders : consumptions[o] <= 1

\* The order row at core only takes steps of the order machine (docs/contracts/
\* api-and-sync.md, conflict policy: "Invalid order/ticket transition | Reject transition
\* and retain evidence; never last-write-wins").
CloudStepsValid ==
  [][\A o \in Orders :
       cloudStatus[o] # None /\ cloudStatus'[o] # cloudStatus[o] =>
         CanTransitionOrder(cloudStatus[o], cloudStatus'[o])]_pipeVars

\* Once a stream is synchronized, core's order row is the outlet's.  For outlets whose
\* kitchens work with whole-order commands: a ticket command moves no order row at core.
CloudConverges ==
  \A o \in Orders :
    (\A op \in Logged : op.stream = o => outbox[op.id] = "synchronized") =>
      cloudStatus[o] = orderStatus[o] /\ cloudVersion[o] = orderVersion[o]

\* docs/contracts/api-and-sync.md: "Retry PushOperations until every operation receives a
\* terminal result": no operation is retried for ever.
EveryOperationSettles ==
  \A id \in Ops : (outbox[id] = "pending") ~> (outbox[id] # "pending")

\* The promise of Delivery, for an outlet whose database is not restored.
Promise == INSTANCE Delivery WITH
  log <- operations, effects <- events,
  confirmed <- {id \in Ops : outbox[id] = "synchronized"}

\* Exactly-once, in stream order, confirmed after the effect.
ImplementsDelivery == Promise!DeliverySpec
=============================================================================
