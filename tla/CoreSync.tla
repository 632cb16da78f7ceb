------------------------------ MODULE CoreSync ------------------------------
(***************************************************************************)
(* Core's side of edge synchronization: the inbox, the domain-event ledger *)
(* and the order projection that ApplySyncOperation writes in one          *)
(* PostgreSQL transaction (services/core/internal/store/postgres_sync.go,  *)
(* services/core/internal/api/sync.go), and core's own order transitions,  *)
(* which write the same order rows (postgres_repository.go).               *)
(*                                                                         *)
(* Submissions are the operations that edges send: duplicated, reordered,  *)
(* with version gaps, from a restored edge, or reusing an operation id.    *)
(* Concurrent transactions on one operation id or one aggregate wait for   *)
(* each other (inbox primary key, advisory lock), so each is one step.     *)
(***************************************************************************)
EXTENDS KitchenRules, Sequences, FiniteSets

CONSTANTS
  Orders,
  Ops,           \* operation ids
  Submissions,   \* the operations edges may send
  DirectOrders,  \* orders that core's staff also transition at core
  None

VARIABLES
  inbox,         \* sync_inbox: operation id -> [body, status] or None
  events,        \* domain_events in acceptance order
  cloudStatus,   \* orders.status, None when core has no such order
  cloudVersion,  \* orders.version
  consumptions,  \* consumption postings per order (inventory_events)
  cases,         \* operation ids with an open reconciliation case
  degraded       \* edge_sync_checkpoints.degraded

\* Edges log what EdgeStore commits: a creation is version 1, and an operation on an order
\* names an order.  None stands for what is absent.
ASSUME CloudAssumption ==
  /\ DirectOrders \subseteq Orders
  /\ \A op \in Submissions :
       /\ op.id \in Ops /\ op.ver \in Nat /\ op.to \in OrderStatus \cup TicketStatus
       /\ op.type = "order" <=> op.agg \in Orders
       /\ op.command = "order.create" => op.ver = 1 /\ op.to = "received"
  /\ None \notin OrderStatus \cup TicketStatus
  /\ None \notin [body : Submissions, status : {"accepted", "rejected", "conflict"}]

cloudVars == <<inbox, events, cloudStatus, cloudVersion, consumptions, cases, degraded>>
-----------------------------------------------------------------------------
(* What ApplySyncOperation decides *)

\* Faulty: a replay is compared by operation id alone.
existingSyncOutcomeIgnoresHash(op) ==
  IF inbox[op.id].status = "accepted" THEN "DUPLICATE"
  ELSE IF inbox[op.id].status = "rejected" THEN "REJECTED"
  ELSE "CONFLICT"

\* The answer for an operation id that is already in the inbox.
existingSyncOutcome(op) ==
  IF inbox[op.id].body # op THEN "CONFLICT"
  ELSE IF inbox[op.id].status = "accepted" THEN "DUPLICATE"
  ELSE IF inbox[op.id].status = "rejected" THEN "REJECTED"
  ELSE "CONFLICT"

\* Unsupported command, or a command on the wrong aggregate type.
syncCommandProblem(op) ==
  <<op.command, op.type>> \notin
    { <<"order.create", "order">>, <<"order.transition", "order">>,
      <<"kitchenTicket.transition", "kitchenTicket">>,
      <<"kitchenTicket.transitionAll", "order">> }

VersionsAt(type, agg) ==
  {events[i].ver : i \in {j \in DOMAIN events : events[j].type = type /\ events[j].agg = agg}}

\* Faulty: a version gap is accepted.
validateCausalVersionNoGap(op) ==
  LET known == VersionsAt(op.type, op.agg) IN
  IF \E v \in known : v >= op.ver THEN "stale" ELSE "next"

\* Faulty: a version below the next one is accepted again.
validateCausalVersionNoStale(op) ==
  LET known == VersionsAt(op.type, op.agg) IN
  IF known = {} THEN
    IF \/ op.command = "order.create" /\ op.ver = 1
       \/ /\ op.command = "kitchenTicket.transition" /\ op.ver = 2
          /\ op.parent # None /\ 1 \in VersionsAt("order", op.parent)
    THEN "next" ELSE "missing"
  ELSE IF op.ver \notin {v + 1 : v \in known} THEN "missing" ELSE "next"

\* "next" version of its aggregate, "stale", or "missing" a predecessor.  The first event
\* of an order is its creation; the first of a ticket is version 2 under a known order.
validateCausalVersion(op) ==
  LET known == VersionsAt(op.type, op.agg)
      max   == CHOOSE v \in known : \A w \in known : w <= v
  IN
  IF known = {} THEN
    IF \/ op.command = "order.create" /\ op.ver = 1
       \/ /\ op.command = "kitchenTicket.transition" /\ op.ver = 2
          /\ op.parent # None /\ 1 \in VersionsAt("order", op.parent)
    THEN "next" ELSE "missing"
  ELSE IF op.ver > max + 1 THEN "missing"
  ELSE IF op.ver < max + 1 THEN "stale"
  ELSE "next"

\* Malformed operations are turned away before the database is asked (of the checks on
\* ids, scope and encoding, the one on a modelled field).
validateSyncOperation(op) == op.ver >= 1

\* The result acceptSyncOperation reports when no fault intervenes.
acceptSyncOperation(op) ==
  IF ~validateSyncOperation(op) THEN "REJECTED"
  ELSE IF inbox[op.id] # None THEN existingSyncOutcome(op)
  ELSE IF syncCommandProblem(op) THEN "REJECTED"
  ELSE IF validateCausalVersion(op) = "missing" THEN "RETRY"
  ELSE IF validateCausalVersion(op) = "stale" THEN "CONFLICT"
  ELSE "ACCEPTED"
-----------------------------------------------------------------------------
(* What it writes *)

\* Faulty: the outlet's word is stored as it is.
projectedStatusVerbatim(to) == to

\* Ticket statuses in a whole-order command, as order statuses.
projectedStatus(to) ==
  CASE to = "queued" -> "received" [] to = "fired" -> "accepted" [] OTHER -> to

\* Faulty: only order.transition moves the row.
projectOperationalMutationOrderOnly(op) ==
  IF op.command = "order.create" /\ cloudStatus[op.agg] = None
  THEN /\ cloudStatus'  = [cloudStatus EXCEPT ![op.agg] = "received"]
       /\ cloudVersion' = [cloudVersion EXCEPT ![op.agg] = op.ver]
       /\ UNCHANGED consumptions
  ELSE IF op.command = "order.transition" /\ cloudVersion[op.agg] < op.ver
  THEN /\ cloudStatus'  = [cloudStatus EXCEPT ![op.agg] = projectedStatus(op.to)]
       /\ cloudVersion' = [cloudVersion EXCEPT ![op.agg] = op.ver]
       /\ consumptions' = [consumptions EXCEPT ![op.agg] =
                             IF op.to = "completed" THEN @ + 1 ELSE @]
  ELSE UNCHANGED <<cloudStatus, cloudVersion, consumptions>>

\* Faulty: completing an order from the outlet posts no consumption.
projectOperationalMutationNoConsumption(op) ==
  IF op.command = "order.create" /\ cloudStatus[op.agg] = None
  THEN /\ cloudStatus'  = [cloudStatus EXCEPT ![op.agg] = "received"]
       /\ cloudVersion' = [cloudVersion EXCEPT ![op.agg] = op.ver]
       /\ UNCHANGED consumptions
  ELSE IF /\ op.command \in {"order.transition", "kitchenTicket.transitionAll"}
          /\ cloudStatus[op.agg] # None /\ cloudVersion[op.agg] < op.ver
  THEN /\ cloudStatus'  = [cloudStatus EXCEPT ![op.agg] = projectedStatus(op.to)]
       /\ cloudVersion' = [cloudVersion EXCEPT ![op.agg] = op.ver]
       /\ UNCHANGED consumptions
  ELSE UNCHANGED <<cloudStatus, cloudVersion, consumptions>>

\* The order row follows creation and whole-order commands, never to a lower version;
\* completing it posts the recipe consumption.  Ticket commands leave it alone.
projectOperationalMutation(op) ==
  IF op.command = "order.create" /\ cloudStatus[op.agg] = None
  THEN /\ cloudStatus'  = [cloudStatus EXCEPT ![op.agg] = "received"]
       /\ cloudVersion' = [cloudVersion EXCEPT ![op.agg] = op.ver]
       /\ UNCHANGED consumptions
  ELSE IF /\ op.command \in {"order.transition", "kitchenTicket.transitionAll"}
          /\ cloudStatus[op.agg] # None /\ cloudVersion[op.agg] < op.ver
  THEN /\ cloudStatus'  = [cloudStatus EXCEPT ![op.agg] = projectedStatus(op.to)]
       /\ cloudVersion' = [cloudVersion EXCEPT ![op.agg] = op.ver]
       /\ consumptions' = [consumptions EXCEPT ![op.agg] =
                             IF op.to = "completed" THEN @ + 1 ELSE @]
  ELSE UNCHANGED <<cloudStatus, cloudVersion, consumptions>>

recordSyncProblem(op) ==
  /\ cases' = cases \cup {op.id}
  /\ degraded' = TRUE

\* Faulty: the inbox row is committed although the operation is to be retried.
ApplySyncOperationKeepsRetry(op) ==
  /\ validateSyncOperation(op) /\ inbox[op.id] = None
  /\ acceptSyncOperation(op) \in {"REJECTED", "CONFLICT", "RETRY"}
  /\ inbox' = [inbox EXCEPT ![op.id] = [body |-> op, status |-> "rejected"]]
  /\ recordSyncProblem(op)
  /\ UNCHANGED <<events, cloudStatus, cloudVersion, consumptions>>

\* A problem is committed with its evidence and case, and no event.
CommitProblem(op) ==
  /\ validateSyncOperation(op) /\ inbox[op.id] = None
  /\ acceptSyncOperation(op) \in {"REJECTED", "CONFLICT"}
  /\ inbox' = [inbox EXCEPT ![op.id] =
       [body |-> op, status |-> IF syncCommandProblem(op) THEN "rejected" ELSE "conflict"]]
  /\ recordSyncProblem(op)
  /\ UNCHANGED <<events, cloudStatus, cloudVersion, consumptions>>

\* Acceptance commits inbox row, event and projection together.
CommitAccepted(op) ==
  /\ acceptSyncOperation(op) = "ACCEPTED"
  /\ inbox' = [inbox EXCEPT ![op.id] = [body |-> op, status |-> "accepted"]]
  /\ events' = Append(events, op)
  /\ projectOperationalMutation(op)
  /\ degraded' = FALSE
  /\ UNCHANGED cases

\* Malformed operations, replays, and operations that wait for a predecessor (rollback)
\* write nothing.
NoCommit(op) ==
  /\ \/ ~validateSyncOperation(op)
     \/ inbox[op.id] # None
     \/ acceptSyncOperation(op) = "RETRY"
  /\ UNCHANGED <<inbox, events, cloudStatus, cloudVersion, consumptions, cases, degraded>>

ApplySyncOperation(op) == CommitProblem(op) \/ CommitAccepted(op) \/ NoCommit(op)

\* POST /api/v1/orders/{id}/transitions at core: the order row alone, by its own version.
CoreTransitionOrder(o, to) ==
  /\ cloudStatus[o] # None
  /\ CanTransitionOrder(cloudStatus[o], to)
  /\ cloudStatus'  = [cloudStatus EXCEPT ![o] = to]
  /\ cloudVersion' = [cloudVersion EXCEPT ![o] = @ + 1]
  /\ consumptions' = [consumptions EXCEPT ![o] = IF to = "completed" THEN @ + 1 ELSE @]
  /\ UNCHANGED <<inbox, events, cases, degraded>>

CloudInit ==
  /\ inbox = [i \in Ops |-> None]
  /\ events = <<>>
  /\ cloudStatus  = [o \in Orders |-> None]
  /\ cloudVersion = [o \in Orders |-> 0]
  /\ consumptions = [o \in Orders |-> 0]
  /\ cases = {}
  /\ degraded = FALSE

CloudNext ==
  \/ \E op \in Submissions : ApplySyncOperation(op)
  \/ \E o \in DirectOrders, to \in OrderStatus : CoreTransitionOrder(o, to)

CloudSpec == CloudInit /\ [][CloudNext]_cloudVars
-----------------------------------------------------------------------------
(* Properties *)

\* The versions in the ledger before event i of the same aggregate.
VersionsBefore(i) ==
  {events[j].ver : j \in {k \in 1..(i - 1) : events[k].type = events[i].type
                                             /\ events[k].agg = events[i].agg}}

\* The first version of an aggregate that has an event of its own.
FirstVersion(type) == IF type = "order" THEN 1 ELSE 2

\* Whatever order edges send in, the ledger of an aggregate has every version once and in
\* order, an order from 1 and a ticket from 2 (version 1 is written by order.create), and a
\* ticket's events come after the creation of the order it names.
LedgerContiguous ==
  \A i \in DOMAIN events :
    LET e == events[i] IN
    /\ e.ver >= FirstVersion(e.type)
    /\ VersionsBefore(i) = FirstVersion(e.type)..(e.ver - 1)
    /\ e.type = "kitchenTicket" /\ e.ver = 2 =>
         \E j \in 1..(i - 1) : events[j].type = "order" /\ events[j].agg = e.parent
                               /\ events[j].ver = 1

\* Evidence and effect agree: one event for each accepted inbox row and for no other, one
\* reconciliation case for each refused one; and core calls an operation a duplicate only
\* when this very operation, not another one under its id, is in the ledger.
EvidenceMatchesEffect ==
  /\ \A i, j \in DOMAIN events : events[i].id = events[j].id => i = j
  /\ {events[i] : i \in DOMAIN events} =
       {inbox[id].body : id \in {k \in Ops : inbox[k] # None /\ inbox[k].status = "accepted"}}
  /\ cases = {id \in Ops : inbox[id] # None /\ inbox[id].status # "accepted"}
  /\ \A op \in Submissions : acceptSyncOperation(op) = "DUPLICATE" =>
       op \in {events[i] : i \in DOMAIN events}

\* An edge that lost an answer gets the same verdict from any later retry: the step that
\* settles an operation and every step after it fix the answer (ACCEPTED reads DUPLICATE
\* from then on), also for a different operation under the same id.
AnswersStable ==
  [][\A op \in Submissions :
       LET before == acceptSyncOperation(op)
           after  == acceptSyncOperation(op)'
       IN
       /\ inbox[op.id] # None => after = before
       /\ inbox[op.id] = None /\ inbox'[op.id] # None /\ inbox'[op.id].body = op =>
            <<before, after>> \in { <<"ACCEPTED", "DUPLICATE">>, <<"REJECTED", "REJECTED">>,
                                   <<"CONFLICT", "CONFLICT">> }
    ]_cloudVars

\* Event i is the last whole-order event of order o.
LastEventOf(o, i) ==
  /\ events[i].type = "order" /\ events[i].agg = o
  /\ \A j \in DOMAIN events : events[j].type = "order" /\ events[j].agg = o => j <= i

\* The order row of an order that only its edge moves is the last whole-order event, and
\* there is no row before the first.
ProjectionFollowsLedger ==
  \A o \in Orders \ DirectOrders :
    IF VersionsAt("order", o) = {} THEN cloudStatus[o] = None
    ELSE \E i \in DOMAIN events :
           /\ LastEventOf(o, i)
           /\ cloudVersion[o] = events[i].ver
           /\ cloudStatus[o] = projectedStatus(events[i].to)

\* Recipe consumption is posted once for every completing event of an order that only its
\* edge moves, and for nothing else.
ConsumptionMatchesLedger ==
  \A o \in Orders \ DirectOrders :
    consumptions[o] = Cardinality({i \in DOMAIN events :
      events[i].agg = o /\ events[i].to = "completed"
      /\ events[i].command # "order.create"})
=============================================================================
