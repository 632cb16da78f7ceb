----------------------------- MODULE EdgeStore ------------------------------
(***************************************************************************)
(* The outlet edge's durable store: the Kitchen projections together with  *)
(* what the same SQLite transactions write around them, the idempotency    *)
(* record, the operation log and the transition history                    *)
(* (services/edge/internal/store/store.go), behind the HTTP handlers of    *)
(* services/edge/internal/api/server.go.  Every variable but answers is    *)
(* durable and every command is one transaction, so a crash of the edge    *)
(* process is a stuttering step of this module.                            *)
(***************************************************************************)
EXTENDS Kitchen, Sequences

CONSTANTS
  Ops,         \* operation ids (mutation envelope ids)
  Keys,        \* idempotency keys, each with its tenant and actor
  Envelopes    \* the [id, key] pairs that clients send

ASSUME EnvelopesAssumption == Envelopes \subseteq [id : Ops, key : Keys]

VARIABLES
  orderHist, ticketHist,  \* tables order_transitions and ticket_transitions, per row
  operations,             \* table operations, in sequence order
  records,                \* table idempotency_records
  answers                 \* observation: the 2xx responses sent, with their operation id

vars == <<orderStatus, orderVersion, orderNumber, orderRef,
          ticketStatus, ticketVersion, ticketOrder,
          orderHist, ticketHist, operations, records, answers>>
-----------------------------------------------------------------------------
(* Idempotency *)

\* The stored record of this scope and key.  A replay and a reused key both stop the
\* command here; they differ in the answer (see Replay).
lookupIdempotency(route, env) ==
  {rec \in records : rec.route = route /\ rec.key = env.key}

\* Faulty: operation ids are not checked for reuse.
ensureOperationUnusedSkipped(id) == TRUE

ensureOperationUnused(id) == \A i \in DOMAIN operations : operations[i].id # id

\* A command goes on only when its key has no record and its operation id is new.
Fresh(route, env) ==
  /\ lookupIdempotency(route, env) = {}
  /\ ensureOperationUnused(env.id)

\* Every response holds the order row the command committed.
responseFor(o) == [order |-> o, status |-> orderStatus'[o], version |-> orderVersion'[o]]

\* The response is stored under the request hash in the transaction, then sent.
saveIdempotency(route, env, payload, o) ==
  /\ records' = records \cup {[route |-> route, key |-> env.key,
                               hash |-> <<env, payload>>, response |-> responseFor(o)]}
  /\ answers' = answers \cup {<<env.id, responseFor(o)>>}

\* Faulty: a replay is answered from the order table instead of the record.
ReplayFromTable(route, env, payload) ==
  \E rec \in lookupIdempotency(route, env) :
    /\ rec.hash = <<env, payload>>
    /\ UNCHANGED <<kitchenVars, orderHist, ticketHist, operations, records>>
    /\ answers' = answers \cup {<<env.id, responseFor(rec.response.order)>>}

\* A repeated command is answered from its record, whatever the tables hold by now.
Replay(route, env, payload) ==
  \E rec \in lookupIdempotency(route, env) :
    /\ rec.hash = <<env, payload>>
    /\ answers' = answers \cup {<<env.id, rec.response>>}
    /\ UNCHANGED <<kitchenVars, orderHist, ticketHist, operations, records>>
-----------------------------------------------------------------------------
(* Operation log and history *)

\* What canonicalHash covers: the envelope and the command body.  A transition of the
\* direct routes (parent = None) has its order or ticket id in the path, which is not
\* hashed: the same body sent to another path is a replay.
CreateBody(o, T, ref) == [cmd |-> "create", order |-> o, tickets |-> T, ref |-> ref]
OrderBody(to, ver)    == [cmd |-> "order", to |-> to, ver |-> ver]
AllBody(o, to, ver)   == [cmd |-> "all", order |-> o, to |-> to, ver |-> ver]
TicketBody(t, to, ver, parent) ==
  [cmd |-> "ticket", ticket |-> IF parent = None THEN None ELSE t, to |-> to, ver |-> ver,
   parent |-> parent]

\* The rows of table operations.
OperationRow ==
  [id : Ops, type : {"order", "kitchenTicket"}, agg : Orders \cup Tickets, stream : Orders,
   ver : Nat, command : {"order.create", "order.transition", "kitchenTicket.transition",
                         "kitchenTicket.transitionAll"},
   to : OrderStatus \cup TicketStatus, parent : Orders \cup {None}]

\* One row of the log.  Commands of an order and of its tickets share the order's
\* causality stream.  The row's outbox entry is added where the outbox is modelled.
appendOperation(env, type, agg, stream, version, command, to, parent) ==
  operations' = Append(operations,
    [id |-> env.id, type |-> type, agg |-> agg, stream |-> stream, ver |-> version,
     command |-> command, to |-> to, parent |-> parent])

\* A history row for every order row the transaction wrote.
insertOrderTransition(op) ==
  orderHist' = [o \in Orders |->
    IF orderVersion'[o] = orderVersion[o] THEN orderHist[o]
    ELSE Append(orderHist[o], [op |-> op, from |-> orderStatus[o], to |-> orderStatus'[o],
                               version |-> orderVersion'[o]])]

\* A history row for every ticket row the transaction wrote.
insertTicketTransition(op) ==
  ticketHist' = [t \in Tickets |->
    IF ticketVersion'[t] = ticketVersion[t] THEN ticketHist[t]
    ELSE Append(ticketHist[t], [op |-> op, from |-> ticketStatus[t], to |-> ticketStatus'[t],
                                version |-> ticketVersion'[t]])]

\* What every committed command writes last.
Commit(route, env, payload, o) ==
  /\ insertOrderTransition(env.id)
  /\ insertTicketTransition(env.id)
  /\ saveIdempotency(route, env, payload, o)
-----------------------------------------------------------------------------
(* The store commands with their transaction *)

StoreCreateOrder(route, env, o, T, ref) ==
  /\ Fresh(route, env)
  /\ CreateOrder(o, T, ref)
  /\ appendOperation(env, "order", o, o, 1, "order.create", "received", None)
  /\ Commit(route, env, CreateBody(o, T, ref), o)

StoreTransitionOrder(route, env, o, to, ver) ==
  /\ Fresh(route, env)
  /\ TransitionOrder(o, to, ver)
  /\ appendOperation(env, "order", o, o, orderVersion'[o], "order.transition", to, None)
  /\ Commit(route, env, OrderBody(to, ver), o)

\* Faulty: a ticket's commands form a stream of their own.
StoreTransitionTicketOwnStream(route, env, t, to, ver, parent) ==
  /\ Fresh(route, env)
  /\ TransitionTicket(t, to, ver, parent)
  /\ appendOperation(env, "kitchenTicket", t, t, ticketVersion'[t],
                     "kitchenTicket.transition", to, parent)
  /\ Commit(route, env, TicketBody(t, to, ver, parent), ticketOrder[t])

\* The derived order row is written without an operation of its own.
StoreTransitionTicket(route, env, t, to, ver, parent) ==
  /\ Fresh(route, env)
  /\ TransitionTicket(t, to, ver, parent)
  /\ appendOperation(env, "kitchenTicket", t, ticketOrder[t], ticketVersion'[t],
                     "kitchenTicket.transition", to, parent)
  /\ Commit(route, env, TicketBody(t, to, ver, parent), ticketOrder[t])

\* Faulty: the log keeps the version the order had before the command.
StoreTransitionOrderTicketsOldVersion(route, env, o, to, ver) ==
  /\ Fresh(route, env)
  /\ TransitionOrderTickets(o, to, ver)
  /\ appendOperation(env, "order", o, o, orderVersion[o],
                     "kitchenTicket.transitionAll", to, None)
  /\ Commit(route, env, AllBody(o, to, ver), o)

\* Logged under the order, with the order's version after the command, moved or not.
StoreTransitionOrderTickets(route, env, o, to, ver) ==
  /\ Fresh(route, env)
  /\ TransitionOrderTickets(o, to, ver)
  /\ appendOperation(env, "order", o, o, orderVersion'[o],
                     "kitchenTicket.transitionAll", to, None)
  /\ Commit(route, env, AllBody(o, to, ver), o)
-----------------------------------------------------------------------------
(* The HTTP handlers: each runs one store command or answers from its record. *)

handleCreateOrder(env) ==
  \E o \in Orders, T \in SUBSET Tickets, ref \in Refs \cup {None} :
    \/ StoreCreateOrder("orders", env, o, T, ref)
    \/ Replay("orders", env, CreateBody(o, T, ref))

handleTransitionOrder(env) ==
  \E o \in Orders, to \in OrderStatus, ver \in Versions :
    \/ StoreTransitionOrder("orderTransitions", env, o, to, ver)
    \/ Replay("orderTransitions", env, OrderBody(to, ver))

\* The direct ticket route carries no order id.
handleTransitionTicket(env) ==
  \E t \in Tickets, to \in TicketStatus, ver \in Versions :
    \/ StoreTransitionTicket("ticketTransitions", env, t, to, ver, None)
    \/ Replay("ticketTransitions", env, TicketBody(t, to, ver, None))

\* The PWA's ingress: order created, order status-changed, ticket status-changed.
handleBrowserMutation(env) ==
  \/ \E o \in Orders, T \in SUBSET Tickets, ref \in Refs \cup {None} :
       \/ StoreCreateOrder("syncMutations", env, o, T, ref)
       \/ Replay("syncMutations", env, CreateBody(o, T, ref))
  \/ \E o \in Orders, to \in TicketStatus, ver \in Versions :
       \/ StoreTransitionOrderTickets("syncMutations", env, o, to, ver)
       \/ Replay("syncMutations", env, AllBody(o, to, ver))
  \/ \E t \in Tickets, o \in Orders, to \in TicketStatus, ver \in Versions :
       \/ StoreTransitionTicket("syncMutations", env, t, to, ver, o)
       \/ Replay("syncMutations", env, TicketBody(t, to, ver, o))

Init ==
  /\ KitchenInit
  /\ orderHist  = [o \in Orders |-> <<>>]
  /\ ticketHist = [t \in Tickets |-> <<>>]
  /\ operations = <<>>
  /\ records = {}
  /\ answers = {}

Next ==
  \E env \in Envelopes :
    \/ handleCreateOrder(env)
    \/ handleTransitionOrder(env)
    \/ handleTransitionTicket(env)
    \/ handleBrowserMutation(env)

Spec == Init /\ [][Next]_vars
-----------------------------------------------------------------------------
(* Properties *)

\* The history of a row replays to the row: versions 1, 2, 3, ..., each row starting where
\* the one before ended, the last one being the current status (README: "Every accepted
\* transition records its prior state, next state, version, operation ID").
Replays(hist, status, version) ==
  /\ version = Len(hist)
  /\ \A i \in 1..Len(hist) :
       /\ hist[i].version = i
       /\ hist[i].from = IF i = 1 THEN None ELSE hist[i - 1].to
  /\ status = IF hist = <<>> THEN None ELSE hist[Len(hist)].to

HistoryReplays ==
  /\ \A o \in Orders : Replays(orderHist[o], orderStatus[o], orderVersion[o])
  /\ \A t \in Tickets : Replays(ticketHist[t], ticketStatus[t], ticketVersion[t])

\* Exactly-once effect: an operation id is logged once, has one idempotency record, and
\* moved each row at most once, however often and under whatever keys it was sent.
EffectOnce ==
  /\ \A i, j \in DOMAIN operations : operations[i].id = operations[j].id => i = j
  /\ \A i \in DOMAIN operations :
       Cardinality({rec \in records : rec.hash[1].id = operations[i].id}) = 1
  /\ \A o \in Orders : \A i, j \in DOMAIN orderHist[o] :
       orderHist[o][i].op = orderHist[o][j].op => i = j
  /\ \A t \in Tickets : \A i, j \in DOMAIN ticketHist[t] :
       ticketHist[t][i].op = ticketHist[t][j].op => i = j
  /\ Cardinality(records) = Len(operations)

\* Every answer to an operation is the first one: a client whose response was lost
\* learns, from a retry at any later time, what its command did then.
AnswersAgree ==
  \A a, b \in answers : a[1] = b[1] => a[2] = b[2]

\* An outlet never logs one aggregate version twice or out of order, so a single edge
\* never gets "aggregate_version_stale" from core for its own commands.
VersionsIncrease ==
  \A i, j \in DOMAIN operations :
    i < j /\ operations[i].type = operations[j].type /\ operations[i].agg = operations[j].agg
      => operations[i].ver < operations[j].ver

\* Every causality stream opens with the order's creation, and a ticket's stream is the
\* stream of its order: holding back a stream holds back all that depends on the order.
StreamsRooted ==
  \A i \in DOMAIN operations :
    /\ \E j \in 1..i : operations[j].stream = operations[i].stream
                       /\ operations[j].command = "order.create"
    /\ operations[i].type = "kitchenTicket" =>
         operations[i].stream = ticketOrder[operations[i].agg]
=============================================================================
