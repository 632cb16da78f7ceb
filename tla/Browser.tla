------------------------------ MODULE Browser -------------------------------
(***************************************************************************)
(* The browser application in front of the outlet edge (apps/web/src): it  *)
(* changes its own snapshot at once, keeps each command in a durable       *)
(* outbox until the edge has answered it, and merges what it fetches of    *)
(* the edge's projections with the changes still pending.  Commands,       *)
(* drain and pull run concurrently: every await is a step of its own,      *)
(* except inside the state queue, which commands and merges share.  Other  *)
(* devices use the same edge.  One tab, which knows its outlet.            *)
(***************************************************************************)
EXTENDS Kitchen, Sequences

CONSTANT MaxIntents           \* bound: the commands given in this browser

\* The rows of the snapshot and the events of the outbox; rows are the versions a command
\* gave the rows it changed.
KitchenOrder == [status : TicketStatus, version : Nat, origin : {"local", "edge"},
                 ref : Refs \cup {None}]
KitchenTicket == [status : TicketStatus, version : Nat, origin : {"local", "edge"},
                  order : Orders]
OutboxEvent == [id : Nat, kind : {"create", "order", "ticket"}, order : Orders,
                ticket : Tickets \cup {None}, to : TicketStatus, expectedVersion : Nat,
                tickets : SUBSET Tickets, ref : Refs \cup {None},
                rows : UNION {[D -> Nat] : D \in SUBSET (Orders \cup Tickets)},
                disposition : {"pending", "quarantined"}]

\* Orders and tickets have UUIDs.
ASSUME BrowserAssumption ==
  /\ MaxIntents \in Nat
  /\ Orders \cap Tickets = {}
  /\ None \notin KitchenOrder \cup KitchenTicket \cup {"ok", "refused"}

VARIABLES
  shown, shownTickets,   \* the snapshot: orders and tickets as this browser shows them
  outbox,                \* its commands, numbered as they were given, unless acknowledged
  issued,                \* lastOutboxSequence
  batch, answer,         \* drainPendingOutbox: events still to send, the edge's answer to the first
  fetched,               \* the pull under way: the rows the edge had since it began
  recorded               \* the edge's idempotency records for this browser, oldest first

deviceVars  == <<shown, shownTickets, outbox, issued>>
drainVars   == <<batch, answer>>
browserVars == <<shown, shownTickets, outbox, issued, batch, answer, fetched, recorded>>
-----------------------------------------------------------------------------
(* Rows *)

\* The browser calls orders by the words of tickets.
statusMap(s) == IF s = "received" THEN "queued" ELSE IF s = "accepted" THEN "fired" ELSE s

\* The edge sends its externalRef, the browser reads an aggregator: a fetched order has no ref.
mapEdgeOrder(o) ==
  IF ~Exists(o) THEN None
  ELSE [status |-> statusMap(orderStatus[o]), version |-> orderVersion[o],
        origin |-> "edge", ref |-> None]

mapEdgeTicket(t) ==
  IF ticketOrder[t] = None THEN None
  ELSE [status |-> ticketStatus[t], version |-> ticketVersion[t],
        origin |-> "edge", order |-> ticketOrder[t]]

\* The step the interface offers; cancelling is not one of them.
transitionMap == [queued |-> "fired", fired |-> "preparing", preparing |-> "ready", ready |-> "completed"]

MayFollow(s, next) == s \in DOMAIN transitionMap /\ transitionMap[s] = next

ShownTicketsOf(o) == {t \in Tickets : shownTickets[t] # None /\ shownTickets[t].order = o}

Moved(row, s) == [row EXCEPT !.status = s, !.version = @ + 1, !.origin = "local"]
-----------------------------------------------------------------------------
(* Commands: snapshot and event are committed together *)

Event(kind, o, t, to, expected, T, ref, rows) ==
  [id |-> issued + 1, kind |-> kind, order |-> o, ticket |-> t, to |-> to, expectedVersion |-> expected,
   tickets |-> T, ref |-> ref, rows |-> rows, disposition |-> "pending"]

\* commitSnapshot
Commit(event) ==
  /\ issued < MaxIntents
  /\ issued' = issued + 1
  /\ outbox' = outbox \cup {event}
  /\ UNCHANGED <<kitchenVars, batch, answer, fetched, recorded>>

\* Ids are new UUIDs.  An external order that is already shown is reused instead.
submitOrder(o, T, ref) ==
  /\ T # {}
  /\ ~Exists(o) /\ shown[o] = None /\ \A e \in outbox : e.order # o
  /\ \A t \in T : ticketOrder[t] = None /\ shownTickets[t] = None
  /\ \A t \in T, e \in outbox : t \notin e.tickets
  /\ ref # None => \A p \in Orders : shown[p] # None => shown[p].ref # ref
  /\ shown' = [shown EXCEPT ![o] = [status |-> "queued", version |-> 1, origin |-> "local", ref |-> ref]]
  /\ shownTickets' = [t \in Tickets |->
       IF t \in T THEN [status |-> "queued", version |-> 1, origin |-> "local", order |-> o]
                  ELSE shownTickets[t]]
  /\ Commit(Event("create", o, None, "queued", 0, T, ref, [r \in {o} \cup T |-> 1]))

\* canAdvanceOrder: every ticket is at the next step or one before it, and some ticket moves.
canAdvanceOrder(o) ==
  LET next == transitionMap[shown[o].status] IN
  /\ shown[o] # None /\ shown[o].status \in DOMAIN transitionMap
  /\ \A t \in ShownTicketsOf(o) :
       shownTickets[t].status = next \/ MayFollow(shownTickets[t].status, next)
  /\ ShownTicketsOf(o) # {} => \E t \in ShownTicketsOf(o) : shownTickets[t].status # next

moveOrderForward(o) ==
  LET next  == transitionMap[shown[o].status]
      moved == {t \in ShownTicketsOf(o) : shownTickets[t].status # next}
  IN
  /\ canAdvanceOrder(o)
  /\ shown' = [shown EXCEPT ![o] = Moved(@, next)]
  /\ shownTickets' = [t \in Tickets |-> IF t \in moved THEN Moved(shownTickets[t], next)
                                                       ELSE shownTickets[t]]
  /\ Commit(Event("order", o, None, next, shown[o].version, {}, None,
              [r \in {o} \cup moved |-> IF r = o THEN shown'[r].version ELSE shownTickets'[r].version]))

\* deriveOrderStatus of the browser: the edge's derivation in the words of tickets.
derivedStatus(S) == statusMap(deriveOrderStatus(S))

\* Unlike the edge, the browser lets the derived status replace the order's whatever its rank.
moveTicketForward(t) ==
  LET o       == shownTickets[t].order
      next    == transitionMap[shownTickets[t].status]
      derived == derivedStatus({shownTickets'[u].status : u \in ShownTicketsOf(o)})
      rows    == {t} \cup (IF derived = shown[o].status THEN {} ELSE {o})
  IN
  /\ shownTickets[t] # None /\ shown[o] # None
  /\ shownTickets[t].status \in DOMAIN transitionMap
  /\ shownTickets' = [shownTickets EXCEPT ![t] = Moved(@, next)]
  /\ shown' = IF derived = shown[o].status THEN shown ELSE [shown EXCEPT ![o] = Moved(@, derived)]
  /\ Commit(Event("ticket", o, t, next, shownTickets[t].version, {}, None,
              [r \in rows |-> IF r = t THEN shownTickets'[r].version ELSE shown'[r].version]))
-----------------------------------------------------------------------------
(* Drain *)

\* What is not quarantined; the drain takes it in local sequence.
listOutbox == {e \in outbox : e.disposition = "pending"}
First(e) == \A f \in batch : e.id <= f.id

StartDrain ==
  /\ batch = {} /\ listOutbox # {}
  /\ batch' = listOutbox
  /\ UNCHANGED <<kitchenVars, deviceVars, answer, fetched, recorded>>

\* Rows that change while a pull is fetching may be seen in either state.
Observed ==
  IF fetched = None THEN None
  ELSE [orders  |-> [o \in Orders  |-> fetched.orders[o]  \cup {mapEdgeOrder(o)'}],
        tickets |-> [t \in Tickets |-> fetched.tickets[t] \cup {mapEdgeTicket(t)'}]]

\* handleBrowserMutation: the store command an event stands for.  The edge's NewOrder has no
\* aggregator and decodeStrict no unknown field, so an order with a ref is refused.
Command(e) ==
  \/ e.kind = "create" /\ e.ref = None /\ CreateOrder(e.order, e.tickets, None)
  \/ e.kind = "order"  /\ TransitionOrderTickets(e.order, e.to, e.expectedVersion)
  \/ e.kind = "ticket" /\ TransitionTicket(e.ticket, e.to, e.expectedVersion, e.order)

Refused(e) == ~ENABLED Command(e)

Known(e) == \E i \in DOMAIN recorded : recorded[i] = e.id

\* The edge handles the request: a replay, a change or a permanent refusal (400, 404, 409).
Transmit(e) ==
  /\ First(e) /\ answer = None
  /\ \/ Known(e) /\ answer' = "ok" /\ UNCHANGED <<kitchenVars, recorded>>
     \/ ~Known(e) /\ Command(e) /\ answer' = "ok" /\ recorded' = Append(recorded, e.id)
     \/ ~Known(e) /\ Refused(e) /\ answer' = "refused" /\ UNCHANGED <<kitchenVars, recorded>>
  /\ fetched' = Observed
  /\ UNCHANGED <<deviceVars, batch>>

\* The answer arrives: acknowledgeOutboxEvent or quarantineOutboxEvent, then the next event.
Answered(e) ==
  /\ First(e) /\ answer # None
  /\ outbox' = IF answer = "ok" THEN {f \in outbox : f.id # e.id}
               ELSE {IF f.id = e.id THEN [f EXCEPT !.disposition = "quarantined"] ELSE f : f \in outbox}
  /\ batch' = batch \ {e}
  /\ answer' = None
  /\ UNCHANGED <<kitchenVars, shown, shownTickets, issued, fetched, recorded>>

\* Faulty: the drain goes on with the next event.
TransientFailureSkips ==
  /\ batch # {}
  /\ batch' = {e \in batch : ~First(e)}
  /\ answer' = None
  /\ UNCHANGED <<kitchenVars, deviceVars, fetched, recorded>>

\* No answer, or a retryable one: before the edge handled the request or after it.
TransientFailure ==
  /\ batch # {}
  /\ batch' = {}
  /\ answer' = None
  /\ UNCHANGED <<kitchenVars, deviceVars, fetched, recorded>>
-----------------------------------------------------------------------------
(* Pull *)

StartPull ==
  /\ fetched = None
  /\ fetched' = [orders  |-> [o \in Orders  |-> {mapEdgeOrder(o)}],
                 tickets |-> [t \in Tickets |-> {mapEdgeTicket(t)}]]
  /\ UNCHANGED <<kitchenVars, deviceVars, drainVars, recorded>>

PullFails ==
  /\ fetched # None
  /\ fetched' = None
  /\ UNCHANGED <<kitchenVars, deviceVars, drainVars, recorded>>

\* There is one query per status: a row that moved meanwhile is seen in any of its states,
\* the newest one winning (deduplicateProjections), or missed by all of them.
Readings(table) ==
  LET moving == {r \in DOMAIN table : Cardinality(table[r]) > 1}
      read   == [moving -> {None} \cup UNION {table[r] : r \in moving}]
  IN
  {[r \in DOMAIN table |-> IF r \in moving THEN f[r] ELSE CHOOSE row \in table[r] : TRUE] :
     f \in {g \in read : \A r \in moving : g[r] \in table[r] \cup {None}}}

\* Faulty: a ticket's command does not stand for its order.
pendingOrderIDsOfOrders == {e.order : e \in {f \in listOutbox : f.kind # "ticket"}}

\* The orders, and below the tickets, that a pending command is about.
pendingOrderIDs == {e.order : e \in listOutbox}

pendingTicketIDs ==
  {e.ticket : e \in {f \in listOutbox : f.kind = "ticket"}}
  \cup {t \in Tickets : shownTickets[t] # None /\ shownTickets[t].order \in pendingOrderIDs}

\* mergeEdgeOrders, mergeEdgeTickets for one row.
MergedRow(local, remote, pending) ==
  IF remote = None
  THEN IF /\ local # None
          /\ pending \/ (local.origin = "edge" /\ local.status \notin Terminal)
       THEN local ELSE None
  ELSE IF local # None /\ pending /\ local.origin = "local" /\ local.version > remote.version
       THEN local ELSE remote

\* The merge reads the pending commands inside the state queue.
MergePull ==
  /\ fetched # None
  /\ \E orders \in Readings(fetched.orders), tickets \in Readings(fetched.tickets) :
       /\ shown' = [o \in Orders |-> MergedRow(shown[o], orders[o], o \in pendingOrderIDs)]
       /\ shownTickets' = [t \in Tickets |->
            MergedRow(shownTickets[t], tickets[t], t \in pendingTicketIDs)]
  /\ fetched' = None
  /\ UNCHANGED <<kitchenVars, outbox, issued, drainVars, recorded>>

\* The page is loaded again: snapshot and outbox are durable, drain and pull are not.
Reload ==
  /\ batch # {} \/ fetched # None
  /\ batch' = {} /\ answer' = None /\ fetched' = None
  /\ UNCHANGED <<kitchenVars, deviceVars, recorded>>

\* Ids are UUIDs: no other device creates an order or a ticket under one of this browser's.
OtherDevice ==
  /\ KitchenNext
  /\ \A o \in Orders : ~Exists(o) /\ shown[o] # None => orderStatus'[o] = None
  /\ \A t \in Tickets : ticketOrder[t] = None /\ shownTickets[t] # None => ticketOrder'[t] = None
  /\ fetched' = Observed /\ UNCHANGED <<deviceVars, drainVars, recorded>>

BrowserInit ==
  /\ shown = [o \in Orders |-> None]
  /\ shownTickets = [t \in Tickets |-> None]
  /\ outbox = {} /\ issued = 0
  /\ batch = {} /\ answer = None
  /\ fetched = None
  /\ recorded = <<>>

BrowserNext ==
  \/ \E o \in Orders, T \in SUBSET Tickets, ref \in Refs \cup {None} : submitOrder(o, T, ref)
  \/ \E o \in Orders : moveOrderForward(o)
  \/ \E t \in Tickets : moveTicketForward(t)
  \/ StartDrain \/ TransientFailure
  \/ \E e \in batch : Transmit(e) \/ Answered(e)
  \/ StartPull \/ PullFails \/ MergePull
  \/ Reload
  \/ OtherDevice

BrowserSpec == KitchenInit /\ BrowserInit /\ [][BrowserNext]_<<kitchenVars, browserVars>>
-----------------------------------------------------------------------------
(* Properties *)

\* useKitchenSystem.ts: a pull "cannot overwrite an operation committed mid-fetch".  As long
\* as a command is pending, every row it changed, the order a ticket command advanced
\* included, is shown at the version the command gave it or a later one.  (A command that
\* is acknowledged while a pull fetches is not covered: see the README.)
PendingShown ==
  \A e \in listOutbox : \A r \in DOMAIN e.rows :
    LET row == IF r \in Orders THEN shown[r] ELSE shownTickets[r] IN
    row # None /\ row.version >= e.rows[r]

\* outbox.ts: "Transient failures preserve ordering."  Whatever is lost, repeated or reloaded,
\* the edge takes a browser's commands once and in the order they were given, none of them
\* before an earlier one is taken or refused, and a command that left the outbox was taken:
\* nothing a user did is dropped silently.
CommandsInOrder ==
  LET taken == {recorded[i] : i \in DOMAIN recorded} IN
  /\ \A i, j \in DOMAIN recorded : i < j => recorded[i] < recorded[j]
  /\ \A e \in listOutbox : e.id \notin taken => \A n \in taken : n < e.id
  /\ 1..issued = taken \cup {e.id : e \in outbox}
=============================================================================
