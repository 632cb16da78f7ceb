--------------------------- MODULE EdgeStoreProofs --------------------------
(***************************************************************************)
(* Proofs about EdgeStore: the outlet's store, with its idempotency        *)
(* records, replays, log and history, implements the Kitchen projections,  *)
(* so that Kitchen's theorems hold of it; every causality stream of its    *)
(* log is rooted in the order's creation; the log never repeats a version; *)
(* the history replays to the tables; and every operation has its effect,  *)
(* its record and its answer once.                                         *)
(***************************************************************************)
EXTENDS EdgeStore, KitchenProofs

\* A command that had no record commits, with history, record and answer.
Transacts(op) ==
  \E env \in Envelopes :
    /\ op.id = env.id
    /\ \E route, payload, o : Fresh(route, env) /\ Commit(route, env, payload, o)

\* The version a command logs is the row's version after it.  Only a whole-order ticket
\* command may leave that version as it was, and then it made lagging tickets catch up.
LogsVersion(op) ==
  /\ op.type = "order" =>
       /\ op.agg \in Orders /\ Exists(op.agg)' /\ op.ver = orderVersion'[op.agg]
       /\ CaughtUp(op.agg)'
       /\ Exists(op.agg) /\ orderVersion'[op.agg] = orderVersion[op.agg] => ~CaughtUp(op.agg)
  /\ op.type = "kitchenTicket" =>
       /\ op.agg \in Tickets /\ op.ver = ticketVersion'[op.agg]
       /\ ticketVersion'[op.agg] = ticketVersion[op.agg] + 1

\* What a committed command does to the projections and to the log.
CommitsCommand ==
  \E op \in OperationRow :
    /\ operations' = Append(operations, op)
    /\ KitchenNext
    /\ Transacts(op)
    /\ LedInv => LedInv' /\ KeepsCaughtUp /\ LogsVersion(op)
    /\ op.type = "kitchenTicket" => op.agg \in Tickets /\ op.stream = ticketOrder[op.agg]
    /\ op.command = "order.create" \/ Exists(op.stream)
    /\ \A o \in Orders : Exists(o)' /\ ~Exists(o) =>
         op.stream = o /\ op.command = "order.create"

\* handleCreateOrder and the browser ingress: a creation opens its stream.
LEMMA CreateCommits ==
  ASSUME KitchenInv, NEW route, NEW env \in Envelopes, NEW o \in Orders, NEW T \in SUBSET Tickets,
         NEW ref \in Refs \cup {None}, StoreCreateOrder(route, env, o, T, ref)
  PROVE  CommitsCommand
<1> DEFINE op == [id |-> env.id, type |-> "order", agg |-> o, stream |-> o, ver |-> 1,
                  command |-> "order.create", to |-> "received", parent |-> None]
<1>1. CreateOrder(o, T, ref) /\ operations' = Append(operations, op)
  BY DEF StoreCreateOrder, appendOperation
<1>2. KitchenNext
  BY <1>1 DEF KitchenNext
<1>3. \A p \in Orders : Exists(p)' /\ ~Exists(p) => p = o
  BY <1>1 DEF CreateOrder, Exists, KitchenInv, KitchenTypeOK
<1>4. /\ op.type = "order" /\ op.command = "order.create" /\ op.stream = o
      /\ op.id = env.id /\ op.agg = o /\ op.ver = 1
  OBVIOUS
<1>5. op \in OperationRow
  BY EnvelopesAssumption DEF OperationRow, OrderStatus
<1> HIDE DEF op
<1>6. Transacts(op)
  <2>1. Fresh(route, env) /\ Commit(route, env, CreateBody(o, T, ref), o)
    BY DEF StoreCreateOrder
  <2> QED
    BY <1>4, <2>1 DEF Transacts
<1>7. LedInv => LedInv' /\ KeepsCaughtUp /\ LogsVersion(op)
  <2>1. ~Exists(o) /\ Exists(o)' /\ orderVersion'[o] = 1
    BY <1>1, NoneAssumption DEF CreateOrder, Exists, OrderStatus, KitchenInv, KitchenTypeOK
  <2> QED
    BY <1>1, <1>4, <2>1, CreateCatchesUp DEF LogsVersion
<1> QED
  BY <1>1, <1>2, <1>3, <1>4, <1>5, <1>6, <1>7 DEF CommitsCommand

\* An order transition is logged in the stream of its existing order.
LEMMA OrderCommits ==
  ASSUME KitchenInv, NEW route, NEW env \in Envelopes, NEW o \in Orders, NEW to \in OrderStatus,
         NEW ver \in Versions, StoreTransitionOrder(route, env, o, to, ver)
  PROVE  CommitsCommand
<1>1. TransitionOrder(o, to, ver)
  BY DEF StoreTransitionOrder
<1>2. KitchenNext
  BY <1>1 DEF KitchenNext
<1>3. Exists(o) /\ updateOrder(o, to)
  BY <1>1 DEF TransitionOrder
<1>4. \A p \in Orders : Exists(p)' <=> Exists(p)
  BY <1>3, NoneAssumption DEF updateOrder, Exists, KitchenInv, KitchenTypeOK
<1>5. PICK op \in OperationRow :
        op = [id |-> env.id, type |-> "order", agg |-> o, stream |-> o,
              ver |-> orderVersion'[o], command |-> "order.transition", to |-> to,
              parent |-> None]
  <2>1. orderVersion'[o] \in Nat
    BY <1>2, NextStep DEF KitchenInv, KitchenTypeOK
  <2> QED
    BY <2>1, EnvelopesAssumption DEF OperationRow
<1>6. operations' = Append(operations, op)
  BY <1>5 DEF StoreTransitionOrder, appendOperation
<1>7. Transacts(op)
  <2>1. Fresh(route, env) /\ Commit(route, env, OrderBody(to, ver), o)
    BY DEF StoreTransitionOrder
  <2> QED
    BY <1>5, <2>1 DEF Transacts
<1>8. LedInv => LedInv' /\ KeepsCaughtUp /\ LogsVersion(op)
  <2>1. orderVersion[o] \in Nat
    BY DEF KitchenInv, KitchenTypeOK
  <2>2. LedInv => LedInv' /\ KeepsCaughtUp /\ CaughtUp(o)' /\ orderVersion'[o] = orderVersion[o] + 1
    BY <1>1, OrderCatchesUp
  <2>3. LedInv => LogsVersion(op)
    BY <1>3, <1>4, <1>5, <2>1, <2>2 DEF LogsVersion
  <2> QED
    BY <2>2, <2>3
<1> QED
  BY <1>1, <1>2, <1>3, <1>4, <1>5, <1>6, <1>7, <1>8 DEF CommitsCommand

\* A ticket transition is logged in the stream of the order the ticket belongs to.
LEMMA TicketCommits ==
  ASSUME KitchenInv, NEW route, NEW env \in Envelopes, NEW t \in Tickets, NEW to \in TicketStatus,
         NEW ver \in Versions, NEW parent \in Orders \cup {None},
         StoreTransitionTicket(route, env, t, to, ver, parent)
  PROVE  CommitsCommand
<1>1. TransitionTicket(t, to, ver, parent)
  BY DEF StoreTransitionTicket
<1>2. KitchenNext
  BY <1>1 DEF KitchenNext
<1>3. ticketOrder[t] \in Orders /\ Exists(ticketOrder[t]) /\ advanceDerived(ticketOrder[t])
  BY <1>1 DEF TransitionTicket, KitchenInv, KitchenTypeOK, RowsComplete
<1>4. \A p \in Orders : Exists(p)' => Exists(p)
  BY <1>3 DEF advanceDerived, updateOrder, orderVars, Exists, KitchenInv, KitchenTypeOK
<1>5. PICK op \in OperationRow :
        op = [id |-> env.id, type |-> "kitchenTicket", agg |-> t, stream |-> ticketOrder[t],
              ver |-> ticketVersion'[t], command |-> "kitchenTicket.transition", to |-> to,
              parent |-> parent]
  <2>1. ticketVersion'[t] \in Nat
    BY <1>2, NextStep DEF KitchenInv, KitchenTypeOK
  <2> QED
    BY <1>3, <2>1, EnvelopesAssumption DEF OperationRow
<1>6. operations' = Append(operations, op)
  BY <1>5 DEF StoreTransitionTicket, appendOperation
<1>7. Transacts(op)
  <2>1. Fresh(route, env) /\ Commit(route, env, TicketBody(t, to, ver, parent), ticketOrder[t])
    BY DEF StoreTransitionTicket
  <2> QED
    BY <1>5, <2>1 DEF Transacts
<1>8. LedInv => LedInv' /\ KeepsCaughtUp /\ LogsVersion(op)
  BY <1>1, <1>5, TicketCatchesUp DEF LogsVersion
<1> QED
  BY <1>1, <1>2, <1>3, <1>4, <1>5, <1>6, <1>7, <1>8 DEF CommitsCommand

\* A whole-order ticket command is logged in the stream of its existing order.
LEMMA AllTicketsCommits ==
  ASSUME KitchenInv, NEW route, NEW env \in Envelopes, NEW o \in Orders, NEW to \in TicketStatus,
         NEW ver \in Versions, StoreTransitionOrderTickets(route, env, o, to, ver)
  PROVE  CommitsCommand
<1>1. TransitionOrderTickets(o, to, ver)
  BY DEF StoreTransitionOrderTickets
<1>2. KitchenNext
  BY <1>1 DEF KitchenNext
<1>3. Exists(o) /\ advanceDerived(o)
  BY <1>1 DEF TransitionOrderTickets
<1>4. \A p \in Orders : Exists(p)' => Exists(p)
  BY <1>3 DEF advanceDerived, updateOrder, orderVars, Exists, KitchenInv, KitchenTypeOK
<1>5. PICK op \in OperationRow :
        op = [id |-> env.id, type |-> "order", agg |-> o, stream |-> o,
              ver |-> orderVersion'[o], command |-> "kitchenTicket.transitionAll",
              to |-> to, parent |-> None]
  <2>1. orderVersion'[o] \in Nat
    BY <1>2, NextStep DEF KitchenInv, KitchenTypeOK
  <2> QED
    BY <2>1, EnvelopesAssumption DEF OperationRow
<1>6. operations' = Append(operations, op)
  BY <1>5 DEF StoreTransitionOrderTickets, appendOperation
<1>7. Transacts(op)
  <2>1. Fresh(route, env) /\ Commit(route, env, AllBody(o, to, ver), o)
    BY DEF StoreTransitionOrderTickets
  <2> QED
    BY <1>5, <2>1 DEF Transacts
<1>8. LedInv => LedInv' /\ KeepsCaughtUp /\ LogsVersion(op)
  <2>1. Exists(o)'
    <3>1. OrderAdvances(o)
      BY <1>2, NextStep DEF AllAdvance
    <3> QED
      BY <1>2, <1>3, <3>1, NextStep, NoneAssumption
      DEF OrderAdvances, Exists, OrderStatus, Rank
  <2>2. LedInv => /\ LedInv' /\ KeepsCaughtUp /\ CaughtUp(o)'
                  /\ orderVersion'[o] = orderVersion[o] => ~CaughtUp(o)
    BY <1>1, AllTicketsCatchUp
  <2>3. LedInv => LogsVersion(op)
    BY <1>5, <2>1, <2>2 DEF LogsVersion
  <2> QED
    BY <2>2, <2>3
<1> QED
  BY <1>1, <1>2, <1>3, <1>4, <1>5, <1>6, <1>7, <1>8 DEF CommitsCommand

\* A repeated request changes nothing and gets the answer that its record holds.
AnswersFromRecord ==
  /\ UNCHANGED <<kitchenVars, orderHist, ticketHist, operations, records>>
  /\ \E rec \in records : answers' = answers \cup {<<rec.hash[1].id, rec.response>>}

\* A request is answered from its record, or it commits one command.
LEMMA NextCommits ==
  ASSUME KitchenInv, Next
  PROVE  CommitsCommand \/ AnswersFromRecord
<1>1. PICK env \in Envelopes :
        handleCreateOrder(env) \/ handleTransitionOrder(env)
          \/ handleTransitionTicket(env) \/ handleBrowserMutation(env)
  BY DEF Next
<1>2. ASSUME NEW route, NEW payload, Replay(route, env, payload) PROVE AnswersFromRecord
  <2>1. PICK rec \in lookupIdempotency(route, env) :
          /\ rec.hash = <<env, payload>>
          /\ answers' = answers \cup {<<env.id, rec.response>>}
          /\ UNCHANGED <<kitchenVars, orderHist, ticketHist, operations, records>>
    BY <1>2 DEF Replay
  <2>2. rec \in records /\ rec.hash[1].id = env.id
    BY <2>1 DEF lookupIdempotency
  <2> QED
    BY <2>1, <2>2 DEF AnswersFromRecord
<1>3. CASE handleCreateOrder(env)
  BY <1>2, <1>3, CreateCommits DEF handleCreateOrder
<1>4. CASE handleTransitionOrder(env)
  BY <1>2, <1>4, OrderCommits DEF handleTransitionOrder
<1>5. CASE handleTransitionTicket(env)
  BY <1>2, <1>5, TicketCommits DEF handleTransitionTicket
<1>6. CASE handleBrowserMutation(env)
  BY <1>2, <1>6, CreateCommits, TicketCommits, AllTicketsCommits DEF handleBrowserMutation
<1> QED
  BY <1>1, <1>3, <1>4, <1>5, <1>6
-----------------------------------------------------------------------------
(* The store implements the projections *)

\* A step of the store is a Kitchen step or leaves the projections alone.
LEMMA StoreStep ==
  ASSUME KitchenInv, [Next]_vars
  PROVE  KitchenInv' /\ [KitchenNext]_kitchenVars
<1>1. CASE CommitsCommand
  BY <1>1, NextStep DEF CommitsCommand
<1>2. CASE UNCHANGED kitchenVars
  BY <1>2, StutterStep
<1>3. UNCHANGED vars \/ AnswersFromRecord => UNCHANGED kitchenVars
  BY DEF vars, kitchenVars, AnswersFromRecord
<1> QED
  BY <1>1, <1>2, <1>3, NextCommits

\* Behind replays, reused keys and reused operation ids, the store's two projections move
\* as Kitchen says: no request changes a row except by one committed command.
THEOREM StoreImplementsKitchen == Spec => KitchenSpec
<1>1. Init => KitchenInit
  BY DEF Init
<1>2. KitchenInit => KitchenInv
  BY InitInv
<1>3. KitchenInv /\ [Next]_vars => KitchenInv' /\ [KitchenNext]_kitchenVars
  BY StoreStep
<1> QED
  BY <1>1, <1>2, <1>3, PTL DEF Spec, KitchenSpec

\* The outlet's HTTP interface never leaves kitchen work behind a finished order, nor an
\* order open whose tickets are all finished.
THEOREM StoreFinishesTogether == Spec => []TerminalTogether
BY StoreImplementsKitchen, FinishedTogether, PTL
-----------------------------------------------------------------------------
(* Causality streams *)

Created(log, o, n) ==
  \E j \in 1..n : log[j].stream = o /\ log[j].command = "order.create"

\* StreamsRooted with what makes it inductive: every existing order is in the log.
StreamInv ==
  /\ operations \in Seq(OperationRow)
  /\ \A o \in Orders : Exists(o) => Created(operations, o, Len(operations))
  /\ \A i \in 1..Len(operations) : Created(operations, operations[i].stream, i)
  /\ \A i \in 1..Len(operations) : operations[i].type = "kitchenTicket" =>
       operations[i].agg \in Tickets /\ operations[i].stream = ticketOrder[operations[i].agg]

\* A ticket keeps its order.
LEMMA TicketKeepsOrder ==
  ASSUME KitchenInv, KitchenNext
  PROVE  \A t \in Tickets : ticketOrder[t] \in Orders => ticketOrder'[t] = ticketOrder[t]
<1>1. AllAdvance
  BY NextStep
<1> QED
  BY <1>1, NoneAssumption DEF AllAdvance, TicketAdvances

\* Appending the operation of a committed command keeps every stream rooted.
LEMMA StreamStep ==
  ASSUME KitchenInv, StreamInv, CommitsCommand
  PROVE  StreamInv'
<1> DEFINE n == Len(operations)
<1>1. PICK op \in OperationRow :
        /\ operations' = Append(operations, op)
        /\ KitchenNext
        /\ op.type = "kitchenTicket" => op.agg \in Tickets /\ op.stream = ticketOrder[op.agg]
        /\ op.command = "order.create" \/ Exists(op.stream)
        /\ \A o \in Orders : Exists(o)' /\ ~Exists(o) =>
             op.stream = o /\ op.command = "order.create"
  BY DEF CommitsCommand
<1>2. /\ operations' \in Seq(OperationRow) /\ n \in Nat /\ Len(operations') = n + 1
      /\ operations'[n + 1] = op
      /\ \A i \in 1..n : operations'[i] = operations[i] /\ operations[i] \in OperationRow
  BY <1>1 DEF StreamInv
<1>3. op.stream \in Orders
  BY DEF OperationRow
<1> HIDE DEF n
<1>4. \A o \in Orders, m \in 1..n : Created(operations, o, m) => Created(operations', o, m)
  BY <1>2 DEF Created
<1>5. \A o \in Orders : Created(operations, o, n) => Created(operations', o, n + 1)
  BY <1>2 DEF Created
<1>6. op.command = "order.create" => Created(operations', op.stream, n + 1)
  BY <1>2 DEF Created
<1>7. ASSUME NEW o \in Orders, Exists(o)' PROVE Created(operations', o, n + 1)
  <2>1. CASE Exists(o)
    BY <1>5, <2>1 DEF StreamInv, n
  <2>2. CASE ~Exists(o)
    BY <1>1, <1>6, <1>7, <2>2
  <2> QED
    BY <2>1, <2>2
<1>8. ASSUME NEW i \in 1..(n + 1) PROVE Created(operations', operations'[i].stream, i)
  <2>1. CASE i = n + 1
    <3>1. CASE Exists(op.stream)
      <4>1. Created(operations, op.stream, n)
        BY <1>3, <3>1 DEF StreamInv, n
      <4> QED
        BY <1>2, <1>3, <1>5, <2>1, <4>1
    <3>2. CASE op.command = "order.create"
      BY <1>2, <1>6, <2>1, <3>2
    <3> QED
      BY <1>1, <3>1, <3>2
  <2>2. CASE i # n + 1
    <3>1. i \in 1..n
      BY <1>2, <2>2
    <3>2. Created(operations, operations[i].stream, i) /\ operations[i].stream \in Orders
      BY <1>2, <3>1 DEF StreamInv, OperationRow, n
    <3> QED
      BY <1>2, <1>4, <3>1, <3>2
  <2> QED
    BY <2>1, <2>2
<1>9. ASSUME NEW i \in 1..(n + 1), operations'[i].type = "kitchenTicket"
      PROVE  /\ operations'[i].agg \in Tickets
             /\ operations'[i].stream = ticketOrder'[operations'[i].agg]
  <2>1. \A t \in Tickets : ticketOrder[t] \in Orders => ticketOrder'[t] = ticketOrder[t]
    BY <1>1, TicketKeepsOrder
  <2>2. CASE i = n + 1
    BY <1>1, <1>2, <1>3, <1>9, <2>1, <2>2
  <2>3. CASE i # n + 1
    <3>1. i \in 1..n
      BY <1>2, <2>3
    <3>2. /\ operations[i].agg \in Tickets /\ operations[i].stream \in Orders
          /\ operations[i].stream = ticketOrder[operations[i].agg]
      BY <1>2, <1>9, <3>1 DEF StreamInv, OperationRow, n
    <3> QED
      BY <1>2, <2>1, <3>1, <3>2
  <2> QED
    BY <2>2, <2>3
<1>10. Len(operations)' = n + 1
  BY <1>2
<1> QED
  BY <1>2, <1>7, <1>8, <1>9, <1>10 DEF StreamInv, Exists

\* Every causality stream opens with its order's creation and takes in the commands of the
\* order's tickets: what PendingOperations holds back behind an unsettled operation is
\* everything that depends on it.
THEOREM StreamsAreRooted == Spec => []StreamsRooted
<1>1. Init => KitchenInv /\ StreamInv
  <2>1. Init => StreamInv
    BY DEF Init, KitchenInit, StreamInv, Exists
  <2> QED
    BY <2>1, InitInv DEF Init
<1>2. KitchenInv /\ StreamInv /\ [Next]_vars => (KitchenInv /\ StreamInv)'
  <2>1. ASSUME KitchenInv, StreamInv, [Next]_vars PROVE StreamInv'
    <3>1. CASE CommitsCommand
      BY <2>1, <3>1, StreamStep
    <3>2. CASE UNCHANGED <<kitchenVars, operations>>
      BY <2>1, <3>2 DEF StreamInv, Created, Exists, kitchenVars
    <3>3. UNCHANGED vars \/ AnswersFromRecord => UNCHANGED <<kitchenVars, operations>>
      BY DEF vars, kitchenVars, AnswersFromRecord
    <3> QED
      BY <2>1, <3>1, <3>2, <3>3, NextCommits
  <2> QED
    BY <2>1, StoreStep
<1>3. StreamInv => StreamsRooted
  BY DEF StreamInv, StreamsRooted, Created
<1> QED
  BY <1>1, <1>2, <1>3, PTL DEF Spec
-----------------------------------------------------------------------------
(* Logged versions *)

\* VersionsIncrease with what makes it inductive: no row is behind its log, and where the
\* log has an order's current version, no ticket lags the order, so that no whole-order
\* ticket command can log that version again.
OrderLogged(o) ==
  \A i \in 1..Len(operations) : operations[i].type = "order" /\ operations[i].agg = o =>
    /\ Exists(o) /\ operations[i].ver <= orderVersion[o]
    /\ operations[i].ver = orderVersion[o] => CaughtUp(o)

TicketLogged(t) ==
  \A i \in 1..Len(operations) : operations[i].type = "kitchenTicket" /\ operations[i].agg = t =>
    operations[i].ver <= ticketVersion[t]

LogInv ==
  /\ LedInv
  /\ \A o \in Orders : OrderLogged(o)
  /\ \A t \in Tickets : TicketLogged(t)
  /\ VersionsIncrease

\* Rows never lose a version.
LEMMA VersionsGrow ==
  ASSUME KitchenInv, AllAdvance
  PROVE  /\ \A o \in Orders : Exists(o) => orderVersion[o] <= orderVersion'[o] /\ Exists(o)'
         /\ \A t \in Tickets : ticketOrder[t] # None => ticketVersion[t] <= ticketVersion'[t]
<1>1. /\ \A o \in Orders : orderVersion[o] \in Nat
      /\ \A t \in Tickets : ticketVersion[t] \in Nat
  BY DEF KitchenInv, KitchenTypeOK
<1>2. ASSUME NEW o \in Orders, Exists(o) PROVE orderVersion[o] <= orderVersion'[o] /\ Exists(o)'
  BY <1>1, <1>2, NoneAssumption DEF AllAdvance, OrderAdvances, Exists, OrderStatus, Rank
<1> QED
  BY <1>1, <1>2 DEF AllAdvance, TicketAdvances

\* Appending the operation of a committed command keeps the logged versions in order.
LEMMA LogStep ==
  ASSUME KitchenInv, KitchenInv', StreamInv, LogInv, CommitsCommand
  PROVE  LogInv'
<1> DEFINE n == Len(operations)
<1>1. PICK op \in OperationRow :
        /\ operations' = Append(operations, op) /\ KitchenNext
        /\ LedInv' /\ KeepsCaughtUp /\ LogsVersion(op)
  BY DEF CommitsCommand, LogInv
<1>2. /\ n \in Nat /\ Len(operations') = n + 1 /\ operations'[n + 1] = op
      /\ \A i \in 1..n : operations'[i] = operations[i] /\ operations[i] \in OperationRow
  BY <1>1 DEF StreamInv
<1>3. AllAdvance
  BY <1>1, NextStep
<1>4. /\ \A o \in Orders : Exists(o) => orderVersion[o] <= orderVersion'[o] /\ Exists(o)'
      /\ \A t \in Tickets : ticketOrder[t] # None => ticketVersion[t] <= ticketVersion'[t]
  BY <1>3, VersionsGrow
<1>5. /\ \A o \in Orders : orderVersion[o] \in Nat /\ orderVersion'[o] \in Nat
      /\ \A t \in Tickets : ticketVersion[t] \in Nat /\ ticketVersion'[t] \in Nat
  BY DEF KitchenInv, KitchenTypeOK
<1>6. op.ver \in Nat /\ \A i \in 1..n : operations[i].ver \in Nat
  BY <1>2 DEF OperationRow
<1> HIDE DEF n
<1>7. ASSUME NEW o \in Orders PROVE OrderLogged(o)'
  <2>1. ASSUME NEW i \in 1..n, operations[i].type = "order", operations[i].agg = o
        PROVE  /\ Exists(o)' /\ operations[i].ver <= orderVersion'[o]
               /\ operations[i].ver = orderVersion'[o] => CaughtUp(o)'
    <3>1. /\ Exists(o) /\ operations[i].ver <= orderVersion[o]
          /\ operations[i].ver = orderVersion[o] => CaughtUp(o)
      BY <2>1 DEF LogInv, OrderLogged, n
    <3>2. Exists(o)' /\ orderVersion[o] <= orderVersion'[o]
      BY <1>4, <3>1
    <3> QED
      BY <1>1, <1>5, <1>6, <2>1, <3>1, <3>2 DEF KeepsCaughtUp
  <2>2. ASSUME op.type = "order", op.agg = o
        PROVE  Exists(o)' /\ op.ver <= orderVersion'[o] /\ CaughtUp(o)'
    BY <1>1, <1>5, <2>2 DEF LogsVersion
  <2> QED
    BY <1>2, <2>1, <2>2 DEF OrderLogged
<1>8. ASSUME NEW t \in Tickets PROVE TicketLogged(t)'
  <2>1. ASSUME NEW i \in 1..n, operations[i].type = "kitchenTicket", operations[i].agg = t
        PROVE  operations[i].ver <= ticketVersion'[t]
    <3>1. ticketOrder[t] # None
      BY <1>2, <2>1, NoneAssumption DEF StreamInv, OperationRow, n
    <3>2. operations[i].ver <= ticketVersion[t]
      BY <2>1 DEF LogInv, TicketLogged, n
    <3> QED
      BY <1>4, <1>5, <1>6, <2>1, <3>1, <3>2
  <2>2. op.type = "kitchenTicket" /\ op.agg = t => op.ver <= ticketVersion'[t]
    BY <1>1, <1>5 DEF LogsVersion
  <2> QED
    BY <1>2, <2>1, <2>2 DEF TicketLogged
<1>9. ASSUME NEW i \in 1..n, operations[i].type = op.type, operations[i].agg = op.agg
      PROVE  operations[i].ver < op.ver
  <2>1. CASE op.type = "order"
    <3>1. PICK o \in Orders : o = op.agg
      BY <1>1, <2>1 DEF LogsVersion
    <3>2. /\ Exists(o) /\ operations[i].ver <= orderVersion[o]
          /\ operations[i].ver = orderVersion[o] => CaughtUp(o)
      BY <1>9, <2>1, <3>1 DEF LogInv, OrderLogged, n
    <3>3. op.ver = orderVersion'[o] /\ (orderVersion'[o] = orderVersion[o] => ~CaughtUp(o))
      BY <1>1, <2>1, <3>1, <3>2 DEF LogsVersion
    <3>4. orderVersion[o] <= orderVersion'[o]
      BY <1>4, <3>2
    <3> QED
      BY <1>5, <1>6, <3>2, <3>3, <3>4
  <2>2. CASE op.type = "kitchenTicket"
    <3>1. PICK t \in Tickets : t = op.agg
      BY <1>1, <2>2 DEF LogsVersion
    <3>2. operations[i].ver <= ticketVersion[t]
      BY <1>9, <2>2, <3>1 DEF LogInv, TicketLogged, n
    <3>3. op.ver = ticketVersion[t] + 1
      BY <1>1, <2>2, <3>1 DEF LogsVersion
    <3> QED
      BY <1>5, <1>6, <3>2, <3>3
  <2> QED
    BY <2>1, <2>2 DEF OperationRow
<1>10. VersionsIncrease'
  <2>1. DOMAIN operations = 1..n /\ DOMAIN operations' = 1..(n + 1)
    BY <1>1 DEF StreamInv, n
  <2>2. \A i, j \in 1..n :
          i < j /\ operations[i].type = operations[j].type /\ operations[i].agg = operations[j].agg
            => operations[i].ver < operations[j].ver
    BY <2>1 DEF LogInv, VersionsIncrease
  <2>3. ASSUME NEW i \in 1..(n + 1), NEW j \in 1..(n + 1), i < j,
               operations'[i].type = operations'[j].type, operations'[i].agg = operations'[j].agg
        PROVE  operations'[i].ver < operations'[j].ver
    <3>1. i \in 1..n /\ (j \in 1..n \/ j = n + 1)
      BY <1>2, <2>3
    <3> QED
      BY <1>2, <1>9, <2>2, <2>3, <3>1
  <2> QED
    BY <2>1, <2>3 DEF VersionsIncrease
<1> QED
  BY <1>1, <1>7, <1>8, <1>10 DEF LogInv
-----------------------------------------------------------------------------
(* Histories *)

HistoryRow(S) == [op : Ops, from : S \cup {None}, to : S, version : Nat]

\* HistoryReplays with the type of the two tables.
HistInv ==
  /\ orderHist \in [Orders -> Seq(HistoryRow(OrderStatus))]
  /\ ticketHist \in [Tickets -> Seq(HistoryRow(TicketStatus))]
  /\ HistoryReplays

\* A history that is not empty has a last row.
LEMMA LastRow ==
  ASSUME NEW R, NEW h \in Seq(R), h # <<>>
  PROVE  h[Len(h)] \in R
<1>1. Len(h) \in 1..Len(h)
  OBVIOUS
<1> QED
  BY <1>1

\* A history row that starts where the row was and has its next version keeps the replay.
LEMMA ReplaysAppend ==
  ASSUME NEW R, NEW h \in Seq(R), NEW s, NEW v, Replays(h, s, v), NEW row \in R,
         row.from = s, row.version = v + 1
  PROVE  Replays(Append(h, row), row.to, v + 1)
<1> DEFINE g == Append(h, row)
           n == Len(h)
<1>1. /\ n \in Nat /\ Len(g) = n + 1 /\ g[n + 1] = row /\ v = n
      /\ \A i \in 1..n : g[i] = h[i]
  BY DEF Replays
<1>2. g # <<>> /\ (h = <<>> <=> n = 0)
  OBVIOUS
<1>3. ASSUME NEW i \in 1..(n + 1)
      PROVE  g[i].version = i /\ g[i].from = IF i = 1 THEN None ELSE g[i - 1].to
  <2>1. CASE i \in 1..n
    <3>1. h[i].version = i /\ h[i].from = IF i = 1 THEN None ELSE h[i - 1].to
      BY <2>1 DEF Replays
    <3>2. i # 1 => i - 1 \in 1..n
      BY <1>1, <2>1
    <3> HIDE DEF g
    <3> QED
      BY <1>1, <2>1, <3>1, <3>2
  <2>2. CASE i = n + 1
    <3>1. s = IF n = 0 THEN None ELSE h[n].to
      BY <1>2 DEF Replays
    <3>2. n # 0 => n \in 1..n /\ n + 1 - 1 = n
      BY <1>1
    <3> HIDE DEF g, n
    <3> QED
      BY <1>1, <2>2, <3>1, <3>2
  <2> QED
    BY <1>1, <2>1, <2>2
<1> HIDE DEF g, n
<1> QED
  BY <1>1, <1>2, <1>3 DEF Replays, g

\* insertOrderTransition and insertTicketTransition write one row for each row that moved.
LEMMA HistStep ==
  ASSUME KitchenInv, KitchenInv', HistInv, AllAdvance, NEW op \in Ops,
         insertOrderTransition(op), insertTicketTransition(op)
  PROVE  HistInv'
<1>1. KitchenTypeOK /\ KitchenTypeOK' /\ RowsComplete /\ None \notin OrderStatus \cup TicketStatus
  BY NoneAssumption DEF KitchenInv
<1>2. ASSUME NEW o \in Orders
      PROVE  /\ orderHist'[o] \in Seq(HistoryRow(OrderStatus))
             /\ Replays(orderHist'[o], orderStatus'[o], orderVersion'[o])
  <2> DEFINE row == [op |-> op, from |-> orderStatus[o], to |-> orderStatus'[o],
                     version |-> orderVersion'[o]]
  <2>1. /\ orderHist[o] \in Seq(HistoryRow(OrderStatus))
        /\ Replays(orderHist[o], orderStatus[o], orderVersion[o])
    BY DEF HistInv, HistoryReplays
  <2>2. orderHist'[o] = IF orderVersion'[o] = orderVersion[o] THEN orderHist[o]
                        ELSE Append(orderHist[o], row)
    BY DEF insertOrderTransition
  <2>3. orderVersion[o] \in Nat /\ orderStatus[o] \in OrderStatus \cup {None}
    BY <1>1 DEF KitchenTypeOK
  <2>4. orderStatus[o] = None => orderVersion[o] = 0
    <3>1. orderHist[o] # <<>> => orderHist[o][Len(orderHist[o])].to \in OrderStatus
      <4>1. orderHist[o] # <<>> => orderHist[o][Len(orderHist[o])] \in HistoryRow(OrderStatus)
        BY <2>1, LastRow
      <4> QED
        BY <4>1 DEF HistoryRow
    <3> QED
      BY <1>1, <2>1, <3>1 DEF Replays
  <2>5. OrderAdvances(o)
    BY DEF AllAdvance
  <2>6. CASE orderVersion'[o] = orderVersion[o]
    <3>1. orderStatus'[o] = orderStatus[o]
      BY <2>3, <2>4, <2>5, <2>6 DEF OrderAdvances, Exists
    <3> QED
      BY <2>1, <2>2, <2>6, <3>1
  <2>7. CASE orderVersion'[o] # orderVersion[o]
    <3>1. orderVersion'[o] = orderVersion[o] + 1 /\ orderStatus'[o] \in OrderStatus
      <4>1. CASE ~Exists(o) /\ orderStatus'[o] = "received" /\ orderVersion'[o] = 1
        BY <2>4, <4>1 DEF Exists, OrderStatus
      <4>2. CASE Exists(o) /\ orderVersion'[o] = orderVersion[o] + 1
                 /\ (orderStatus'[o] = "cancelled" \/ Rank(orderStatus'[o]) > Rank(orderStatus[o]))
        BY <1>1, <4>2 DEF OrderStatus, Rank
      <4> QED
        BY <2>5, <2>7, <4>1, <4>2 DEF OrderAdvances
    <3>2. row \in HistoryRow(OrderStatus)
      BY <2>3, <3>1 DEF HistoryRow
    <3>3. row.from = orderStatus[o] /\ row.version = orderVersion[o] + 1 /\ row.to = orderStatus'[o]
      BY <3>1
    <3> HIDE DEF row
    <3>4. Replays(Append(orderHist[o], row), row.to, orderVersion[o] + 1)
      BY <2>1, <3>2, <3>3, ReplaysAppend
    <3>5. Append(orderHist[o], row) \in Seq(HistoryRow(OrderStatus))
      BY <2>1, <3>2
    <3> QED
      BY <2>2, <2>7, <3>1, <3>3, <3>4, <3>5
  <2> QED
    BY <2>6, <2>7
<1>3. ASSUME NEW t \in Tickets
      PROVE  /\ ticketHist'[t] \in Seq(HistoryRow(TicketStatus))
             /\ Replays(ticketHist'[t], ticketStatus'[t], ticketVersion'[t])
  <2> DEFINE row == [op |-> op, from |-> ticketStatus[t], to |-> ticketStatus'[t],
                     version |-> ticketVersion'[t]]
  <2>1. /\ ticketHist[t] \in Seq(HistoryRow(TicketStatus))
        /\ Replays(ticketHist[t], ticketStatus[t], ticketVersion[t])
    BY DEF HistInv, HistoryReplays
  <2>2. ticketHist'[t] = IF ticketVersion'[t] = ticketVersion[t] THEN ticketHist[t]
                         ELSE Append(ticketHist[t], row)
    BY DEF insertTicketTransition
  <2>3. ticketVersion[t] \in Nat /\ ticketStatus[t] \in TicketStatus \cup {None}
    BY <1>1 DEF KitchenTypeOK
  <2>4. ticketOrder[t] = None => ticketVersion[t] = 0
    <3>1. ticketHist[t] # <<>> => ticketHist[t][Len(ticketHist[t])].to \in TicketStatus
      <4>1. ticketHist[t] # <<>> => ticketHist[t][Len(ticketHist[t])] \in HistoryRow(TicketStatus)
        BY <2>1, LastRow
      <4> QED
        BY <4>1 DEF HistoryRow
    <3>2. ticketOrder[t] = None => ticketStatus[t] = None
      BY <1>1 DEF RowsComplete
    <3> QED
      BY <1>1, <2>1, <3>1, <3>2 DEF Replays
  <2>5. TicketAdvances(t)
    BY DEF AllAdvance
  <2>6. CASE ticketVersion'[t] = ticketVersion[t]
    <3>1. ticketStatus'[t] = ticketStatus[t]
      BY <2>3, <2>4, <2>5, <2>6 DEF TicketAdvances
    <3> QED
      BY <2>1, <2>2, <2>6, <3>1
  <2>7. CASE ticketVersion'[t] # ticketVersion[t]
    <3>1. ticketVersion'[t] = ticketVersion[t] + 1 /\ ticketStatus'[t] \in TicketStatus
      BY <2>4, <2>5, <2>7 DEF TicketAdvances, CanTransitionTicket, TicketStatus
    <3>2. row \in HistoryRow(TicketStatus)
      BY <2>3, <3>1 DEF HistoryRow
    <3>3. row.from = ticketStatus[t] /\ row.version = ticketVersion[t] + 1 /\ row.to = ticketStatus'[t]
      BY <3>1
    <3> HIDE DEF row
    <3>4. Replays(Append(ticketHist[t], row), row.to, ticketVersion[t] + 1)
      BY <2>1, <3>2, <3>3, ReplaysAppend
    <3>5. Append(ticketHist[t], row) \in Seq(HistoryRow(TicketStatus))
      BY <2>1, <3>2
    <3> QED
      BY <2>2, <2>7, <3>1, <3>3, <3>4, <3>5
  <2> QED
    BY <2>6, <2>7
<1>4. orderHist' \in [Orders -> Seq(HistoryRow(OrderStatus))]
  BY <1>2 DEF insertOrderTransition
<1>5. ticketHist' \in [Tickets -> Seq(HistoryRow(TicketStatus))]
  BY <1>3 DEF insertTicketTransition
<1> QED
  BY <1>2, <1>3, <1>4, <1>5 DEF HistInv, HistoryReplays
-----------------------------------------------------------------------------
(* Effects, records and answers *)

IsLogged(id) == \E j \in 1..Len(operations) : operations[j].id = id

\* EffectOnce and AnswersAgree with what makes them inductive: records, history rows and
\* answers belong to logged operations, and every answer is the one its record holds.
EffectInv ==
  /\ IsFiniteSet(records)
  /\ \A rec \in records : IsLogged(rec.hash[1].id)
  /\ \A i \in 1..Len(operations) : \E rec \in records : rec.hash[1].id = operations[i].id
  /\ \A r, q \in records : r.hash[1].id = q.hash[1].id => r = q
  /\ \A o \in Orders : \A i \in DOMAIN orderHist[o] : IsLogged(orderHist[o][i].op)
  /\ \A t \in Tickets : \A i \in DOMAIN ticketHist[t] : IsLogged(ticketHist[t][i].op)
  /\ \A a \in answers : \E rec \in records : a = <<rec.hash[1].id, rec.response>>
  /\ EffectOnce

\* One history, extended by at most one row of an operation that is logged by this step.
LEMMA HistoryOnce ==
  ASSUME NEW R, NEW h \in Seq(R), NEW g, NEW row, g = h \/ g = Append(h, row),
         ~IsLogged(row.op), IsLogged(row.op)', \A id : IsLogged(id) => IsLogged(id)',
         \A i \in DOMAIN h : IsLogged(h[i].op),
         \A i, j \in DOMAIN h : h[i].op = h[j].op => i = j
  PROVE  /\ \A i \in DOMAIN g : IsLogged(g[i].op)'
         /\ \A i, j \in DOMAIN g : g[i].op = g[j].op => i = j
<1>1. CASE g = h
  BY <1>1
<1>2. CASE g = Append(h, row)
  <2> DEFINE n == Len(h)
  <2>1. /\ n \in Nat /\ DOMAIN h = 1..n /\ DOMAIN g = 1..(n + 1) /\ g[n + 1] = row
        /\ \A i \in 1..n : g[i] = h[i]
    BY <1>2
  <2> HIDE DEF n
  <2>2. \A i \in 1..n : g[i].op # row.op
    BY <2>1
  <2>3. \A i \in DOMAIN g : IsLogged(g[i].op)'
    <3>1. ASSUME NEW i \in DOMAIN g PROVE IsLogged(g[i].op)'
      <4>1. CASE i \in 1..n
        BY <2>1, <4>1
      <4>2. CASE i = n + 1
        BY <2>1, <4>2
      <4> QED
        BY <2>1, <4>1, <4>2
    <3> QED
      BY <3>1
  <2> QED
    BY <2>1, <2>2, <2>3
<1> QED
  BY <1>1, <1>2

\* A committed command adds one operation, one record and one answer, all of a new id.
LEMMA EffectStep ==
  ASSUME KitchenInv, KitchenInv', StreamInv, HistInv, EffectInv, CommitsCommand
  PROVE  HistInv' /\ EffectInv'
<1> DEFINE n == Len(operations)
<1>1. PICK op \in OperationRow :
        operations' = Append(operations, op) /\ KitchenNext /\ Transacts(op)
  BY DEF CommitsCommand
<1>2. PICK env \in Envelopes :
        /\ op.id = env.id
        /\ \E route, payload, o : Fresh(route, env) /\ Commit(route, env, payload, o)
  BY <1>1 DEF Transacts
<1>3. PICK route, payload, o : Fresh(route, env) /\ Commit(route, env, payload, o)
  BY <1>2
<1>4. /\ n \in Nat /\ DOMAIN operations = 1..n
      /\ Len(operations') = n + 1 /\ DOMAIN operations' = 1..(n + 1)
      /\ operations'[n + 1] = op /\ \A i \in 1..n : operations'[i] = operations[i]
  BY <1>1 DEF StreamInv
<1>5. env.id \in Ops /\ \A i \in 1..n : operations[i].id # env.id
  BY <1>3, <1>4, EnvelopesAssumption DEF Fresh, ensureOperationUnused
<1>6. HistInv'
  <2>1. AllAdvance
    BY <1>1, NextStep
  <2> QED
    BY <1>3, <1>5, <2>1, HistStep DEF Commit
<1>7. PICK new :
        /\ new = [route |-> route, key |-> env.key, hash |-> <<env, payload>>,
                  response |-> responseFor(o)]
        /\ records' = records \cup {new} /\ answers' = answers \cup {<<env.id, responseFor(o)>>}
  BY <1>3 DEF Commit, saveIdempotency
<1>8. new.hash[1].id = env.id /\ new.response = responseFor(o)
  BY <1>7
<1> HIDE DEF n
<1>9. ~IsLogged(env.id) /\ IsLogged(env.id)' /\ \A id : IsLogged(id) => IsLogged(id)'
  BY <1>2, <1>4, <1>5 DEF IsLogged, n
<1>10. new \notin records
  BY <1>8, <1>9 DEF EffectInv
<1>11. IsFiniteSet(records') /\ Cardinality(records') = n + 1
  <2>1. IsFiniteSet(records) /\ Cardinality(records) = n
    BY DEF EffectInv, EffectOnce, n
  <2> QED
    BY <1>7, <1>10, <2>1, FS_AddElement
<1>12. \A rec \in records' : IsLogged(rec.hash[1].id)'
  BY <1>7, <1>8, <1>9 DEF EffectInv
<1>13. \A i \in 1..(n + 1) : \E rec \in records' : rec.hash[1].id = operations'[i].id
  BY <1>2, <1>4, <1>7, <1>8 DEF EffectInv, n
<1>14. \A r, q \in records' : r.hash[1].id = q.hash[1].id => r = q
  BY <1>7, <1>8, <1>9 DEF EffectInv
<1>15. \A a \in answers' : \E rec \in records' : a = <<rec.hash[1].id, rec.response>>
  BY <1>7, <1>8 DEF EffectInv
<1>16. ASSUME NEW p \in Orders
       PROVE  /\ \A i \in DOMAIN orderHist'[p] : IsLogged(orderHist[p][i].op)'
              /\ \A i, j \in DOMAIN orderHist'[p] : orderHist'[p][i].op = orderHist'[p][j].op => i = j
  <2>1. PICK h, g, row :
          /\ h = orderHist[p] /\ g = orderHist'[p] /\ row.op = env.id
          /\ g = h \/ g = Append(h, row)
    <3>1. PICK row : row = [op |-> env.id, from |-> orderStatus[p], to |-> orderStatus'[p],
                            version |-> orderVersion'[p]]
      OBVIOUS
    <3>2. orderHist'[p] = orderHist[p] \/ orderHist'[p] = Append(orderHist[p], row)
      BY <1>3, <3>1 DEF Commit, insertOrderTransition
    <3>3. row.op = env.id
      BY <3>1
    <3> QED
      BY <3>2, <3>3
  <2>2. /\ h \in Seq(HistoryRow(OrderStatus)) /\ \A i \in DOMAIN h : IsLogged(h[i].op)
        /\ \A i, j \in DOMAIN h : h[i].op = h[j].op => i = j
    BY <2>1 DEF HistInv, EffectInv, EffectOnce
  <2>3. /\ \A i \in DOMAIN g : IsLogged(g[i].op)'
        /\ \A i, j \in DOMAIN g : g[i].op = g[j].op => i = j
    BY <1>9, <2>1, <2>2, HistoryOnce
  <2> QED
    BY <2>1, <2>3 DEF IsLogged
<1>17. ASSUME NEW t \in Tickets
       PROVE  /\ \A i \in DOMAIN ticketHist'[t] : IsLogged(ticketHist[t][i].op)'
              /\ \A i, j \in DOMAIN ticketHist'[t] :
                   ticketHist'[t][i].op = ticketHist'[t][j].op => i = j
  <2>1. PICK h, g, row :
          /\ h = ticketHist[t] /\ g = ticketHist'[t] /\ row.op = env.id
          /\ g = h \/ g = Append(h, row)
    <3>1. PICK row : row = [op |-> env.id, from |-> ticketStatus[t], to |-> ticketStatus'[t],
                            version |-> ticketVersion'[t]]
      OBVIOUS
    <3>2. ticketHist'[t] = ticketHist[t] \/ ticketHist'[t] = Append(ticketHist[t], row)
      BY <1>3, <3>1 DEF Commit, insertTicketTransition
    <3>3. row.op = env.id
      BY <3>1
    <3> QED
      BY <3>2, <3>3
  <2>2. /\ h \in Seq(HistoryRow(TicketStatus)) /\ \A i \in DOMAIN h : IsLogged(h[i].op)
        /\ \A i, j \in DOMAIN h : h[i].op = h[j].op => i = j
    BY <2>1 DEF HistInv, EffectInv, EffectOnce
  <2>3. /\ \A i \in DOMAIN g : IsLogged(g[i].op)'
        /\ \A i, j \in DOMAIN g : g[i].op = g[j].op => i = j
    BY <1>9, <2>1, <2>2, HistoryOnce
  <2> QED
    BY <2>1, <2>3 DEF IsLogged
<1>18. EffectOnce'
  <2>1. \A i, j \in 1..(n + 1) : operations'[i].id = operations'[j].id => i = j
    <3>1. \A i, j \in 1..n : operations[i].id = operations[j].id => i = j
      BY <1>4 DEF EffectInv, EffectOnce
    <3> QED
      BY <1>2, <1>4, <1>5, <3>1
  <2>2. ASSUME NEW i \in 1..(n + 1)
        PROVE  Cardinality({rec \in records' : rec.hash[1].id = operations'[i].id}) = 1
    <3>1. PICK r \in records' : r.hash[1].id = operations'[i].id
      BY <1>13
    <3>2. {rec \in records' : rec.hash[1].id = operations'[i].id} = {r}
      BY <1>14, <3>1
    <3> QED
      BY <3>2, FS_Singleton
  <2> QED
    BY <1>4, <1>11, <1>16, <1>17, <2>1, <2>2 DEF EffectOnce
<1> QED
  BY <1>4, <1>6, <1>11, <1>12, <1>13, <1>14, <1>15, <1>16, <1>17, <1>18 DEF EffectInv
-----------------------------------------------------------------------------
(* The store's invariant *)

StoreInv == KitchenInv /\ StreamInv /\ LogInv /\ HistInv /\ EffectInv

\* A replay adds only an answer that its record already holds.
LEMMA ReplayStep ==
  ASSUME StoreInv, AnswersFromRecord \/ UNCHANGED vars
  PROVE  StoreInv'
<1>1. UNCHANGED <<kitchenVars, orderHist, ticketHist, operations, records>>
  BY DEF AnswersFromRecord, vars, kitchenVars
<1>2. KitchenInv'
  BY <1>1, StutterStep DEF StoreInv
<1>3. StreamInv'
  BY <1>1 DEF StoreInv, StreamInv, Created, Exists, kitchenVars
<1>4. LogInv'
  <2>1. LedInv' /\ \A o : CaughtUp(o)' <=> CaughtUp(o)
    BY <1>1 DEF StoreInv, LogInv, LedInv, Led, CaughtUp, Reached, Exists, listTicketsForOrder, kitchenVars
  <2>2. (\A o \in Orders : OrderLogged(o)') /\ (\A t \in Tickets : TicketLogged(t)')
    BY <1>1, <2>1 DEF StoreInv, LogInv, OrderLogged, TicketLogged, Exists, kitchenVars
  <2> QED
    BY <1>1, <2>1, <2>2 DEF StoreInv, LogInv, VersionsIncrease
<1>5. HistInv'
  BY <1>1 DEF StoreInv, HistInv, HistoryReplays, kitchenVars
<1>6. \A a \in answers' : \E rec \in records : a = <<rec.hash[1].id, rec.response>>
  BY DEF AnswersFromRecord, vars, StoreInv, EffectInv
<1>7. EffectInv'
  BY <1>1, <1>6 DEF StoreInv, EffectInv, EffectOnce, IsLogged
<1> QED
  BY <1>2, <1>3, <1>4, <1>5, <1>7 DEF StoreInv

\* The invariant is inductive, for any orders, tickets, operation ids, keys and envelopes.
THEOREM StoreInvariant == Spec => []StoreInv
<1>1. Init => StoreInv
  <2> SUFFICES ASSUME Init PROVE StoreInv
    OBVIOUS
  <2>1. KitchenInv
    BY InitInv DEF Init
  <2>2. operations = <<>> /\ Len(operations) = 0 /\ DOMAIN operations = {} /\ records = {}
    BY DEF Init
  <2>3. \A o \in Orders : ~Exists(o)
    BY DEF Init, KitchenInit, Exists
  <2>4. StreamInv
    BY <2>2, <2>3 DEF StreamInv
  <2>5. LogInv
    BY <2>2, <2>3 DEF LogInv, LedInv, OrderLogged, TicketLogged, VersionsIncrease
  <2>6. HistInv
    BY DEF Init, KitchenInit, HistInv, HistoryReplays, Replays
  <2>7. EffectInv
    BY <2>2, FS_EmptySet DEF Init, EffectInv, EffectOnce
  <2> QED
    BY <2>1, <2>4, <2>5, <2>6, <2>7 DEF StoreInv
<1>2. StoreInv /\ [Next]_vars => StoreInv'
  <2> SUFFICES ASSUME StoreInv, [Next]_vars PROVE StoreInv'
    OBVIOUS
  <2>1. CASE CommitsCommand
    <3>1. KitchenInv'
      BY <2>1, NextStep DEF CommitsCommand, StoreInv
    <3> QED
      BY <2>1, <3>1, StreamStep, LogStep, EffectStep DEF StoreInv
  <2> QED
    BY <2>1, NextCommits, ReplayStep DEF StoreInv
<1> QED
  BY <1>1, <1>2, PTL DEF Spec

\* A single edge logs the versions of every order and of every ticket in increasing order,
\* although commands of an order's tickets move the order's version without logging it and
\* a whole-order ticket command logs it without moving it.
THEOREM LoggedVersionsIncrease == Spec => []VersionsIncrease
<1>1. StoreInv => VersionsIncrease
  BY DEF StoreInv, LogInv
<1> QED
  BY <1>1, StoreInvariant, PTL

\* The transition history of every order and ticket replays to its row.
THEOREM HistoriesReplay == Spec => []HistoryReplays
<1>1. StoreInv => HistoryReplays
  BY DEF StoreInv, HistInv
<1> QED
  BY <1>1, StoreInvariant, PTL

\* However often and under whatever keys an operation id is sent, it is logged once, has one
\* record and moved each row at most once.
THEOREM EffectsHappenOnce == Spec => []EffectOnce
<1>1. StoreInv => EffectOnce
  BY DEF StoreInv, EffectInv
<1> QED
  BY <1>1, StoreInvariant, PTL

\* Every answer to an operation is the first one, whatever the tables hold by now.
THEOREM AnswersAlwaysAgree == Spec => []AnswersAgree
<1>1. StoreInv => AnswersAgree
  BY DEF StoreInv, EffectInv, AnswersAgree
<1> QED
  BY <1>1, StoreInvariant, PTL
=============================================================================
