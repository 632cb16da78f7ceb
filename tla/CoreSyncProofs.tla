--------------------------- MODULE CoreSyncProofs ---------------------------
(***************************************************************************)
(* Proofs about CoreSync, for any set of operations that edges may send,   *)
(* in any order and any number of times: the ledger is contiguous, the     *)
(* evidence in the inbox matches the effects, the order row follows the    *)
(* ledger, and an operation that was settled is always answered the same.  *)
(***************************************************************************)
EXTENDS CoreSync, FiniteSetTheorems, SequenceTheorems, TLAPS

Row == [body : Submissions, status : {"accepted", "rejected", "conflict"}]

CloudTypeOK ==
  /\ inbox \in [Ops -> Row \cup {None}]
  /\ events \in Seq(Submissions)
  /\ cloudStatus \in [Orders -> OrderStatus \cup TicketStatus \cup {None}]
  /\ cloudVersion \in [Orders -> Nat]
  /\ consumptions \in [Orders -> Nat]
  /\ cases \in SUBSET Ops

\* An inbox row is filed under the id of its operation; an event is a supported
\* operation, whose inbox row says accepted.
RowsFiled ==
  /\ \A id \in Ops : inbox[id] # None => inbox[id].body.id = id
  /\ \A i \in DOMAIN events :
       /\ ~syncCommandProblem(events[i])
       /\ inbox[events[i].id] = [body |-> events[i], status |-> "accepted"]

\* The known versions of an aggregate are an interval from its first version.
KnownContiguous ==
  \A op \in Submissions :
    LET known == VersionsAt(op.type, op.agg) IN
    known = {} \/ \E m \in known : known = FirstVersion(op.type)..m

\* The inductive invariant.
CloudInv ==
  /\ CloudTypeOK /\ RowsFiled /\ KnownContiguous
  /\ LedgerContiguous /\ EvidenceMatchesEffect /\ ProjectionFollowsLedger
  /\ ConsumptionMatchesLedger

USE CloudAssumption

\* Initially core knows nothing.
LEMMA CloudInitially == CloudInit => CloudInv
<1> SUFFICES ASSUME CloudInit PROVE CloudInv
  OBVIOUS
<1>1. DOMAIN events = {}
  BY DEF CloudInit
<1>2. CloudTypeOK /\ RowsFiled /\ KnownContiguous /\ LedgerContiguous /\ ProjectionFollowsLedger
  BY <1>1 DEF CloudInit, CloudTypeOK, RowsFiled, KnownContiguous, LedgerContiguous,
     ProjectionFollowsLedger, VersionsAt
<1>3. EvidenceMatchesEffect
  BY <1>1 DEF CloudInit, EvidenceMatchesEffect, acceptSyncOperation
<1>4. ConsumptionMatchesLedger
  <2>1. \A o : {i \in DOMAIN events : events[i].agg = o /\ events[i].to = "completed"
                                      /\ events[i].command # "order.create"} = {}
    BY <1>1
  <2> QED
    BY <2>1, FS_EmptySet DEF CloudInit, ConsumptionMatchesLedger
<1> QED
  BY <1>2, <1>3, <1>4 DEF CloudInv

\* What an appended event does to the sequence of events.
LEMMA AppendedEvent ==
  ASSUME CloudTypeOK, NEW op \in Submissions, events' = Append(events, op)
  PROVE  LET n == Len(events) IN
         /\ n \in Nat /\ DOMAIN events = 1..n /\ DOMAIN events' = 1..(n + 1)
         /\ events' \in Seq(Submissions)
         /\ \A i \in 1..n : events'[i] = events[i] /\ events[i] \in Submissions
         /\ events'[n + 1] = op
BY AppendProperties DEF CloudTypeOK

\* It adds its version to those known of its aggregate, and to no other.
LEMMA AppendedVersion ==
  ASSUME CloudTypeOK, NEW op \in Submissions, events' = Append(events, op)
  PROVE  \A type, agg : VersionsAt(type, agg)' =
           IF type = op.type /\ agg = op.agg THEN VersionsAt(type, agg) \cup {op.ver}
           ELSE VersionsAt(type, agg)
<1> DEFINE n == Len(events)
<1>1. /\ n \in Nat /\ DOMAIN events = 1..n /\ DOMAIN events' = 1..(n + 1)
      /\ \A i \in 1..n : events'[i] = events[i]
      /\ events'[n + 1] = op
  BY AppendedEvent
<1> HIDE DEF n
<1>2. \A i \in 1..(n + 1) : i \in 1..n \/ i = n + 1
  BY <1>1
<1>3. 1..n \subseteq 1..(n + 1) /\ n + 1 \in 1..(n + 1)
  BY <1>1
<1> QED
  BY <1>1, <1>2, <1>3 DEF VersionsAt

\* validateCausalVersion: an accepted version is the first of its aggregate, or
\* the successor of all known ones.
LEMMA AcceptedIsNext ==
  ASSUME CloudInv, NEW op \in Submissions, acceptSyncOperation(op) = "ACCEPTED"
  PROVE  LET known == VersionsAt(op.type, op.agg)
             first == FirstVersion(op.type)
         IN
         /\ op.ver >= first /\ known = first..(op.ver - 1)
         /\ known = {} => \/ op.command = "order.create"
                          \/ /\ op.command = "kitchenTicket.transition"
                             /\ 1 \in VersionsAt("order", op.parent)
         /\ op.type = "order" /\ known # {} => op.command # "order.create"
         /\ inbox[op.id] = None /\ ~syncCommandProblem(op)
<1> DEFINE known == VersionsAt(op.type, op.agg)
           first == FirstVersion(op.type)
           max   == CHOOSE v \in known : \A w \in known : w <= v
<1>1. inbox[op.id] = None /\ ~syncCommandProblem(op) /\ validateCausalVersion(op) = "next"
  <2>1. validateSyncOperation(op) /\ inbox[op.id] = None /\ ~syncCommandProblem(op)
    BY DEF acceptSyncOperation, existingSyncOutcome
  <2>2. validateCausalVersion(op) \in {"next", "missing", "stale"}
    BY DEF validateCausalVersion
  <2> QED
    BY <2>1, <2>2 DEF acceptSyncOperation
<1>2. first \in {1, 2} /\ op.ver \in Nat /\ (op.type = "order" => first = 1)
  BY DEF FirstVersion
<1>3. CASE known = {}
  <2>1. \/ op.command = "order.create" /\ op.ver = 1
        \/ /\ op.command = "kitchenTicket.transition" /\ op.ver = 2
           /\ 1 \in VersionsAt("order", op.parent)
    BY <1>1, <1>3 DEF validateCausalVersion
  <2>2. op.ver = first
    BY <1>1, <2>1 DEF syncCommandProblem, FirstVersion
  <2>3. first..(op.ver - 1) = {}
    BY <1>2, <2>2
  <2> QED
    BY <1>1, <1>2, <1>3, <2>1, <2>2, <2>3
<1>4. CASE known # {}
  <2>1. PICK m \in known : known = first..m
    BY <1>4 DEF CloudInv, KnownContiguous
  <2>2. m \in Nat /\ m >= first
    BY <1>2, <2>1
  <2>3. max = m
    <3>1. m \in known /\ \A w \in known : w <= m
      BY <1>2, <2>1, <2>2
    <3>2. max \in known /\ \A w \in known : w <= max
      BY <3>1
    <3> QED
      BY <1>2, <2>1, <2>2, <3>1, <3>2
  <2>4. op.ver = m + 1
    <3>1. ~(op.ver > m + 1) /\ ~(op.ver < m + 1)
      BY <1>1, <1>4, <2>3 DEF validateCausalVersion
    <3> QED
      BY <1>2, <2>2, <3>1
  <2>5. op.ver > 1
    BY <1>2, <2>2, <2>4
  <2>6. op.command # "order.create"
    BY <2>5
  <2> QED
    BY <1>1, <1>2, <1>4, <2>1, <2>2, <2>4, <2>6
<1> QED
  BY <1>3, <1>4

\* projectOperationalMutation: what an accepted operation does to the order
\* rows.  A creation makes the row of an order that only its edge moves, a
\* whole-order command moves it, and nothing else does.
LEMMA ProjectionStep ==
  ASSUME CloudInv, NEW op \in Submissions, CommitAccepted(op)
  PROVE  /\ cloudStatus' \in [Orders -> OrderStatus \cup TicketStatus \cup {None}]
         /\ cloudVersion' \in [Orders -> Nat] /\ consumptions' \in [Orders -> Nat]
         /\ \A o \in Orders : o # op.agg => /\ cloudStatus'[o] = cloudStatus[o]
                                            /\ cloudVersion'[o] = cloudVersion[o]
                                            /\ consumptions'[o] = consumptions[o]
         /\ op.agg \in Orders \ DirectOrders =>
              /\ cloudVersion'[op.agg] = op.ver
              /\ cloudStatus'[op.agg] = projectedStatus(op.to)
              /\ consumptions'[op.agg] =
                   IF op.to = "completed" /\ op.command # "order.create"
                   THEN consumptions[op.agg] + 1 ELSE consumptions[op.agg]
<1> DEFINE o == op.agg
<1>1. /\ acceptSyncOperation(op) = "ACCEPTED" /\ projectOperationalMutation(op)
      /\ ~syncCommandProblem(op)
  BY AcceptedIsNext DEF CommitAccepted
<1>2. projectedStatus(op.to) \in OrderStatus \cup TicketStatus
  BY DEF projectedStatus, OrderStatus, TicketStatus
<1>3. CASE op.type # "order"
  <2>1. op.command = "kitchenTicket.transition" /\ o \notin Orders
    BY <1>1, <1>3 DEF syncCommandProblem
  <2>2. UNCHANGED <<cloudStatus, cloudVersion, consumptions>>
    BY <1>1, <2>1 DEF projectOperationalMutation
  <2> QED
    BY <2>1, <2>2 DEF CloudInv, CloudTypeOK
<1>4. CASE op.type = "order"
  <2>1. o \in Orders
    BY <1>4
  <2>2. op.command \in {"order.create", "order.transition", "kitchenTicket.transitionAll"}
    BY <1>1, <1>4 DEF syncCommandProblem
  <2>3. CASE op.command = "order.create"
    <3>1. VersionsAt("order", o) = {}
      BY <1>1, <1>4, <2>3, AcceptedIsNext
    <3>2. o \notin DirectOrders => cloudStatus[o] = None
      BY <2>1, <3>1 DEF CloudInv, ProjectionFollowsLedger
    <3>3. projectedStatus(op.to) = "received" /\ op.to # "completed"
      BY <2>3 DEF projectedStatus
    <3> QED
      BY <1>1, <1>2, <2>1, <2>3, <3>2, <3>3
      DEF projectOperationalMutation, CloudInv, CloudTypeOK
  <2>4. CASE op.command # "order.create"
    <3>1. ASSUME o \notin DirectOrders
          PROVE  cloudStatus[o] # None /\ cloudVersion[o] < op.ver
      <4>1. /\ VersionsAt("order", o) # {} /\ VersionsAt("order", o) = 1..(op.ver - 1)
        BY <1>1, <1>4, <2>2, <2>4, AcceptedIsNext DEF FirstVersion
      <4>2. PICK i \in DOMAIN events :
              /\ LastEventOf(o, i) /\ cloudVersion[o] = events[i].ver
              /\ cloudStatus[o] = projectedStatus(events[i].to)
        BY <2>1, <3>1, <4>1 DEF CloudInv, ProjectionFollowsLedger
      <4>3. events[i] \in Submissions
        BY <4>2 DEF CloudInv, CloudTypeOK
      <4>4. projectedStatus(events[i].to) \in OrderStatus \cup TicketStatus
        BY <4>3 DEF projectedStatus, OrderStatus, TicketStatus
      <4>5. events[i].ver \in VersionsAt("order", o)
        BY <4>2 DEF VersionsAt, LastEventOf
      <4> QED
        BY <4>1, <4>2, <4>4, <4>5
    <3>2. CASE cloudStatus[o] # None /\ cloudVersion[o] < op.ver
      <4>1. /\ cloudStatus'  = [cloudStatus EXCEPT ![o] = projectedStatus(op.to)]
            /\ cloudVersion' = [cloudVersion EXCEPT ![o] = op.ver]
            /\ consumptions' = [consumptions EXCEPT ![o] =
                                  IF op.to = "completed" THEN @ + 1 ELSE @]
        BY <1>1, <2>2, <2>4, <3>2 DEF projectOperationalMutation
      <4> QED
        BY <1>2, <2>1, <2>4, <4>1 DEF CloudInv, CloudTypeOK
    <3>3. CASE ~(cloudStatus[o] # None /\ cloudVersion[o] < op.ver)
      <4>1. o \in DirectOrders
        BY <3>1, <3>3
      <4>2. UNCHANGED <<cloudStatus, cloudVersion, consumptions>>
        BY <1>1, <2>4, <3>3 DEF projectOperationalMutation
      <4> QED
        BY <4>1, <4>2 DEF CloudInv, CloudTypeOK
    <3> QED
      BY <3>2, <3>3
  <2> QED
    BY <2>3, <2>4
<1> QED
  BY <1>3, <1>4

\* ApplySyncOperation, accepting: inbox row, event and order row together.
LEMMA AcceptedStep ==
  ASSUME CloudInv, NEW op \in Submissions, CommitAccepted(op)
  PROVE  CloudInv'
<1> DEFINE n == Len(events)
           row == [body |-> op, status |-> "accepted"]
<1>1. /\ acceptSyncOperation(op) = "ACCEPTED" /\ inbox' = [inbox EXCEPT ![op.id] = row]
      /\ events' = Append(events, op) /\ cases' = cases
  BY DEF CommitAccepted
<1>2. /\ n \in Nat /\ DOMAIN events = 1..n /\ DOMAIN events' = 1..(n + 1)
      /\ events' \in Seq(Submissions)
      /\ \A i \in 1..n : events'[i] = events[i] /\ events[i] \in Submissions
      /\ events'[n + 1] = op
  BY <1>1, AppendedEvent DEF CloudInv
<1> HIDE DEF n
<1>3. /\ \A i \in 1..(n + 1) : i \in 1..n \/ i = n + 1
      /\ 1..n \subseteq 1..(n + 1) /\ n + 1 \in 1..(n + 1)
  BY <1>2
<1>4. /\ op.ver >= FirstVersion(op.type)
      /\ VersionsAt(op.type, op.agg) = FirstVersion(op.type)..(op.ver - 1)
      /\ inbox[op.id] = None /\ ~syncCommandProblem(op)
  BY <1>1, AcceptedIsNext
<1>5. /\ op.id \in Ops /\ row \in Row /\ row # None /\ row.body = op /\ row.status = "accepted"
      /\ op.ver \in Nat /\ FirstVersion(op.type) \in {1, 2}
  BY DEF Row, FirstVersion
<1> HIDE DEF row
<1>6. CloudTypeOK'
  BY <1>1, <1>2, <1>5, ProjectionStep DEF CloudInv, CloudTypeOK
<1>7. /\ inbox'[op.id] = row /\ \A id \in Ops \ {op.id} : inbox'[id] = inbox[id]
  BY <1>1, <1>5 DEF CloudInv, CloudTypeOK
<1>14. \A i \in 1..n : events[i].id \in Ops /\ events[i].id # op.id
  <2> SUFFICES ASSUME NEW i \in 1..n PROVE events[i].id \in Ops /\ events[i].id # op.id
    OBVIOUS
  <2>1. [body |-> events[i], status |-> "accepted"] \in Row /\ events[i].id \in Ops
    BY <1>2 DEF Row
  <2>2. inbox[events[i].id] = [body |-> events[i], status |-> "accepted"]
    BY <1>2 DEF CloudInv, RowsFiled
  <2> QED
    BY <1>4, <2>1, <2>2 DEF Row
<1>8. RowsFiled'
  <2>1. \A i \in 1..n : events[i].id \in Ops /\ events[i].id # op.id
    BY <1>14
  <2>2. \A id \in Ops : inbox'[id] # None => inbox'[id].body.id = id
    BY <1>5, <1>7 DEF CloudInv, RowsFiled
  <2>3. ASSUME NEW i \in DOMAIN events'
        PROVE  /\ ~syncCommandProblem(events'[i])
               /\ inbox'[events'[i].id] = [body |-> events'[i], status |-> "accepted"]
    <3>1. CASE i \in 1..n
      BY <1>2, <1>7, <2>1, <3>1 DEF CloudInv, RowsFiled
    <3>2. CASE i = n + 1
      BY <1>2, <1>4, <1>7, <3>2 DEF row
    <3> QED
      BY <1>2, <1>3, <3>1, <3>2
  <2> QED
    BY <2>2, <2>3 DEF RowsFiled, syncCommandProblem
<1>9. KnownContiguous'
  <2> SUFFICES ASSUME NEW x \in Submissions, VersionsAt(x.type, x.agg)' # {}
               PROVE  \E m \in VersionsAt(x.type, x.agg)' :
                        VersionsAt(x.type, x.agg)' = FirstVersion(x.type)..m
    BY DEF KnownContiguous, FirstVersion
  <2>1. CASE x.type = op.type /\ x.agg = op.agg
    <3>1. VersionsAt(x.type, x.agg)' = VersionsAt(op.type, op.agg) \cup {op.ver}
      BY <1>1, <2>1, AppendedVersion DEF CloudInv
    <3>2. VersionsAt(x.type, x.agg)' = FirstVersion(op.type)..op.ver
      BY <1>4, <1>5, <3>1
    <3> QED
      BY <1>4, <1>5, <2>1, <3>1, <3>2
  <2>2. CASE ~(x.type = op.type /\ x.agg = op.agg)
    <3>1. VersionsAt(x.type, x.agg)' = VersionsAt(x.type, x.agg)
      BY <1>1, <2>2, AppendedVersion DEF CloudInv
    <3> QED
      BY <3>1 DEF CloudInv, KnownContiguous
  <2> QED
    BY <2>1, <2>2
<1>10. LedgerContiguous'
  <2> SUFFICES ASSUME NEW i \in DOMAIN events'
               PROVE  /\ events'[i].ver >= FirstVersion(events'[i].type)
                      /\ VersionsBefore(i)' =
                           FirstVersion(events'[i].type)..(events'[i].ver - 1)
                      /\ events'[i].type = "kitchenTicket" /\ events'[i].ver = 2 =>
                           \E j \in 1..(i - 1) :
                             /\ events'[j].type = "order" /\ events'[j].agg = events'[i].parent
                             /\ events'[j].ver = 1
    BY DEF LedgerContiguous, FirstVersion
  <2>1. CASE i \in 1..n
    <3>1. \A j \in 1..(i - 1) : j \in 1..n
      BY <1>2, <2>1
    <3>2. VersionsBefore(i)' = VersionsBefore(i)
      <4> DEFINE K == {k \in 1..(i - 1) : events[k].type = events[i].type
                                         /\ events[k].agg = events[i].agg}
      <4>1. K = {k \in 1..(i - 1) : events'[k].type = events'[i].type
                                    /\ events'[k].agg = events'[i].agg}
        BY <1>2, <2>1, <3>1
      <4>2. \A j \in K : events'[j].ver = events[j].ver
        BY <1>2, <3>1
      <4>3. VersionsBefore(i) = {events[j].ver : j \in K}
        BY DEF VersionsBefore
      <4>4. VersionsBefore(i)' = {events'[j].ver : j \in K}
        BY <4>1 DEF VersionsBefore
      <4> HIDE DEF K
      <4> QED
        BY <4>2, <4>3, <4>4
    <3>3. /\ events[i].ver >= FirstVersion(events[i].type)
          /\ VersionsBefore(i) = FirstVersion(events[i].type)..(events[i].ver - 1)
          /\ events[i].type = "kitchenTicket" /\ events[i].ver = 2 =>
               \E j \in 1..(i - 1) : /\ events[j].type = "order" /\ events[j].ver = 1
                                     /\ events[j].agg = events[i].parent
      BY <1>2, <2>1 DEF CloudInv, LedgerContiguous
    <3> QED
      BY <1>2, <2>1, <3>1, <3>2, <3>3
  <2>2. CASE i = n + 1
    <3>1. i - 1 = n
      BY <1>2, <2>2
    <3>2. VersionsBefore(i)' = VersionsAt(op.type, op.agg)
      <4> DEFINE K == {k \in 1..n : events[k].type = op.type /\ events[k].agg = op.agg}
      <4>1. K = {k \in 1..(i - 1) : events'[k].type = events'[i].type
                                    /\ events'[k].agg = events'[i].agg}
        BY <1>2, <2>2, <3>1
      <4>2. \A j \in K : events'[j].ver = events[j].ver
        BY <1>2
      <4>3. VersionsAt(op.type, op.agg) = {events[j].ver : j \in K}
        BY <1>2 DEF VersionsAt
      <4>4. VersionsBefore(i)' = {events'[j].ver : j \in K}
        BY <4>1 DEF VersionsBefore
      <4> HIDE DEF K
      <4> QED
        BY <4>2, <4>3, <4>4
    <3>3. ASSUME op.type = "kitchenTicket", op.ver = 2
          PROVE  \E j \in 1..n : /\ events[j].type = "order" /\ events[j].agg = op.parent
                                 /\ events[j].ver = 1
      <4>1. VersionsAt(op.type, op.agg) = {}
        BY <1>4, <3>3 DEF FirstVersion
      <4>2. 1 \in VersionsAt("order", op.parent)
        BY <1>1, <1>4, <3>3, <4>1, AcceptedIsNext DEF syncCommandProblem
      <4> QED
        BY <1>2, <4>2 DEF VersionsAt
    <3> QED
      BY <1>2, <1>4, <2>2, <3>1, <3>2, <3>3
  <2> QED
    BY <1>2, <1>3, <2>1, <2>2
<1>11. EvidenceMatchesEffect'
  <2>1. \A i \in 1..n : events[i].id \in Ops /\ events[i].id # op.id
    BY <1>14
  <2>2. \A i, j \in DOMAIN events' : events'[i].id = events'[j].id => i = j
    BY <1>2, <1>3, <2>1 DEF CloudInv, EvidenceMatchesEffect
  <2> DEFINE A == {k \in Ops : inbox[k] # None /\ inbox[k].status = "accepted"}
             B == {k \in Ops : inbox'[k] # None /\ inbox'[k].status = "accepted"}
  <2>3. B = A \cup {op.id} /\ op.id \notin A
    BY <1>4, <1>5, <1>7
  <2>4. {events'[i] : i \in DOMAIN events'} = {events[i] : i \in DOMAIN events} \cup {op}
    BY <1>2, <1>3
  <2>5. {inbox'[k].body : k \in B} = {inbox[k].body : k \in A} \cup {op}
    <3>1. \A k \in A : inbox'[k].body = inbox[k].body
      BY <1>7, <2>3
    <3> HIDE DEF A, B
    <3> QED
      BY <1>5, <1>7, <2>3, <3>1
  <2>6. {events'[i] : i \in DOMAIN events'} = {inbox'[k].body : k \in B}
    BY <2>4, <2>5 DEF CloudInv, EvidenceMatchesEffect
  <2>7. cases' = {k \in Ops : inbox'[k] # None /\ inbox'[k].status # "accepted"}
    <3>1. cases = {k \in Ops : inbox[k] # None /\ inbox[k].status # "accepted"}
      BY DEF CloudInv, EvidenceMatchesEffect
    <3> QED
      BY <1>1, <1>4, <1>5, <1>7, <3>1
  <2>8. ASSUME NEW x \in Submissions, acceptSyncOperation(x)' = "DUPLICATE"
        PROVE  x \in {events'[i] : i \in DOMAIN events'}
    <3>1. x.id \in B /\ inbox'[x.id].body = x
      BY <2>8 DEF acceptSyncOperation, existingSyncOutcome
    <3> HIDE DEF B
    <3> QED
      BY <2>6, <3>1
  <2> QED
    BY <2>2, <2>6, <2>7, <2>8 DEF EvidenceMatchesEffect
<1>12. ProjectionFollowsLedger'
  <2> SUFFICES ASSUME NEW o \in Orders \ DirectOrders
               PROVE  IF VersionsAt("order", o)' = {} THEN cloudStatus'[o] = None
                      ELSE \E i \in DOMAIN events' :
                             /\ LastEventOf(o, i)' /\ cloudVersion'[o] = events'[i].ver
                             /\ cloudStatus'[o] = projectedStatus(events'[i].to)
    BY DEF ProjectionFollowsLedger, projectedStatus
  <2>1. CASE o = op.agg
    <3>1. op.type = "order"
      BY <2>1
    <3>2. VersionsAt("order", o)' # {}
      BY <1>1, <2>1, <3>1, AppendedVersion DEF CloudInv
    <3>5. PICK k \in DOMAIN events' : k = n + 1
      BY <1>2, <1>3
    <3>3. LastEventOf(o, k)'
      BY <1>2, <2>1, <3>1, <3>5 DEF LastEventOf
    <3>4. cloudVersion'[o] = op.ver /\ cloudStatus'[o] = projectedStatus(op.to)
      BY <2>1, ProjectionStep
    <3> QED
      BY <1>2, <3>2, <3>3, <3>4, <3>5
  <2>2. CASE o # op.agg
    <3>1. /\ cloudStatus'[o] = cloudStatus[o] /\ cloudVersion'[o] = cloudVersion[o]
          /\ VersionsAt("order", o)' = VersionsAt("order", o)
      BY <1>1, <2>2, ProjectionStep, AppendedVersion DEF CloudInv
    <3>2. CASE VersionsAt("order", o) = {}
      BY <3>1, <3>2 DEF CloudInv, ProjectionFollowsLedger
    <3>3. CASE VersionsAt("order", o) # {}
      <4>1. PICK i \in 1..n : /\ LastEventOf(o, i) /\ cloudVersion[o] = events[i].ver
                              /\ cloudStatus[o] = projectedStatus(events[i].to)
        BY <1>2, <3>3 DEF CloudInv, ProjectionFollowsLedger
      <4>2. LastEventOf(o, i)'
        BY <1>2, <1>3, <2>2, <4>1 DEF LastEventOf
      <4> QED
        BY <1>2, <1>3, <3>1, <3>3, <4>1, <4>2
    <3> QED
      BY <3>2, <3>3
  <2> QED
    BY <2>1, <2>2
<1>13. ConsumptionMatchesLedger'
  <2> SUFFICES ASSUME NEW o \in Orders \ DirectOrders
               PROVE  consumptions'[o] = Cardinality({i \in DOMAIN events' :
                        events'[i].agg = o /\ events'[i].to = "completed"
                        /\ events'[i].command # "order.create"})
    BY DEF ConsumptionMatchesLedger
  <2> DEFINE C == {i \in DOMAIN events : events[i].agg = o /\ events[i].to = "completed"
                                         /\ events[i].command # "order.create"}
             D == {i \in DOMAIN events' : events'[i].agg = o /\ events'[i].to = "completed"
                                          /\ events'[i].command # "order.create"}
             completes == op.agg = o /\ op.to = "completed" /\ op.command # "order.create"
  <2>1. consumptions[o] = Cardinality(C)
    BY DEF CloudInv, ConsumptionMatchesLedger
  <2>2. IsFiniteSet(C) /\ n + 1 \notin C
    <3>1. C \subseteq 1..n /\ IsFiniteSet(1..n)
      BY <1>2, FS_Interval
    <3> QED
      BY <1>2, <3>1, FS_Subset
  <2>3. D = IF completes THEN C \cup {n + 1} ELSE C
    BY <1>2, <1>3
  <2>4. consumptions'[o] = IF completes THEN consumptions[o] + 1 ELSE consumptions[o]
    BY ProjectionStep
  <2> HIDE DEF C, D, completes
  <2>5. Cardinality(C \cup {n + 1}) = Cardinality(C) + 1
    BY <2>2, FS_AddElement
  <2>6. consumptions'[o] = Cardinality(D)
    BY <2>1, <2>3, <2>4, <2>5
  <2> QED
    BY <2>6 DEF D
<1> QED
  BY <1>6, <1>8, <1>9, <1>10, <1>11, <1>12, <1>13 DEF CloudInv

\* The facts about the ledger are kept while the ledger is.
LEMMA LedgerFrame ==
  ASSUME UNCHANGED events
  PROVE  /\ KnownContiguous => KnownContiguous'
         /\ LedgerContiguous => LedgerContiguous'
<1>1. \A type, agg : VersionsAt(type, agg)' = VersionsAt(type, agg)
  BY DEF VersionsAt
<1>2. \A i : VersionsBefore(i)' = VersionsBefore(i)
  BY DEF VersionsBefore
<1>3. KnownContiguous => KnownContiguous'
  BY <1>1 DEF KnownContiguous, FirstVersion
<1>4. LedgerContiguous => LedgerContiguous'
  BY <1>2 DEF LedgerContiguous, FirstVersion
<1> QED
  BY <1>3, <1>4

\* So are the facts about the order rows that only edges move, while they are.
LEMMA OrderRowsFrame ==
  ASSUME UNCHANGED events,
         \A p \in Orders \ DirectOrders : /\ cloudStatus'[p] = cloudStatus[p]
                                          /\ cloudVersion'[p] = cloudVersion[p]
                                          /\ consumptions'[p] = consumptions[p]
  PROVE  /\ ProjectionFollowsLedger => ProjectionFollowsLedger'
         /\ ConsumptionMatchesLedger => ConsumptionMatchesLedger'
<1>1. \A type, agg : VersionsAt(type, agg)' = VersionsAt(type, agg)
  BY DEF VersionsAt
<1>2. \A o, i : LastEventOf(o, i)' <=> LastEventOf(o, i)
  BY DEF LastEventOf
<1>3. ProjectionFollowsLedger => ProjectionFollowsLedger'
  <2> SUFFICES ASSUME ProjectionFollowsLedger, NEW o \in Orders \ DirectOrders
               PROVE  IF VersionsAt("order", o)' = {} THEN cloudStatus'[o] = None
                      ELSE \E i \in DOMAIN events' :
                             /\ LastEventOf(o, i)' /\ cloudVersion'[o] = events'[i].ver
                             /\ cloudStatus'[o] = projectedStatus(events'[i].to)
    BY DEF ProjectionFollowsLedger, projectedStatus
  <2> QED
    BY <1>1, <1>2 DEF ProjectionFollowsLedger
<1>4. ConsumptionMatchesLedger => ConsumptionMatchesLedger'
  <2> SUFFICES ASSUME ConsumptionMatchesLedger, NEW o \in Orders \ DirectOrders
               PROVE  consumptions'[o] = Cardinality({i \in DOMAIN events' :
                        events'[i].agg = o /\ events'[i].to = "completed"
                        /\ events'[i].command # "order.create"})
    BY DEF ConsumptionMatchesLedger
  <2>1. consumptions'[o] = consumptions[o] /\ events' = events
    OBVIOUS
  <2> QED
    BY <2>1 DEF ConsumptionMatchesLedger
<1> QED
  BY <1>3, <1>4

\* And the facts about the evidence, while inbox, ledger and cases are.
LEMMA EvidenceFrame ==
  ASSUME UNCHANGED <<inbox, events, cases>>
  PROVE  /\ RowsFiled => RowsFiled'
         /\ EvidenceMatchesEffect => EvidenceMatchesEffect'
<1>1. RowsFiled => RowsFiled'
  BY DEF RowsFiled, syncCommandProblem
<1>2. \A op : acceptSyncOperation(op)' = acceptSyncOperation(op)
  BY DEF acceptSyncOperation, existingSyncOutcome, validateSyncOperation, syncCommandProblem,
     validateCausalVersion, VersionsAt
<1>3. EvidenceMatchesEffect => EvidenceMatchesEffect'
  BY <1>2 DEF EvidenceMatchesEffect
<1> QED
  BY <1>1, <1>3

\* ApplySyncOperation, refusing: evidence and a reconciliation case, no effect.
LEMMA ProblemStep ==
  ASSUME CloudInv, NEW op \in Submissions, CommitProblem(op)
  PROVE  CloudInv'
<1> DEFINE row == [body |-> op,
                   status |-> IF syncCommandProblem(op) THEN "rejected" ELSE "conflict"]
<1>1. /\ inbox[op.id] = None /\ inbox' = [inbox EXCEPT ![op.id] = row]
      /\ cases' = cases \cup {op.id}
      /\ UNCHANGED <<events, cloudStatus, cloudVersion, consumptions>>
  BY DEF CommitProblem, recordSyncProblem
<1>2. /\ op.id \in Ops /\ row \in Row /\ row # None /\ row.body = op /\ row.status # "accepted"
  BY DEF Row
<1> HIDE DEF row
<1>3. CloudTypeOK'
  BY <1>1, <1>2 DEF CloudInv, CloudTypeOK
<1>4. /\ inbox'[op.id] = row /\ \A id \in Ops \ {op.id} : inbox'[id] = inbox[id]
  BY <1>1, <1>2 DEF CloudInv, CloudTypeOK
<1>5. RowsFiled'
  <2>1. ASSUME NEW i \in DOMAIN events
        PROVE  inbox'[events[i].id] = [body |-> events[i], status |-> "accepted"]
    <3>1. events[i] \in Submissions /\ events[i].id \in Ops
      BY DEF CloudInv, CloudTypeOK
    <3>2. inbox[events[i].id] = [body |-> events[i], status |-> "accepted"]
      BY DEF CloudInv, RowsFiled
    <3>3. [body |-> events[i], status |-> "accepted"] # None
      BY <3>1
    <3> QED
      BY <1>1, <1>4, <3>1, <3>2, <3>3
  <2>2. \A id \in Ops : inbox'[id] # None => inbox'[id].body.id = id
    BY <1>2, <1>4 DEF CloudInv, RowsFiled
  <2> QED
    BY <1>1, <2>1, <2>2 DEF CloudInv, RowsFiled, syncCommandProblem
<1>6. EvidenceMatchesEffect'
  <2> DEFINE A == {k \in Ops : inbox[k] # None /\ inbox[k].status = "accepted"}
             B == {k \in Ops : inbox'[k] # None /\ inbox'[k].status = "accepted"}
  <2>1. B = A /\ op.id \notin A
    BY <1>1, <1>2, <1>4
  <2>2. \A k \in A : inbox'[k].body = inbox[k].body
    BY <1>4, <2>1
  <2>3. {events[i] : i \in DOMAIN events} = {inbox[k].body : k \in A}
    BY DEF CloudInv, EvidenceMatchesEffect
  <2>4. {events'[i] : i \in DOMAIN events'} = {inbox'[k].body : k \in B}
    <3> HIDE DEF A, B
    <3> QED
      BY <1>1, <2>1, <2>2, <2>3
  <2>5. cases' = {k \in Ops : inbox'[k] # None /\ inbox'[k].status # "accepted"}
    <3>1. cases = {k \in Ops : inbox[k] # None /\ inbox[k].status # "accepted"}
      BY DEF CloudInv, EvidenceMatchesEffect
    <3> QED
      BY <1>1, <1>2, <1>4, <3>1
  <2>6. ASSUME NEW x \in Submissions, acceptSyncOperation(x)' = "DUPLICATE"
        PROVE  x \in {events'[i] : i \in DOMAIN events'}
    <3>1. x.id \in B /\ inbox'[x.id].body = x
      BY <2>6 DEF acceptSyncOperation, existingSyncOutcome
    <3> HIDE DEF B
    <3> QED
      BY <2>4, <3>1
  <2>7. \A i, j \in DOMAIN events' : events'[i].id = events'[j].id => i = j
    BY <1>1 DEF CloudInv, EvidenceMatchesEffect
  <2> QED
    BY <2>4, <2>5, <2>6, <2>7 DEF EvidenceMatchesEffect
<1>7. /\ KnownContiguous' /\ LedgerContiguous' /\ ProjectionFollowsLedger'
      /\ ConsumptionMatchesLedger'
  BY <1>1, LedgerFrame, OrderRowsFrame DEF CloudInv
<1> QED
  BY <1>3, <1>5, <1>6, <1>7 DEF CloudInv

\* An operation id that is settled stays settled, and is answered as before.
LEMMA SettledStays ==
  ASSUME CloudInv, [CloudNext]_cloudVars, NEW op \in Submissions, inbox[op.id] # None
  PROVE  inbox'[op.id] = inbox[op.id] /\ acceptSyncOperation(op)' = acceptSyncOperation(op)
<1>1. op.id \in Ops
  OBVIOUS
<1>2. inbox'[op.id] = inbox[op.id]
  BY <1>1 DEF CloudNext, cloudVars, ApplySyncOperation, CommitProblem, CommitAccepted, NoCommit,
     CoreTransitionOrder, CloudInv, CloudTypeOK, acceptSyncOperation, existingSyncOutcome
<1> QED
  BY <1>2 DEF acceptSyncOperation, existingSyncOutcome, validateSyncOperation

\* handleOrderTransition at core moves
\* the row of an order that it may move.
LEMMA DirectStep ==
  ASSUME CloudInv, NEW o \in DirectOrders, NEW to \in OrderStatus, CoreTransitionOrder(o, to)
  PROVE  CloudInv'
<1>1. /\ cloudStatus'  = [cloudStatus EXCEPT ![o] = to]
      /\ cloudVersion' = [cloudVersion EXCEPT ![o] = @ + 1]
      /\ consumptions' = [consumptions EXCEPT ![o] = IF to = "completed" THEN @ + 1 ELSE @]
      /\ UNCHANGED <<inbox, events, cases>>
  BY DEF CoreTransitionOrder
<1>2. CloudTypeOK'
  BY <1>1 DEF CloudInv, CloudTypeOK
<1>3. \A p \in Orders \ DirectOrders : /\ cloudStatus'[p] = cloudStatus[p]
                                       /\ cloudVersion'[p] = cloudVersion[p]
                                       /\ consumptions'[p] = consumptions[p]
  BY <1>1 DEF CloudInv, CloudTypeOK
<1>4. RowsFiled' /\ KnownContiguous' /\ LedgerContiguous'
  BY <1>1, LedgerFrame, EvidenceFrame DEF CloudInv
<1>5. ProjectionFollowsLedger' /\ ConsumptionMatchesLedger'
  BY <1>1, <1>3, OrderRowsFrame DEF CloudInv
<1>6. EvidenceMatchesEffect'
  BY <1>1, EvidenceFrame DEF CloudInv
<1> QED
  BY <1>2, <1>4, <1>5, <1>6 DEF CloudInv

\* The invariant is about the stored rows alone.
LEMMA CloudStutter ==
  ASSUME CloudInv, UNCHANGED <<inbox, events, cloudStatus, cloudVersion, consumptions, cases>>
  PROVE  CloudInv'
<1>1. CloudTypeOK'
  BY DEF CloudInv, CloudTypeOK
<1> QED
  BY <1>1, LedgerFrame, OrderRowsFrame, EvidenceFrame DEF CloudInv

\* Every step of core preserves the invariant.
LEMMA CloudStep == CloudInv /\ [CloudNext]_cloudVars => CloudInv'
<1> SUFFICES ASSUME CloudInv, [CloudNext]_cloudVars PROVE CloudInv'
  OBVIOUS
<1>1. ASSUME NEW op \in Submissions, ApplySyncOperation(op) PROVE CloudInv'
  <2>1. CASE NoCommit(op)
    BY <2>1, CloudStutter DEF NoCommit
  <2> QED
    BY <1>1, <2>1, AcceptedStep, ProblemStep DEF ApplySyncOperation
<1>2. ASSUME NEW o \in DirectOrders, NEW to \in OrderStatus, CoreTransitionOrder(o, to)
      PROVE  CloudInv'
  BY <1>2, DirectStep
<1>3. CASE UNCHANGED cloudVars
  BY <1>3, CloudStutter DEF cloudVars
<1> QED
  BY <1>1, <1>2, <1>3 DEF CloudNext

\* The inductive invariant holds throughout.
THEOREM CloudInvariant == CloudSpec => []CloudInv
BY CloudInitially, CloudStep, PTL DEF CloudSpec

\* validateCausalVersion keeps every aggregate's ledger gapless and in order,
\* whatever edges send.
THEOREM LedgerIsContiguous == CloudSpec => []LedgerContiguous
<1>1. CloudInv => LedgerContiguous
  BY DEF CloudInv
<1> QED
  BY <1>1, CloudInvariant, PTL

\* The inbox tells exactly what took effect and what awaits reconciliation.
THEOREM EvidenceAlwaysMatches == CloudSpec => []EvidenceMatchesEffect
<1>1. CloudInv => EvidenceMatchesEffect
  BY DEF CloudInv
<1> QED
  BY <1>1, CloudInvariant, PTL

\* projectOperationalMutation keeps an edge's order row at its last event.
THEOREM ProjectionAlwaysFollows == CloudSpec => []ProjectionFollowsLedger
<1>1. CloudInv => ProjectionFollowsLedger
  BY DEF CloudInv
<1> QED
  BY <1>1, CloudInvariant, PTL

\* Recipe consumption is posted once for each completing event of such an order.
THEOREM ConsumptionAlwaysMatches == CloudSpec => []ConsumptionMatchesLedger
<1>1. CloudInv => ConsumptionMatchesLedger
  BY DEF CloudInv
<1> QED
  BY <1>1, CloudInvariant, PTL

\* The step that settles an operation and every step after it fix its answer.
THEOREM AnswersAreStable == CloudSpec => AnswersStable
<1> DEFINE Settles(op) ==
      LET before == acceptSyncOperation(op)
          after  == acceptSyncOperation(op)'
      IN
      /\ inbox[op.id] # None => after = before
      /\ inbox[op.id] = None /\ inbox'[op.id] # None /\ inbox'[op.id].body = op =>
           <<before, after>> \in { <<"ACCEPTED", "DUPLICATE">>, <<"REJECTED", "REJECTED">>,
                                  <<"CONFLICT", "CONFLICT">> }
<1>1. ASSUME CloudInv, [CloudNext]_cloudVars, NEW op \in Submissions
      PROVE  Settles(op)
  <2>1. ASSUME inbox[op.id] # None
        PROVE  acceptSyncOperation(op)' = acceptSyncOperation(op)
    BY <1>1, <2>1, SettledStays
  <2>2. ASSUME inbox[op.id] = None, inbox'[op.id] # None, inbox'[op.id].body = op
        PROVE  <<acceptSyncOperation(op), acceptSyncOperation(op)'>> \in
                 { <<"ACCEPTED", "DUPLICATE">>, <<"REJECTED", "REJECTED">>,
                   <<"CONFLICT", "CONFLICT">> }
    <3>1. PICK x \in Submissions : CommitProblem(x) \/ CommitAccepted(x)
      BY <1>1, <2>2 DEF CloudNext, ApplySyncOperation, NoCommit, CoreTransitionOrder, cloudVars
    <3>2. \E status : inbox' = [inbox EXCEPT ![x.id] = [body |-> x, status |-> status]]
      BY <3>1 DEF CommitProblem, CommitAccepted
    <3>3. x = op
      BY <1>1, <2>2, <3>2 DEF CloudInv, CloudTypeOK
    <3>4. CASE CommitAccepted(op)
      <4>1. /\ acceptSyncOperation(op) = "ACCEPTED"
            /\ inbox'[op.id].body = op /\ inbox'[op.id].status = "accepted"
        BY <1>1, <3>4 DEF CommitAccepted, CloudInv, CloudTypeOK
      <4>2. validateSyncOperation(op)
        BY <4>1 DEF acceptSyncOperation
      <4>3. acceptSyncOperation(op)' = "DUPLICATE"
        BY <2>2, <4>1, <4>2 DEF acceptSyncOperation, existingSyncOutcome, validateSyncOperation
      <4> QED
        BY <4>1, <4>3
    <3>5. CASE CommitProblem(op)
      <4>1. /\ validateSyncOperation(op) /\ acceptSyncOperation(op) \in {"REJECTED", "CONFLICT"}
            /\ inbox'[op.id].body = op
            /\ inbox'[op.id].status = IF syncCommandProblem(op) THEN "rejected" ELSE "conflict"
        BY <1>1, <3>5 DEF CommitProblem, CloudInv, CloudTypeOK
      <4>2. acceptSyncOperation(op) = IF syncCommandProblem(op) THEN "REJECTED" ELSE "CONFLICT"
        BY <2>2, <4>1 DEF acceptSyncOperation
      <4>3. acceptSyncOperation(op)' = IF syncCommandProblem(op) THEN "REJECTED" ELSE "CONFLICT"
        BY <2>2, <4>1 DEF acceptSyncOperation, existingSyncOutcome, validateSyncOperation
      <4> QED
        BY <4>2, <4>3
    <3> QED
      BY <3>1, <3>3, <3>4, <3>5
  <2> QED
    BY <2>1, <2>2
<1>2. CloudInv /\ [CloudNext]_cloudVars => [\A op \in Submissions : Settles(op)]_cloudVars
  BY <1>1
<1> QED
  BY <1>2, CloudInvariant, PTL DEF CloudSpec, AnswersStable
=============================================================================
