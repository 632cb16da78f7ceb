-------------------------- MODULE BackOfficeProofs --------------------------
(***************************************************************************)
(* Proofs about the back office, each about one component by itself:       *)
(* reconciliation cases (CaseInv: the actions of a case are numbered by    *)
(* the versions they were decided on), tables and dining sessions          *)
(* (SeatInv), connector decisions (DecideInv: whoever decides after a      *)
(* final decision was overruled by a later reading of the clock), guest    *)
(* quotes (QuoteInv: published versions stay as they are), recipe          *)
(* versions (TileInv), cash shifts and receipts (TillInv: what each step   *)
(* books on drawers, bills and refunds), guest histories (GuestInv), and   *)
(* stock transfers and purchase orders (PantryInv: a document and its      *)
(* ledger entries agree whatever else is booked in between).               *)
(***************************************************************************)
EXTENDS CashDesk, DailyOps, Guests, Operations, Ordering, FiniteSetTheorems, FunctionTheorems, TLAPS

-----------------------------------------------------------------------------
(* Reconciliation cases *)

CaseRow == [status : Active \cup Closed, assignee : Assignees \cup {None},
            resolution : Resolutions \cup {None}, resolvedAt : Nat \cup {None},
            version : Nat \ {0}]

ActsOf(c) == {a \in caseActions : a.case = c}
ActsAt(c, v) == {a \in caseActions : a.case = c /\ a.expected = v}

\* The actions of a case are numbered by the versions they were decided on.
ActsNumbered(c) ==
  /\ IsFiniteSet(ActsOf(c)) /\ Cardinality(ActsOf(c)) = cases[c].version - 1
  /\ \A a \in ActsOf(c) : a.expected \in 1..(cases[c].version - 1)
  /\ \A v \in 1..(cases[c].version - 1) : \E a : ActsAt(c, v) = {a}

\* Each action continues the one before it, and the row continues the last one.
ActsChained(c) ==
  /\ \A a \in ActsOf(c) : a.expected = 1 => a.previous = "open"
  /\ \A a, b \in ActsOf(c) : b.expected = a.expected - 1 => a.previous = b.resulting
  /\ cases[c].version = 1 => cases[c].status = "open"
  /\ \A a \in ActsOf(c) : a.expected = cases[c].version - 1 => cases[c].status = a.resulting

\* A closed case carries what its last action closed it with.
ClosingKept(c) ==
  /\ cases[c].status \in Closed <=> cases[c].resolvedAt # None
  /\ cases[c].status \in Closed => \E a \in ActsOf(c) :
       /\ a.expected = cases[c].version - 1
       /\ a.op = cases[c].resolvedAt /\ a.notes = cases[c].resolution

CaseInv ==
  /\ audits \in Nat /\ cases \in [CaseIds -> CaseRow]
  /\ \A c \in CaseIds : ActsNumbered(c) /\ ActsChained(c) /\ ClosingKept(c)

\* Steps that leave the case tables alone.
LEMMA CaseFrame ==
  ASSUME CaseInv, UNCHANGED <<cases, caseActions>>, audits' \in Nat
  PROVE  CaseInv'
<1>1. ASSUME NEW c \in CaseIds PROVE ActsNumbered(c)' /\ ActsChained(c)' /\ ClosingKept(c)'
  <2>1. ActsOf(c)' = ActsOf(c) /\ cases'[c] = cases[c] /\ \A v : ActsAt(c, v)' = ActsAt(c, v)
    BY DEF ActsOf, ActsAt
  <2>2. ActsNumbered(c) /\ ActsChained(c) /\ ClosingKept(c)
    BY DEF CaseInv
  <2>3. ActsNumbered(c)'
    BY <2>1, <2>2 DEF ActsNumbered
  <2>4. ActsChained(c)'
    BY <2>1, <2>2 DEF ActsChained
  <2>5. ClosingKept(c)'
    BY <2>1, <2>2 DEF ClosingKept
  <2> QED
    BY <2>3, <2>4, <2>5
<1> QED
  BY <1>1 DEF CaseInv

\* What an operator's action does.
LEMMA CaseActs ==
  ASSUME CaseInv, NEW c \in CaseIds, NEW action \in DOMAIN CaseStep, NEW notes \in Resolutions,
         NEW assignee \in Assignees, NEW v \in 1..MaxOps,
         handleCaseAction(c, action, notes, assignee, v), None \notin Nat
  PROVE  CaseInv'
<1>1. PICK act : act = [op |-> audits, case |-> c, action |-> action, notes |-> notes,
                        previous |-> cases[c].status, resulting |-> cases'[c].status,
                        expected |-> v]
  OBVIOUS
<1>2. /\ cases[c].version = v /\ cases[c].status \in CaseStep[action].from
      /\ cases' = [cases EXCEPT ![c] = CaseAfter(cases[c], action, notes, assignee)]
      /\ caseActions' = caseActions \cup {act} /\ audits' = audits + 1
  BY <1>1 DEF handleCaseAction, ActOnReconciliationCase, Audited
<1>3. /\ act.case = c /\ act.expected = v /\ act.previous = cases[c].status
      /\ act.resulting = cases'[c].status /\ act.op = audits /\ act.notes = notes
  BY <1>1
<1>4. /\ cases[c] \in CaseRow /\ audits \in Nat /\ v \in Nat \ {0}
  BY <1>2 DEF CaseInv, CaseRow
<1>5. CaseStep[action].to \in Active \cup Closed
  BY DEF CaseStep, Active, Closed
<1>6. /\ cases'[c] \in CaseRow /\ cases'[c].version = v + 1
      /\ cases'[c].status \in Closed =>
           cases'[c].resolvedAt = audits /\ cases'[c].resolution = notes
      /\ cases'[c].status \notin Closed => cases'[c].resolvedAt = None
  <2>1. cases'[c] = CaseAfter(cases[c], action, notes, assignee)
    BY <1>2 DEF CaseInv
  <2>2. /\ cases'[c].status = CaseStep[action].to /\ cases'[c].version = v + 1
        /\ cases'[c].resolvedAt = IF CaseStep[action].to \in Closed THEN audits
                                  ELSE IF action = "assign" THEN cases[c].resolvedAt ELSE None
        /\ CaseStep[action].to \in Closed => cases'[c].resolution = notes
    BY <1>2, <2>1 DEF CaseAfter
  <2>3. action = "assign" => cases[c].resolvedAt = None
    BY <1>2, <1>4 DEF CaseInv, ClosingKept, CaseStep, Active, Closed, CaseRow
  <2>4. cases'[c] \in CaseRow
    BY <1>4, <1>5, <2>1, <1>2 DEF CaseAfter, CaseRow
  <2> QED
    BY <2>2, <2>3, <2>4
<1>7. cases' \in [CaseIds -> CaseRow]
  BY <1>2, <1>6 DEF CaseInv
<1>8. /\ ActsOf(c)' = ActsOf(c) \cup {act} /\ act \notin ActsOf(c)
      /\ ActsAt(c, v)' = {act}
      /\ \A w \in 1..(v - 1) : ActsAt(c, w)' = ActsAt(c, w)
  <2>1. \A a \in ActsOf(c) : a.expected \in 1..(v - 1)
    BY <1>2 DEF CaseInv, ActsNumbered
  <2> QED
    BY <1>2, <1>3, <1>4, <2>1 DEF ActsOf, ActsAt
<1>9. ASSUME NEW d \in CaseIds, d # c
      PROVE  ActsNumbered(d)' /\ ActsChained(d)' /\ ClosingKept(d)'
  <2>1. ActsOf(d)' = ActsOf(d) /\ cases'[d] = cases[d] /\ \A w : ActsAt(d, w)' = ActsAt(d, w)
    BY <1>2, <1>3, <1>9 DEF ActsOf, ActsAt, CaseInv
  <2>2. ActsNumbered(d) /\ ActsChained(d) /\ ClosingKept(d)
    BY DEF CaseInv
  <2>3. ActsNumbered(d)'
    BY <2>1, <2>2 DEF ActsNumbered
  <2>4. ActsChained(d)'
    BY <2>1, <2>2 DEF ActsChained
  <2>5. ClosingKept(d)'
    BY <2>1, <2>2 DEF ClosingKept
  <2> QED
    BY <2>3, <2>4, <2>5
<1>10. ActsNumbered(c)'
  <2>1. IsFiniteSet(ActsOf(c)') /\ Cardinality(ActsOf(c)') = v
    BY <1>2, <1>4, <1>8, FS_AddElement DEF CaseInv, ActsNumbered
  <2>2. \A a \in ActsOf(c)' : a.expected \in 1..v
    BY <1>2, <1>3, <1>4, <1>8 DEF CaseInv, ActsNumbered
  <2>3. \A w \in 1..(v - 1) : \E a : ActsAt(c, w) = {a}
    BY <1>2 DEF CaseInv, ActsNumbered
  <2>4. ASSUME NEW w \in 1..v PROVE \E a : ActsAt(c, w)' = {a}
    <3>1. w = v \/ w \in 1..(v - 1)
      BY <1>4
    <3> QED
      BY <1>8, <2>3, <3>1
  <2>5. cases'[c].version - 1 = v
    BY <1>4, <1>6
  <2> QED
    BY <2>1, <2>2, <2>4, <2>5 DEF ActsNumbered
<1>11. ActsChained(c)'
  <2>1. ActsNumbered(c) /\ ActsChained(c)
    BY DEF CaseInv
  <2>2. \A a \in ActsOf(c)' : a = act \/ (a \in ActsOf(c) /\ a.expected \in 1..(v - 1))
    BY <1>2, <1>8, <2>1 DEF ActsNumbered
  <2>3. \A a \in ActsOf(c)' : a.expected = 1 => a.previous = "open"
    BY <1>2, <1>3, <2>1, <2>2 DEF ActsChained
  <2>4. \A a, b \in ActsOf(c)' : b.expected = a.expected - 1 => a.previous = b.resulting
    BY <1>2, <1>3, <1>4, <2>1, <2>2 DEF ActsChained
  <2>5. \A a \in ActsOf(c)' : a.expected = v => cases'[c].status = a.resulting
    BY <1>3, <1>4, <2>2
  <2> QED
    BY <1>4, <1>6, <2>3, <2>4, <2>5 DEF ActsChained
<1>12. ClosingKept(c)'
  BY <1>3, <1>4, <1>6, <1>8 DEF ClosingKept
<1> QED
  BY <1>2, <1>4, <1>7, <1>9, <1>10, <1>11, <1>12 DEF CaseInv

\* The other operations do not touch cases.
LEMMA ControlKeepsCases ==
  ASSUME CaseInv, ControlNext
  PROVE  CaseInv'
<1>1. cases' = cases /\ caseActions' = caseActions /\ audits' = audits + 1
  BY DEF ControlNext, handlePublishSnapshot, PublishSnapshot, handleCreateIncident, CreateIncident,
     handleIncidentAction, TransitionIncident, handleRecordBackup, RecordBackupManifest,
     handleRecordDrill, RecordRestoreDrill, Audited
<1> QED
  BY <1>1, CaseFrame DEF CaseInv

\* A case reads as its actions tell it, however many operators act on the same version.
THEOREM CasesAlwaysReplay == OperationsSpec => []CasesReplay
<1>1. OperationsInit /\ audits = 0 => CaseInv
  <2>1. OperationsInit => \A c \in CaseIds : ActsOf(c) = {}
    BY DEF OperationsInit, ActsOf
  <2> SUFFICES ASSUME OperationsInit, audits = 0 PROVE CaseInv
    OBVIOUS
  <2>2. cases \in [CaseIds -> CaseRow]
    BY DEF OperationsInit, CaseRow, Active
  <2>3. ASSUME NEW c \in CaseIds PROVE ActsNumbered(c) /\ ActsChained(c) /\ ClosingKept(c)
    <3>1. /\ cases[c].version = 1 /\ cases[c].status = "open" /\ cases[c].resolvedAt = None
          /\ ActsOf(c) = {}
      BY <2>1 DEF OperationsInit
    <3> QED
      BY <3>1, FS_EmptySet DEF ActsNumbered, ActsChained, ClosingKept, Closed
  <2> QED
    BY <2>2, <2>3 DEF CaseInv
<1>2. CaseInv /\ [CaseNext \/ ControlNext]_<<audits, opsVars>> => CaseInv'
  <2> SUFFICES ASSUME CaseInv, [CaseNext \/ ControlNext]_<<audits, opsVars>> PROVE CaseInv'
    OBVIOUS
  <2>1. CASE CaseNext
    BY <2>1, CaseActs, NoneNumber DEF CaseNext
  <2>2. CASE ControlNext
    BY <2>2, ControlKeepsCases
  <2>3. CASE UNCHANGED <<audits, opsVars>>
    BY <2>3, CaseFrame DEF opsVars, CaseInv
  <2> QED
    BY <2>1, <2>2, <2>3
<1>3. CaseInv => CasesReplay
  <2> SUFFICES ASSUME CaseInv, NEW c \in CaseIds
               PROVE  LET acts == ActsOf(c)
                          at(v) == {a \in acts : a.expected = v}
                          row == cases[c]
                      IN
                      /\ Cardinality(acts) = row.version - 1
                      /\ \A v \in 1..(row.version - 1) : Cardinality(at(v)) = 1
                      /\ \A a \in acts : a.previous = IF a.expected = 1 THEN "open"
                                    ELSE (CHOOSE b \in at(a.expected - 1) : TRUE).resulting
                      /\ \A a \in at(row.version - 1) : row.status = a.resulting
                      /\ row.status \in Closed <=> row.resolvedAt # None
                      /\ row.status \in Closed => \E a \in at(row.version - 1) :
                           a.op = row.resolvedAt /\ a.notes = row.resolution
    BY DEF CasesReplay, ActsOf
  <2>1. ActsNumbered(c) /\ ActsChained(c) /\ ClosingKept(c) /\ cases[c].version \in Nat \ {0}
    BY DEF CaseInv, CaseRow
  <2>2. \A v : {a \in ActsOf(c) : a.expected = v} = ActsAt(c, v)
    BY DEF ActsOf, ActsAt
  <2>3. \A v \in 1..(cases[c].version - 1) : Cardinality(ActsAt(c, v)) = 1
    BY <2>1, FS_Singleton DEF ActsNumbered
  <2>4. ASSUME NEW a \in ActsOf(c)
        PROVE  a.previous = IF a.expected = 1 THEN "open"
                            ELSE (CHOOSE b \in ActsAt(c, a.expected - 1) : TRUE).resulting
    <3>1. CASE a.expected = 1
      BY <2>1, <3>1 DEF ActsChained
    <3>2. CASE a.expected # 1
      <4>1. a.expected - 1 \in 1..(cases[c].version - 1)
        BY <2>1, <3>2 DEF ActsNumbered
      <4>2. PICK b : ActsAt(c, a.expected - 1) = {b}
        BY <2>1, <4>1 DEF ActsNumbered
      <4>3. b \in ActsOf(c) /\ b.expected = a.expected - 1
        BY <4>2 DEF ActsOf, ActsAt
      <4> QED
        BY <2>1, <3>2, <4>2, <4>3 DEF ActsChained
    <3> QED
      BY <3>1, <3>2
  <2>5. Cardinality(ActsOf(c)) = cases[c].version - 1
    BY <2>1 DEF ActsNumbered
  <2>6. \A a \in ActsAt(c, cases[c].version - 1) : cases[c].status = a.resulting
    BY <2>1 DEF ActsChained, ActsOf, ActsAt
  <2>7. /\ cases[c].status \in Closed <=> cases[c].resolvedAt # None
        /\ cases[c].status \in Closed => \E a \in ActsAt(c, cases[c].version - 1) :
             a.op = cases[c].resolvedAt /\ a.notes = cases[c].resolution
    BY <2>1 DEF ClosingKept, ActsOf, ActsAt
  <2> QED
    BY <2>2, <2>3, <2>4, <2>5, <2>6, <2>7
<1> QED
  BY <1>1, <1>2, <1>3, PTL DEF OperationsSpec
-----------------------------------------------------------------------------
(* Tables and sessions *)

OpenAt(s, t) == sessions[s] # None /\ sessions[s].table = t /\ sessions[s].status = "open"
Occupied(t) == tables[t] # None /\ tables[t].status = "occupied"

\* SeatingConsistent with the types it needs.
SeatInv ==
  /\ tables \in [Tables -> DiningTable \cup {None}]
  /\ sessions \in [Sessions -> DiningSession \cup {None}]
  /\ \A t \in Tables : Occupied(t) <=> \E s \in Sessions : OpenAt(s, t)
  /\ \A t \in Tables : \A r, s \in Sessions : OpenAt(r, t) /\ OpenAt(s, t) => r = s

\* Nothing but the dining operations touches tables and sessions.
LEMMA OthersKeepSeats ==
  ASSUME CashNext \/ CaptureNext \/ CheckoutNext
  PROVE  UNCHANGED <<tables, sessions>>
<1>1. CASE CashNext
  BY <1>1 DEF CashNext, handleOpenCash, OpenCashShift, handleCloseCash, CloseCashShift, CaptureTender,
     handleReverseTender, ReverseTender, handleSettle, GenerateSettlements, diningVars
<1>2. CASE CaptureNext
  BY <1>2 DEF CaptureNext, handleCaptureTender, CaptureTenderRefused, diningVars
<1>3. CASE CheckoutNext
  <2>1. ASSUME NEW o, NEW version, NEW lines, NEW discount, NEW charges, NEW token, NEW tendered,
               handleCheckoutPOS(o, version, lines, discount, charges, token, tendered)
        PROVE  UNCHANGED <<tables, sessions>>
    BY <2>1 DEF handleCheckoutPOS, CheckoutPOS, diningVars
  <2>2. ASSUME NEW i, NEW b, NEW reason, handleSetAvailability(i, b, reason)
        PROVE  UNCHANGED <<tables, sessions>>
    BY <2>2 DEF handleSetAvailability, SetMenuAvailability
  <2>3. ASSUME NEW p, NEW action, handlePrintJobAction(p, action)
        PROVE  UNCHANGED <<tables, sessions>>
    BY <2>3 DEF handlePrintJobAction, AcknowledgeKitchenPrintJob, diningVars
  <2>4. ASSUME NEW p, NEW copy, handleCreatePrintJob(p, copy)
        PROVE  UNCHANGED <<tables, sessions>>
    BY <2>4 DEF handleCreatePrintJob, CreateKitchenPrintJob, diningVars
  <2>5. ASSUME NEW token, NEW o, handleIssuePickupToken(token, o)
        PROVE  UNCHANGED <<tables, sessions>>
    BY <2>5 DEF handleIssuePickupToken, IssuePickupToken, diningVars
  <2>6. ASSUME NEW token, NEW status, NEW v, handlePickupTokenTransition(token, status, v)
        PROVE  UNCHANGED <<tables, sessions>>
    BY <2>6 DEF handlePickupTokenTransition, TransitionPickupToken, diningVars
  <2>7. CASE SaleNext
    BY <2>1, <2>7, Zenon DEF SaleNext
  <2>8. CASE SlipNext
    BY <2>3, <2>4, <2>5, <2>6, <2>8, Zenon DEF SlipNext
  <2> QED
    BY <1>3, <2>2, <2>7, <2>8, Zenon DEF CheckoutNext
<1> QED
  BY <1>1, <1>2, <1>3

\* Steps that leave tables and sessions alone.
LEMMA SeatFrame ==
  ASSUME SeatInv, UNCHANGED <<tables, sessions>>
  PROVE  SeatInv'
BY DEF SeatInv, Occupied, OpenAt

\* A new table is free, and a table moved by hand was not occupied and is not.
LEMMA TableKeepsSeats ==
  ASSUME SeatInv, NEW t \in Tables, sessions' = sessions,
         NEW row \in DiningTable, row.status # "occupied",
         tables' = [tables EXCEPT ![t] = row], ~Occupied(t)
  PROVE  SeatInv'
<1>1. tables' \in [Tables -> DiningTable \cup {None}]
  BY DEF SeatInv
<1>2. \A u \in Tables : Occupied(u)' <=> Occupied(u)
  BY DEF SeatInv, Occupied
<1>3. \A s \in Sessions, u \in Tables : OpenAt(s, u)' <=> OpenAt(s, u)
  BY DEF OpenAt
<1> QED
  BY <1>1, <1>2, <1>3 DEF SeatInv

\* A party is seated at a free table only, which becomes occupied.
LEMMA OpenKeepsSeats ==
  ASSUME SeatInv, NEW s \in Sessions, NEW t \in Tables, handleOpenSession(s, t)
  PROVE  SeatInv'
<1>1. PICK row : row = [table |-> t, status |-> "open", version |-> 1]
  OBVIOUS
<1>2. /\ tables[t] # None /\ tables[t].status = "available" /\ sessions[s] = None
      /\ tables' = [tables EXCEPT ![t].status = "occupied", ![t].version = @ + 1]
      /\ sessions' = [sessions EXCEPT ![s] = row]
  BY <1>1 DEF handleOpenSession, OpenDiningSession, Exists
<1>3. row \in DiningSession /\ row.table = t /\ row.status = "open" /\ row # None
  BY <1>1, CashDeskAssumption DEF DiningSession
<1>4. /\ tables' \in [Tables -> DiningTable \cup {None}] /\ Occupied(t)'
      /\ \A u \in Tables \ {t} : tables'[u] = tables[u]
  <2>1. tables[t] \in DiningTable
    BY <1>2 DEF SeatInv
  <2>2. PICK v : v = [status |-> "occupied", version |-> tables[t].version + 1]
    OBVIOUS
  <2>3. v \in DiningTable /\ v.status = "occupied" /\ v # None
    BY <2>1, <2>2, CashDeskAssumption DEF DiningTable
  <2>4. tables' = [tables EXCEPT ![t] = v]
    BY <1>2, <2>1, <2>2 DEF SeatInv, DiningTable
  <2> QED
    BY <2>3, <2>4 DEF SeatInv, Occupied
<1>5. sessions' \in [Sessions -> DiningSession \cup {None}]
  BY <1>2, <1>3 DEF SeatInv
<1>6. /\ OpenAt(s, t)'
      /\ \A r \in Sessions, u \in Tables : OpenAt(r, u)' <=> OpenAt(r, u) \/ (r = s /\ u = t)
  BY <1>2, <1>3 DEF SeatInv, OpenAt
<1>7. \A r \in Sessions : ~OpenAt(r, t)
  BY <1>2 DEF SeatInv, Occupied
<1>8. \A u \in Tables : Occupied(u)' <=> Occupied(u) \/ u = t
  BY <1>4 DEF Occupied
<1>9. \A u \in Tables : Occupied(u)' <=> \E r \in Sessions : OpenAt(r, u)'
  BY <1>6, <1>8 DEF SeatInv
<1>10. \A u \in Tables : \A q, r \in Sessions : OpenAt(q, u)' /\ OpenAt(r, u)' => q = r
  BY <1>6, <1>7 DEF SeatInv
<1> QED
  BY <1>4, <1>5, <1>9, <1>10 DEF SeatInv

\* Closing the session of a table hands the table to cleaning.
LEMMA CloseKeepsSeats ==
  ASSUME SeatInv, NEW s \in Sessions, NEW expected \in Nat, handleCloseSession(s, expected)
  PROVE  SeatInv'
<1>1. sessions[s] \in DiningSession /\ sessions[s] # None /\ sessions[s].status = "open"
  BY DEF handleCloseSession, CloseDiningSession, Exists, SeatInv
<1>2. PICK t \in Tables : t = sessions[s].table
  BY <1>1 DEF DiningSession
<1>3. /\ tables' = [tables EXCEPT ![t].status = "cleaning", ![t].version = @ + 1]
      /\ sessions' = [sessions EXCEPT ![s].status = "closed", ![s].version = expected + 1]
  BY <1>2 DEF handleCloseSession, CloseDiningSession
<1>4. OpenAt(s, t) /\ Occupied(t)
  BY <1>1, <1>2 DEF OpenAt, SeatInv
<1>5. /\ tables' \in [Tables -> DiningTable \cup {None}] /\ ~Occupied(t)'
      /\ \A u \in Tables \ {t} : tables'[u] = tables[u]
  <2>1. tables[t] \in DiningTable
    BY <1>4 DEF SeatInv, Occupied
  <2>2. PICK v : v = [status |-> "cleaning", version |-> tables[t].version + 1]
    OBVIOUS
  <2>3. v \in DiningTable /\ v.status # "occupied"
    BY <2>1, <2>2 DEF DiningTable
  <2>4. tables' = [tables EXCEPT ![t] = v]
    BY <1>3, <2>1, <2>2 DEF SeatInv, DiningTable
  <2> QED
    BY <2>3, <2>4 DEF SeatInv, Occupied
<1>6. /\ sessions' \in [Sessions -> DiningSession \cup {None}]
      /\ \A u \in Tables : ~OpenAt(s, u)'
      /\ \A r \in Sessions \ {s} : sessions'[r] = sessions[r]
  <2>1. PICK v : v = [table |-> t, status |-> "closed", version |-> expected + 1]
    OBVIOUS
  <2>2. v \in DiningSession /\ v.status # "open"
    BY <1>1, <2>1 DEF DiningSession
  <2>3. v = [sessions[s] EXCEPT !.status = "closed", !.version = expected + 1]
    <3>1. PICK r : r = sessions[s]
      OBVIOUS
    <3>2. PICK w : w = [r EXCEPT !.status = "closed"]
      OBVIOUS
    <3>3. w = [table |-> t, status |-> "closed", version |-> r.version]
      BY <1>1, <1>2, <3>1, <3>2 DEF DiningSession
    <3>4. v = [w EXCEPT !.version = expected + 1]
      BY <2>1, <3>3
    <3> QED
      BY <3>1, <3>2, <3>4
  <2>4. sessions' = [sessions EXCEPT ![s] = v]
    BY <1>3, <2>3 DEF SeatInv
  <2> QED
    BY <2>2, <2>4 DEF SeatInv, OpenAt
<1>7. \A r \in Sessions, u \in Tables : OpenAt(r, u)' <=> OpenAt(r, u) /\ r # s
  BY <1>6 DEF OpenAt
<1>8. \A u \in Tables : Occupied(u)' <=> Occupied(u) /\ u # t
  BY <1>5 DEF Occupied
<1>9. \A u \in Tables : OpenAt(s, u) => u = t
  BY <1>2 DEF OpenAt
<1>10. \A u \in Tables : Occupied(u)' <=> \E r \in Sessions : OpenAt(r, u)'
  BY <1>4, <1>7, <1>8, <1>9 DEF SeatInv
<1>11. \A u \in Tables : \A q, r \in Sessions : OpenAt(q, u)' /\ OpenAt(r, u)' => q = r
  BY <1>7 DEF SeatInv
<1> QED
  BY <1>5, <1>6, <1>10, <1>11 DEF SeatInv

\* A table is occupied exactly while one session at it is open, for any number of tables
\* and sessions and any order of seating, closing, cleaning and disabling.
THEOREM SeatingIsConsistent == CashDeskSpec => []SeatingConsistent
<1>1. CashDeskInit => SeatInv
  BY DEF CashDeskInit, SeatInv, Occupied, OpenAt
<1>2. SeatInv /\ [CashDeskNext]_<<audits, cashDeskVars>> => SeatInv'
  <2> SUFFICES ASSUME SeatInv, [CashDeskNext]_<<audits, cashDeskVars>> PROVE SeatInv'
    OBVIOUS
  <2>1. ASSUME NEW t \in Fresh(tables), handleCreateTable(t) PROVE SeatInv'
    <3>1. PICK row : row = [status |-> "available", version |-> 1]
      OBVIOUS
    <3>2. row \in DiningTable /\ row.status # "occupied"
      BY <3>1 DEF DiningTable
    <3>3. /\ t \in Tables /\ tables[t] = None /\ sessions' = sessions
          /\ tables' = [tables EXCEPT ![t] = row]
      BY <2>1, <3>1 DEF Fresh, SeatInv, handleCreateTable, CreateDiningTable
    <3> QED
      BY <3>2, <3>3, TableKeepsSeats DEF Occupied
  <2>2. ASSUME NEW t \in Tables, NEW status \in {"available", "disabled"}, NEW v \in 1..MaxOps,
               handleTableTransition(t, status, v)
        PROVE  SeatInv'
    <3>1. PICK row : row = [status |-> status, version |-> v + 1]
      OBVIOUS
    <3>2. row \in DiningTable /\ row.status # "occupied"
      BY <3>1 DEF DiningTable
    <3>3. /\ tables[t].status # "occupied" /\ sessions' = sessions
          /\ tables' = [tables EXCEPT ![t] = row]
      BY <2>2, <3>1 DEF handleTableTransition, TransitionDiningTable
    <3> QED
      BY <3>2, <3>3, TableKeepsSeats DEF Occupied
  <2>3. ASSUME NEW s \in Fresh(sessions), NEW t \in Tables, handleOpenSession(s, t) PROVE SeatInv'
    <3>1. s \in Sessions
      BY DEF Fresh, SeatInv
    <3> QED
      BY <2>3, <3>1, OpenKeepsSeats
  <2>4. ASSUME NEW s \in Sessions, NEW v \in 1..MaxOps, handleCloseSession(s, v) PROVE SeatInv'
    BY <2>4, CloseKeepsSeats
  <2>5. CASE DiningNext
    BY <2>1, <2>2, <2>3, <2>4, <2>5 DEF DiningNext
  <2>6. CASE CashNext \/ CaptureNext \/ CheckoutNext
    BY <2>6, OthersKeepSeats, SeatFrame
  <2>7. CASE UNCHANGED <<audits, cashDeskVars>>
    BY <2>7, SeatFrame DEF cashDeskVars, diningVars
  <2> QED
    BY <2>5, <2>6, <2>7 DEF CashDeskNext
<1>3. SeatInv => SeatingConsistent
  <2> SUFFICES ASSUME SeatInv, NEW t \in Tables,
                      NEW open, open = {s \in Sessions : OpenAt(s, t)}
               PROVE  /\ Cardinality(open) <= 1
                      /\ (Exists(tables, t) /\ tables[t].status = "occupied") <=> open # {}
    BY DEF SeatingConsistent, OpenAt
  <2>1. open = {} \/ \E s \in Sessions : open = {s}
    BY DEF SeatInv
  <2>2. Cardinality(open) <= 1
    BY <2>1, FS_EmptySet, FS_Singleton
  <2>3. Occupied(t) <=> open # {}
    BY DEF SeatInv
  <2> QED
    BY <2>2, <2>3 DEF Exists, Occupied, SeatInv
<1> QED
  BY <1>1, <1>2, <1>3, PTL DEF CashDeskSpec
-----------------------------------------------------------------------------
(* Decisions about connector orders *)

Review == "needs_review"

\* An earlier review decision of the same entry stays in force over d.
Overruled(d) ==
  \E r \in DecisionsOf(d.entry) : r.decision = Review /\ r.op < d.op /\ d.at < r.at

DecisionsTyped ==
  /\ audits \in Nat /\ clock \in Nat
  /\ \A x \in deciding : x.at \in Nat /\ x.at < clock /\ x.decision \in Final \cup {Review}
  /\ \A d \in decisions : /\ d.op \in Nat /\ d.op < audits /\ d.at \in Nat /\ d.at < clock
                          /\ d.decision \in Final \cup {Review}

\* Every reading of the clock is used once.
TimesDistinct ==
  /\ \A x, y \in deciding : x.at = y.at => x = y
  /\ \A d, f \in decisions : d.at = f.at \/ d.op = f.op => d = f
  /\ \A x \in deciding, d \in decisions : x.at # d.at

LatestExists ==
  \A d \in decisions : \E m \in DecisionsOf(d.entry) : \A f \in DecisionsOf(d.entry) : f.at <= m.at

\* Whatever is stored behind a final decision, final itself or not.
LaterOverruled ==
  \A d, f \in decisions :
    d.entry = f.entry /\ d.op < f.op /\ d.decision \in Final => Overruled(d)

DecideInv == DecisionsTyped /\ TimesDistinct /\ LatestExists /\ LaterOverruled

\* When an entry's status is not final, the decision in force is a review that is later
\* than every final decision.
LEMMA ReviewInForce ==
  ASSUME DecideInv, NEW d \in decisions, d.decision \in Final,
         CurrentStatus(d.entry) \notin Final
  PROVE  \E m \in DecisionsOf(d.entry) : m.decision = Review /\ d.at < m.at
<1> DEFINE e == d.entry
<1>1. d \in DecisionsOf(e)
  BY DEF DecisionsOf
<1>2. PICK m : /\ m = CHOOSE c \in DecisionsOf(e) : \A f \in DecisionsOf(e) : f.at <= c.at
               /\ m \in DecisionsOf(e) /\ \A f \in DecisionsOf(e) : f.at <= m.at
  BY DEF DecideInv, LatestExists
<1>3. CurrentStatus(e) = m.decision
  BY <1>1, <1>2 DEF CurrentStatus
<1>4. m \in decisions
  BY <1>2 DEF DecisionsOf
<1>5. m.decision = Review /\ m # d
  BY <1>3, <1>4 DEF DecideInv, DecisionsTyped
<1>6. d.at <= m.at /\ d.at # m.at /\ d.at \in Nat /\ m.at \in Nat
  BY <1>1, <1>2, <1>4, <1>5 DEF DecideInv, DecisionsTyped, TimesDistinct
<1> QED
  BY <1>2, <1>5, <1>6

\* DecideConnectorOrder stores a decision or refuses it.
LEMMA DecideKeeps ==
  ASSUME DecideInv, NEW x \in deciding, DecideConnectorOrder(x)
  PROVE  DecideInv'
<1>1. clock' = clock /\ deciding' = deciding \ {x}
  BY DEF DecideConnectorOrder
<1>2. CASE UNCHANGED <<decisions, audits>>
  <2>1. \A e : DecisionsOf(e)' = DecisionsOf(e)
    BY <1>2 DEF DecisionsOf
  <2>2. DecisionsTyped' /\ TimesDistinct'
    BY <1>1, <1>2 DEF DecideInv, DecisionsTyped, TimesDistinct
  <2>3. LatestExists' /\ LaterOverruled'
    BY <1>2, <2>1 DEF DecideInv, LatestExists, LaterOverruled, Overruled
  <2> QED
    BY <2>2, <2>3 DEF DecideInv
<1>3. CASE ~UNCHANGED <<decisions, audits>>
  <2>1. PICK n : n = [op |-> audits, entry |-> x.entry, decision |-> x.decision,
                      order |-> x.order, at |-> x.at]
    OBVIOUS
  <2>2. /\ decisions' = decisions \cup {n} /\ audits' = audits + 1
        /\ CurrentStatus(x.entry) \notin Final
    BY <1>3, <2>1 DEF DecideConnectorOrder, Audited
  <2>3. n.op = audits /\ n.entry = x.entry /\ n.decision = x.decision /\ n.at = x.at
    BY <2>1
  <2>4. /\ DecisionsOf(n.entry)' = DecisionsOf(n.entry) \cup {n}
        /\ \A e : e # n.entry => DecisionsOf(e)' = DecisionsOf(e)
        /\ \A e : DecisionsOf(e) \subseteq DecisionsOf(e)'
    BY <2>2 DEF DecisionsOf
  <2>5. DecisionsTyped'
    BY <1>1, <2>2, <2>3 DEF DecideInv, DecisionsTyped
  <2>6. TimesDistinct'
    <3>1. \A d \in decisions : d.op # n.op /\ d.at # n.at
      BY <2>3 DEF DecideInv, DecisionsTyped, TimesDistinct
    <3>2. \A y \in deciding' : y.at # n.at
      BY <1>1, <2>3 DEF DecideInv, TimesDistinct
    <3> QED
      BY <1>1, <2>2, <3>1, <3>2 DEF DecideInv, TimesDistinct
  <2>7. LatestExists'
    <3>1. ASSUME NEW d \in decisions'
          PROVE  \E m \in DecisionsOf(d.entry)' : \A f \in DecisionsOf(d.entry)' : f.at <= m.at
      <4>1. CASE d.entry # n.entry
        BY <2>2, <2>4, <4>1 DEF DecideInv, LatestExists
      <4>2. CASE d.entry = n.entry /\ DecisionsOf(n.entry) = {}
        BY <2>3, <2>4, <4>2 DEF DecideInv, DecisionsTyped
      <4>3. CASE d.entry = n.entry /\ DecisionsOf(n.entry) # {}
        <5>1. PICK m \in DecisionsOf(n.entry) : \A f \in DecisionsOf(n.entry) : f.at <= m.at
          BY <4>3 DEF DecideInv, LatestExists, DecisionsOf
        <5>2. /\ m.at \in Nat /\ n.at \in Nat
              /\ \A f \in DecisionsOf(n.entry) : f.at \in Nat
          BY <2>3 DEF DecideInv, DecisionsTyped, DecisionsOf
        <5>3. CASE n.at <= m.at
          BY <2>4, <4>3, <5>1, <5>2, <5>3
        <5>4. CASE ~(n.at <= m.at)
          BY <2>4, <4>3, <5>1, <5>2, <5>4
        <5> QED
          BY <5>3, <5>4
      <4> QED
        BY <4>1, <4>2, <4>3
    <3> QED
      BY <3>1 DEF LatestExists
  <2>8. LaterOverruled'
    <3>1. ASSUME NEW d \in decisions, Overruled(d) PROVE Overruled(d)'
      BY <2>4, <3>1 DEF Overruled
    <3>2. ASSUME NEW d \in decisions, d.entry = n.entry, d.decision \in Final PROVE Overruled(d)
      <4>1. PICK m \in DecisionsOf(d.entry) : m.decision = Review /\ d.at < m.at
        BY <2>2, <2>3, <3>2, ReviewInForce
      <4>2. m \in decisions /\ m.entry = d.entry
        BY DEF DecisionsOf
      <4>3. m.op < d.op \/ d.op < m.op
        <5>1. m # d /\ m.op \in Nat /\ d.op \in Nat
          BY <3>2, <4>1, <4>2 DEF DecideInv, DecisionsTyped, Final, Review
        <5>2. m.op # d.op
          BY <4>2, <5>1 DEF DecideInv, TimesDistinct
        <5> QED
          BY <5>1, <5>2
      <4>4. CASE m.op < d.op
        BY <4>1, <4>4 DEF Overruled
      <4>5. CASE d.op < m.op
        BY <3>2, <4>2, <4>5 DEF DecideInv, LaterOverruled
      <4> QED
        BY <4>3, <4>4, <4>5
    <3>3. ASSUME NEW d \in decisions', NEW f \in decisions', d.entry = f.entry, d.op < f.op,
                 d.decision \in Final
          PROVE  Overruled(d)'
      <4>1. d \in decisions
        BY <2>2, <2>3, <3>3 DEF DecideInv, DecisionsTyped
      <4>2. CASE f = n
        BY <3>1, <3>2, <3>3, <4>1, <4>2
      <4>3. CASE f \in decisions
        BY <3>1, <3>3, <4>1, <4>3 DEF DecideInv, LaterOverruled
      <4> QED
        BY <2>2, <4>2, <4>3
    <3> QED
      BY <3>3 DEF LaterOverruled
  <2> QED
    BY <2>5, <2>6, <2>7, <2>8 DEF DecideInv
<1> QED
  BY <1>2, <1>3

\* Everything else leaves the decisions alone, reads the clock at most once, and moves it on.
LEMMA OthersKeepDecisions ==
  ASSUME DecideInv, decisions' = decisions, audits' \in Nat, audits' >= audits,
         clock' \in Nat,
         \/ deciding' = deciding /\ clock' >= clock
         \/ /\ clock' = clock + 1
            /\ \E x : /\ deciding' = deciding \cup {x}
                      /\ x.at = clock /\ x.decision \in Final \cup {Review}
  PROVE  DecideInv'
<1>1. \A e : DecisionsOf(e)' = DecisionsOf(e)
  BY DEF DecisionsOf
<1>2. LatestExists' /\ LaterOverruled'
  BY <1>1 DEF DecideInv, LatestExists, LaterOverruled, Overruled
<1>3. DecisionsTyped'
  BY DEF DecideInv, DecisionsTyped
<1>4. TimesDistinct'
  BY DEF DecideInv, DecisionsTyped, TimesDistinct
<1> QED
  BY <1>2, <1>3, <1>4 DEF DecideInv

\* A connector order gets one final decision, for any entries and any number of decisions
\* under way, unless an earlier stored review has a later time.
THEOREM OrdersAreDecidedOnce == ChannelsSpec => []DecidedOnce
<1>1. ChannelsInit /\ audits = 0 => DecideInv
  BY DEF ChannelsInit, DecideInv, DecisionsTyped, TimesDistinct, LatestExists, LaterOverruled
<1>2. DecideInv /\ [ChannelsNext]_<<audits, channelVars>> => DecideInv'
  <2> SUFFICES ASSUME DecideInv, [ChannelsNext]_<<audits, channelVars>> PROVE DecideInv'
    OBVIOUS
  <2>1. audits \in Nat /\ clock \in Nat
    BY DEF DecideInv, DecisionsTyped
  <2>2. CASE ConnectNext
    <3>1. decisions' = decisions /\ deciding' = deciding /\ clock' = clock /\ audits' = audits + 1
      BY <2>2 DEF ConnectNext, handleCreateSalesChannel, CreateSalesChannel, handleCreateConnector,
         CreateConnectorInstallation, Audited
    <3> QED
      BY <2>1, <3>1, OthersKeepDecisions
  <2>3. CASE ProfileNext
    <3>1. decisions' = decisions /\ deciding' = deciding /\ clock' = clock /\ audits' = audits + 1
      BY <2>3 DEF ProfileNext, handleCreateQROrderingLink, CreateQROrderingLink,
         handleSetStationCapacity, SetStationCapacity, handleSetOutletControlProfile,
         SetOutletControlProfile, handleRegisterHardwareDevice, RegisterHardwareDevice,
         handleCreateRunbook, CreateImplementationRunbook, Audited, inboxVars
    <3> QED
      BY <2>1, <3>1, OthersKeepDecisions
  <2>4. CASE Tick
    BY <2>1, <2>4, OthersKeepDecisions DEF Tick, inboxVars
  <2>5. ASSUME NEW e, NEW s, NEW c, NEW y, handleIngestConnectorOrder(e, s, c, y) PROVE DecideInv'
    <3>1. decisions' = decisions /\ deciding' = deciding /\ clock' = clock /\ audits' = audits + 1
      BY <2>5 DEF handleIngestConnectorOrder, IngestConnectorOrder, Audited
    <3> QED
      BY <2>1, <3>1, OthersKeepDecisions
  <2>6. ASSUME NEW s, NEW e, NEW decision, NEW o,
               handleConnectorInboxDecision(s, e, decision, o)
        PROVE  DecideInv'
    <3>1. PICK x : x = [shop |-> s, entry |-> e, decision |-> decision, order |-> o, at |-> clock]
      OBVIOUS
    <3>2. x.at = clock /\ x.decision = decision
      BY <3>1
    <3>3. /\ deciding' = deciding \cup {x} /\ decision \in Final \cup {Review}
          /\ decisions' = decisions /\ clock' = clock + 1 /\ audits' = audits
      BY <2>6, <3>1 DEF handleConnectorInboxDecision, Review
    <3> QED
      BY <2>1, <3>2, <3>3, OthersKeepDecisions
  <2>7. CASE InboxNext
    BY <2>5, <2>6, <2>7, DecideKeeps DEF InboxNext
  <2>8. CASE UNCHANGED <<audits, channelVars>>
    BY <2>1, <2>8, OthersKeepDecisions DEF channelVars, inboxVars
  <2> QED
    BY <2>2, <2>3, <2>4, <2>7, <2>8 DEF ChannelsNext
<1>3. DecideInv => DecidedOnce
  BY DEF DecideInv, LaterOverruled, Overruled, DecidedOnce, Review
<1> QED
  BY <1>1, <1>2, <1>3, PTL DEF ChannelsSpec
-----------------------------------------------------------------------------
(* Guest orders *)

\* Menu versions are never removed.
VersionKept(v) == v \in MenuVersionIds /\ menuVersions[v] # None

\* What guests were told is stored, and what is stored is what its version costs.
QuoteInv ==
  /\ menuVersions \in [MenuVersionIds -> MenuVersion \cup {None}]
  /\ guestRequests \in [RequestIds -> GuestRequest \cup {None}]
  /\ \A l \in DOMAIN links : links[l] # None => links[l].shop \in Shops
  /\ \A p \in PublicationIds : publications[p] # None => VersionKept(publications[p].version)
  /\ \A s \in submitting : /\ s.client \in RequestIds /\ s.shop \in Shops
                           /\ s.version \in MenuVersionIds /\ s.lines \in PerItem
  /\ \A t \in told : /\ t.client \in RequestIds /\ guestRequests[t.client] # None
                     /\ guestRequests[t.client].total = t.total
  /\ \A c \in RequestIds : guestRequests[c] # None =>
       LET r == guestRequests[c] IN
       /\ VersionKept(r.version) /\ menuVersions[r.version].status = "published"
       /\ r.total = Quote(r.version, r.lines)

\* Versions are only added.
LEMMA MenuKeepsQuotes ==
  ASSUME QuoteInv, NEW q \in StudioIds, NEW shop \in Shops, NEW id \in MenuVersionIds,
         NEW v \in MenuInput, validMenuVersion(v, TRUE) \/ validMenuVersion(v, FALSE),
         insertMenuStudioVersion(q, shop, id, v), UNCHANGED <<channelVars, guestOrderVars>>
  PROVE  QuoteInv'
<1>1. PICK row : row = [studio |-> q, number |-> v.number, status |-> v.status, prices |-> v.prices]
  OBVIOUS
<1>2. row \in MenuVersion /\ row # None
  <2>1. v.number \in Nat /\ v.status \in {"draft", "published"} /\ v.prices \in PerItem
    <3>1. /\ v.number \in {1, 2} /\ v.status \in {"draft", "published"}
          /\ \E i \in DOMAIN ItemShop : v.prices \in [{i} -> {1, 2}]
      BY DEF MenuInput
    <3>2. PICK i \in DOMAIN ItemShop : v.prices \in [{i} -> Nat]
      <4>1. \A i : [{i} -> {1, 2}] \subseteq [{i} -> Nat]
        OBVIOUS
      <4> QED
        BY <3>1, <4>1
    <3>3. {i} \in SUBSET DOMAIN ItemShop
      OBVIOUS
    <3> QED
      BY <3>1, <3>2, <3>3 DEF PerItem
  <2> QED
    BY <1>1, <2>1, OrderingAssumption DEF MenuVersion
<1>3. menuVersions[id] = None /\ menuVersions' = [menuVersions EXCEPT ![id] = row]
  BY <1>1 DEF insertMenuStudioVersion
<1>4. /\ menuVersions' \in [MenuVersionIds -> MenuVersion \cup {None}]
      /\ \A w : VersionKept(w) => VersionKept(w)' /\ menuVersions'[w] = menuVersions[w]
      /\ VersionKept(id)'
  BY <1>2, <1>3 DEF QuoteInv, VersionKept
<1>5. (\A p \in PublicationIds : publications[p] # None => VersionKept(publications[p].version))'
  <2> SUFFICES ASSUME NEW p \in PublicationIds, publications'[p] # None,
                      NEW w, w = publications'[p].version
               PROVE  VersionKept(w)'
    BY DEF VersionKept
  <2>1. publications'[p] = publications[p] \/ w = id
    BY DEF insertMenuStudioVersion
  <2> QED
    BY <1>4, <2>1 DEF QuoteInv
<1>6. UNCHANGED <<links, submitting, guestRequests, told>>
  BY DEF channelVars, setupVars, guestOrderVars
<1>7. ASSUME NEW c \in RequestIds, guestRequests[c] # None, NEW r, r = guestRequests[c]
      PROVE  /\ VersionKept(r.version)' /\ menuVersions'[r.version].status = "published"
             /\ r.total = Quote(r.version, r.lines)'
  <2>2. /\ VersionKept(r.version) /\ menuVersions[r.version].status = "published"
        /\ r.total = CostOf(menuVersions[r.version].prices, r.lines)
    BY <1>7 DEF QuoteInv, Quote
  <2>3. menuVersions'[r.version] = menuVersions[r.version] /\ VersionKept(r.version)'
    BY <1>4, <2>2
  <2>4. r.total = CostOf(menuVersions'[r.version].prices, r.lines)
    BY <2>2, <2>3
  <2> QED
    BY <2>2, <2>3, <2>4 DEF Quote
<1>8. (\A c \in RequestIds : guestRequests[c] # None =>
         LET r == guestRequests[c] IN
         /\ VersionKept(r.version) /\ menuVersions[r.version].status = "published"
         /\ r.total = Quote(r.version, r.lines))'
  <2> SUFFICES ASSUME NEW c \in RequestIds, guestRequests'[c] # None, NEW r, r = guestRequests'[c]
               PROVE  /\ VersionKept(r.version)' /\ menuVersions'[r.version].status = "published"
                      /\ r.total = Quote(r.version, r.lines)'
    BY DEF VersionKept, Quote
  <2> QED
    BY <1>6, <1>7
<1> QED
  BY <1>4, <1>5, <1>6, <1>8 DEF QuoteInv

\* A submission is either answered from the stored request, or stored and answered, or refused.
LEMMA SubmitKeepsQuotes ==
  ASSUME QuoteInv, NEW s \in submitting, NEW sellable, SubmitGuestOrderRequest(s, sellable)
  PROVE  QuoteInv'
<1>1. /\ submitting' = submitting \ {s}
      /\ UNCHANGED <<links, menuVersions, publications>>
  BY DEF SubmitGuestOrderRequest, channelVars, setupVars, menuVars
<1>2. PICK known : known = guestRequests[s.client]
  OBVIOUS
<1>3. PICK client \in RequestIds : client = s.client
  BY DEF QuoteInv
<1>4. CASE UNCHANGED <<guestRequests, told>>
  BY <1>1, <1>4 DEF QuoteInv, VersionKept, Quote
<1>5. CASE /\ known # None /\ UNCHANGED guestRequests
           /\ told' = told \cup {[client |-> s.client, total |-> known.total]}
  BY <1>1, <1>2, <1>3, <1>5 DEF QuoteInv, VersionKept, Quote
<1>6. CASE /\ known = None /\ Acceptable(s, sellable)
           /\ guestRequests' = [guestRequests EXCEPT ![s.client] = Priced(s)]
           /\ told' = told \cup {[client |-> s.client, total |-> Priced(s).total]}
  <2>1. PICK row : row = Priced(s)
    OBVIOUS
  <2>2. /\ row.version = s.version /\ row.lines = s.lines
        /\ row.total = Quote(s.version, s.lines) /\ row.total \in Nat
        /\ row \in GuestRequest /\ row # None
    <3>1. row.total \in Nat
      BY <1>6, <2>1 DEF Acceptable
    <3>2. row = [shop |-> s.shop, version |-> s.version, lines |-> s.lines, total |-> row.total]
      BY <2>1 DEF Priced
    <3>3. row \in GuestRequest
      BY <3>1, <3>2 DEF GuestRequest, QuoteInv
    <3>4. row.total = Quote(s.version, s.lines)
      BY <2>1 DEF Priced
    <3> QED
      BY <3>1, <3>2, <3>3, <3>4, OrderingAssumption
  <2>3. VersionKept(s.version) /\ menuVersions[s.version].status = "published"
    <3>1. PICK p \in LivePublications(s.shop, links[s.link].channel) :
             publications[p].version = s.version
      BY <1>6 DEF Acceptable, StillPublished
    <3>2. /\ p \in PublicationIds /\ publications[p] # None
          /\ menuVersions[publications[p].version].status = "published"
      BY <3>1 DEF LivePublications, Exists
    <3> QED
      BY <3>1, <3>2 DEF QuoteInv
  <2>4. /\ guestRequests' = [guestRequests EXCEPT ![client] = row]
        /\ told' = told \cup {[client |-> client, total |-> row.total]}
    BY <1>3, <1>6, <2>1
  <2>5. /\ guestRequests' \in [RequestIds -> GuestRequest \cup {None}]
        /\ guestRequests'[client] = row
        /\ \A c \in RequestIds \ {client} : guestRequests'[c] = guestRequests[c]
    BY <2>2, <2>4 DEF QuoteInv
  <2>6. \A t \in told : t.client # client
    BY <1>2, <1>3, <1>6 DEF QuoteInv
  <2>7. \A t \in told' : /\ t.client \in RequestIds /\ guestRequests'[t.client] # None
                         /\ guestRequests'[t.client].total = t.total
    <3>1. ASSUME NEW t \in told
          PROVE  /\ t.client \in RequestIds /\ guestRequests'[t.client] # None
                 /\ guestRequests'[t.client].total = t.total
      BY <2>5, <2>6 DEF QuoteInv
    <3> QED
      BY <2>2, <2>4, <2>5, <3>1
  <2>8. (\A c \in RequestIds : guestRequests[c] # None =>
           LET r == guestRequests[c] IN
           /\ VersionKept(r.version) /\ menuVersions[r.version].status = "published"
           /\ r.total = Quote(r.version, r.lines))'
    <3> SUFFICES ASSUME NEW c \in RequestIds, guestRequests'[c] # None,
                        NEW r, r = guestRequests'[c]
                 PROVE  /\ VersionKept(r.version) /\ menuVersions[r.version].status = "published"
                        /\ r.total = Quote(r.version, r.lines)
      BY <1>1 DEF VersionKept, Quote
    <3>1. CASE c = client
      BY <2>2, <2>3, <2>5, <3>1
    <3>2. CASE c # client
      BY <2>5, <3>2 DEF QuoteInv
    <3> QED
      BY <3>1, <3>2
  <2> QED
    BY <1>1, <2>5, <2>7, <2>8 DEF QuoteInv, VersionKept
<1> QED
  BY <1>2, <1>4, <1>5, <1>6 DEF SubmitGuestOrderRequest

\* Of the set-up of the outlet, quotes depend on nothing but the shop of a link.
LEMMA ChannelsKeepQuotes ==
  ASSUME QuoteInv, ChannelsNext, UNCHANGED orderingVars
  PROVE  QuoteInv'
<1>1. UNCHANGED <<menuVersions, publications, submitting, guestRequests, told>>
  BY DEF orderingVars, menuVars, guestOrderVars
<1>2. \A l \in DOMAIN links' : links'[l] # None => links'[l].shop \in Shops
  <2>1. CASE links' = links
    BY <2>1 DEF QuoteInv
  <2>2. ASSUME NEW k, NEW s \in Shops, NEW c, NEW slug, NEW expires,
               handleCreateQROrderingLink(k, s, c, slug, expires)
        PROVE  \A l \in DOMAIN links' : links'[l] # None => links'[l].shop \in Shops
    <3>1. PICK row : row = [shop |-> s, channel |-> c, slug |-> slug, active |-> TRUE,
                            expires |-> expires]
      OBVIOUS
    <3>2. row.shop \in Shops /\ links' = [links EXCEPT ![k] = row]
      BY <2>2, <3>1 DEF handleCreateQROrderingLink, CreateQROrderingLink
    <3> QED
      BY <3>2 DEF QuoteInv
  <2>3. CASE ConnectNext
    BY <2>1, <2>3 DEF ConnectNext, handleCreateSalesChannel, CreateSalesChannel,
       handleCreateConnector, CreateConnectorInstallation, setupVars
  <2>4. CASE InboxNext
    BY <2>1, <2>4 DEF InboxNext, handleIngestConnectorOrder, IngestConnectorOrder,
       handleConnectorInboxDecision, DecideConnectorOrder, setupVars
  <2>5. CASE ProfileNext
    BY <2>1, <2>2, <2>5 DEF ProfileNext, handleSetStationCapacity, SetStationCapacity,
       handleSetOutletControlProfile, SetOutletControlProfile, handleRegisterHardwareDevice,
       RegisterHardwareDevice, handleCreateRunbook, CreateImplementationRunbook
  <2>6. CASE Tick
    BY <2>1, <2>6 DEF Tick, setupVars
  <2> QED
    BY <2>3, <2>4, <2>5, <2>6 DEF ChannelsNext
<1> QED
  BY <1>1, <1>2 DEF QuoteInv, VersionKept, Quote

\* A guest is told one total for a request, which is the one that is stored and what its
\* version costs, for any number of overlapping submissions and menu versions.
THEOREM GuestsAreQuotedOnce == OrderingSpec => []GuestQuoteStable
<1>1. ChannelsInit /\ OrderingInit => QuoteInv
  <2> SUFFICES ASSUME ChannelsInit, OrderingInit PROVE QuoteInv
    OBVIOUS
  <2>1. \A l \in DOMAIN links : links[l] # None => links[l].shop \in Shops
    BY OrderingAssumption DEF ChannelsInit
  <2> QED
    BY <2>1 DEF OrderingInit, QuoteInv
<1>2. QuoteInv /\ [OrderingNext]_<<audits, channelVars, orderingVars>> => QuoteInv'
  <2> SUFFICES ASSUME QuoteInv, [OrderingNext]_<<audits, channelVars, orderingVars>>
               PROVE  QuoteInv'
    OBVIOUS
  <2>1. CASE ChannelsNext /\ UNCHANGED orderingVars
    BY <2>1, ChannelsKeepQuotes
  <2>2. CASE MenuNext
    <3>1. ASSUME NEW q \in StudioIds, NEW s \in Shops, NEW id \in Fresh(menuVersions),
                 NEW v \in MenuInput, handleCreateMenuStudio(q, s, id, v)
          PROVE  QuoteInv'
      <4>1. id \in MenuVersionIds
        BY DEF Fresh, QuoteInv
      <4> QED
        BY <3>1, <4>1, MenuKeepsQuotes DEF handleCreateMenuStudio, CreateMenuStudio
    <3>2. ASSUME NEW q \in StudioIds, NEW s \in Shops, NEW id \in Fresh(menuVersions),
                 NEW v \in MenuInput, NEW expected \in 1..2,
                 handleAddMenuStudioVersion(q, s, id, v, expected)
          PROVE  QuoteInv'
      <4>1. id \in MenuVersionIds
        BY DEF Fresh, QuoteInv
      <4> QED
        BY <3>2, <4>1, MenuKeepsQuotes DEF handleAddMenuStudioVersion, AddMenuStudioVersion
    <3> QED
      BY <2>2, <3>1, <3>2 DEF MenuNext
  <2>3. ASSUME NEW client \in RequestIds, NEW l \in LinkIds, NEW version \in MenuVersionIds,
               NEW lines \in PerItem, NEW sellable,
               handleSubmitPublicOrder(client, l, version, lines, sellable)
        PROVE  QuoteInv'
    <3>1. PICK s : s = [client |-> client, shop |-> links[l].shop, link |-> l,
                        version |-> version, lines |-> lines]
      OBVIOUS
    <3>2. /\ submitting' = submitting \cup {s}
          /\ UNCHANGED <<links, menuVersions, publications, guestRequests, told>>
      BY <2>3, <3>1 DEF handleSubmitPublicOrder, channelVars, setupVars, menuVars
    <3>3. l \in DOMAIN links /\ links[l] # None
      BY <2>3 DEF handleSubmitPublicOrder, publicMenu, LinkOpen, Exists
    <3>4. s.client = client /\ s.shop \in Shops /\ s.version = version /\ s.lines = lines
      BY <3>1, <3>3 DEF QuoteInv
    <3> QED
      BY <3>2, <3>4 DEF QuoteInv, VersionKept, Quote
  <2>4. ASSUME NEW i \in DOMAIN ItemShop, NEW n \in {1, 2} PROVE [j \in {i} |-> n] \in PerItem
    <3>1. [j \in {i} |-> n] \in [{i} -> Nat]
      OBVIOUS
    <3> QED
      BY <3>1 DEF PerItem
  <2>5. CASE GuestOrderNext
    BY <2>3, <2>4, <2>5, SubmitKeepsQuotes DEF GuestOrderNext
  <2>6. CASE UNCHANGED <<audits, channelVars, orderingVars>>
    BY <2>6 DEF channelVars, setupVars, orderingVars, menuVars, guestOrderVars, QuoteInv,
       VersionKept, Quote
  <2> QED
    BY <2>1, <2>2, <2>5, <2>6 DEF OrderingNext
<1>3. QuoteInv => GuestQuoteStable
  BY DEF QuoteInv, GuestQuoteStable, Rows, VersionKept
<1> QED
  BY <1>1, <1>2, <1>3, PTL DEF OrderingSpec
-----------------------------------------------------------------------------
(* Recipe versions *)

\* The versions V of a recipe, with their rows in T, follow each other.
Tiled(T, V) ==
  /\ IsFiniteSet(V) /\ V # {}
  /\ \A w \in V : T[w].number \in 1..Cardinality(V)
  /\ \A n \in 1..Cardinality(V) : \E w \in V : T[w].number = n
  /\ \A w, x \in V : T[w].number = T[x].number => w = x
  /\ \A w, x \in V : T[x].number = T[w].number + 1 => T[w].to = T[x].from
  /\ \A w \in V : T[w].to = None <=> T[w].number = Cardinality(V)
  /\ \A w \in V : T[w].to # None => T[w].from < T[w].to

\* Every recipe has versions, and they are tiled.
TileInv ==
  /\ recipes \in [RecipeIds -> Nat \cup {None}]
  /\ recipeVersions \in [VersionIds -> RecipeVersion \cup {None}]
  /\ \A w \in VersionIds : recipeVersions[w] # None => recipes[recipeVersions[w].recipe] # None
  /\ \A r \in RecipeIds : recipes[r] # None => Tiled(recipeVersions, VersionsOf(r))

\* A version alone is in force from its date on.
LEMMA FirstTile ==
  ASSUME NEW T, NEW id, T[id].number = 1, T[id].to = None
  PROVE  Tiled(T, {id})
<1>1. IsFiniteSet({id}) /\ Cardinality({id}) = 1
  BY FS_Singleton
<1> QED
  BY <1>1 DEF Tiled

\* The rows of two tables agree on the versions.
LEMMA SameTiles ==
  ASSUME NEW T, NEW U, NEW V, Tiled(T, V), \A w \in V : U[w] = T[w]
  PROVE  Tiled(U, V)
BY DEF Tiled

\* Ending the version in force where the new one begins leaves no gap and no overlap.
LEMMA NextTile ==
  ASSUME NEW V \in SUBSET VersionIds, NEW T, NEW U, NEW id, id \notin V, Tiled(T, V),
         \A w \in V : T[w] \in RecipeVersion,
         U[id] \in RecipeVersion, U[id].to = None,
         \A w \in V : T[w].number < U[id].number,
         U[id].number - 1 = 0 \/ \E w \in V : T[w].number = U[id].number - 1,
         NEW last \in V, T[last].to = None, T[last].from < U[id].from,
         U[last] = [T[last] EXCEPT !.to = U[id].from], \A w \in V \ {last} : U[w] = T[w]
  PROVE  Tiled(U, V \cup {id})
<1> DEFINE n == Cardinality(V)
<1>1. /\ IsFiniteSet(V) /\ n \in Nat /\ n >= 1
      /\ IsFiniteSet(V \cup {id}) /\ Cardinality(V \cup {id}) = n + 1
  <2>1. IsFiniteSet(V) /\ n \in Nat
    BY FS_CardinalityType DEF Tiled
  <2>2. \E w \in V : T[w].number \in 1..n
    BY DEF Tiled
  <2>3. IsFiniteSet(V \cup {id}) /\ Cardinality(V \cup {id}) = n + 1
    BY <2>1, FS_AddElement
  <2> QED
    BY <2>1, <2>2, <2>3
<1>2. U[id].number = n + 1
  <2>1. U[id].number \in Nat
    BY DEF RecipeVersion
  <2>2. \A w \in V : T[w].number \in 1..n /\ T[w].number < U[id].number
    BY DEF Tiled
  <2>3. \E w \in V : T[w].number = n
    BY <1>1 DEF Tiled
  <2>4. n < U[id].number
    BY <2>2, <2>3
  <2>5. U[id].number - 1 <= n
    BY <1>1, <2>1, <2>2
  <2> QED
    BY <1>1, <2>1, <2>4, <2>5
<1>3. T[last].number = n
  BY DEF Tiled
<1>4. U[last].to = U[id].from /\ U[last].from = T[last].from /\ U[last].number = n
  BY <1>3 DEF RecipeVersion
<1>5. \A w \in V : U[w].number = T[w].number /\ U[w].from = T[w].from
  BY <1>3, <1>4
<1>6. U[id].from # None /\ U[id].from \in Nat
  BY NoneNumber DEF RecipeVersion
<1>7. \A w \in V : U[w].number \in 1..n
  BY <1>5 DEF Tiled
<1>8. \A w \in V \cup {id} : U[w].number \in 1..(n + 1)
  BY <1>1, <1>2, <1>7
<1>9. \A m \in 1..(n + 1) : \E w \in V \cup {id} : U[w].number = m
  BY <1>1, <1>2, <1>5 DEF Tiled
<1>10. \A w, x \in V \cup {id} : U[w].number = U[x].number => w = x
  BY <1>1, <1>2, <1>5, <1>7 DEF Tiled
<1>11. \A w, x \in V \cup {id} : U[x].number = U[w].number + 1 => U[w].to = U[x].from
  <2>1. ASSUME NEW w \in V, NEW x \in V, U[x].number = U[w].number + 1
        PROVE  U[w].to = U[x].from
    <3>1. w # last
      <4>1. U[x].number \in 1..n /\ U[w].number \in 1..n
        BY <1>7
      <4>2. U[w].number # n
        BY <1>1, <2>1, <4>1
      <4> QED
        BY <1>4, <4>2
    <3> QED
      BY <1>4, <1>5, <2>1, <3>1 DEF Tiled
  <2>2. ASSUME NEW w \in V, U[id].number = U[w].number + 1 PROVE U[w].to = U[id].from
    <3>1. T[w].number = n
      BY <1>1, <1>2, <1>5, <1>7, <2>2
    <3>2. w = last
      BY <1>3, <3>1 DEF Tiled
    <3> QED
      BY <1>4, <3>2
  <2>3. ASSUME NEW x \in V \cup {id} PROVE U[x].number # U[id].number + 1
    BY <1>1, <1>2, <1>8
  <2> QED
    BY <2>1, <2>2, <2>3
<1>12. \A w \in V \cup {id} : U[w].to = None <=> U[w].number = n + 1
  <2>1. ASSUME NEW w \in V PROVE U[w].to # None /\ U[w].number # n + 1
    <3>1. CASE w = last
      <4>1. U[w].to # None /\ U[w].number = n
        BY <1>4, <1>6, <3>1
      <4> QED
        BY <1>1, <4>1
    <3>2. CASE w # last
      <4>1. T[w].number # n
        BY <1>3, <3>2 DEF Tiled
      <4> QED
        BY <1>1, <1>4, <1>7, <3>2, <4>1 DEF Tiled
    <3> QED
      BY <3>1, <3>2
  <2> QED
    BY <1>2, <2>1
<1>13. \A w \in V \cup {id} : U[w].to # None => U[w].from < U[w].to
  <2>1. ASSUME NEW w \in V PROVE U[w].to # None => U[w].from < U[w].to
    BY <1>3, <1>4 DEF Tiled
  <2> QED
    BY <2>1
<1> QED
  BY <1>1, <1>8, <1>9, <1>10, <1>11, <1>12, <1>13 DEF Tiled

\* A new recipe has one version.
LEMMA CreateKeepsTiles ==
  ASSUME TileInv, NEW id \in VersionIds, NEW v \in RecipeVersion, v.to = None,
         handleCreateRecipe(v.recipe, id, v)
  PROVE  TileInv'
<1> PICK r \in RecipeIds : r = v.recipe
  BY DEF RecipeVersion
<1>1. /\ recipes[r] = None /\ recipes' = [recipes EXCEPT ![r] = 1]
      /\ recipeVersions[id] = None /\ recipeVersions' = [recipeVersions EXCEPT ![id] = v]
      /\ v.number = 1
  BY DEF handleCreateRecipe, CreateRecipe, insertRecipeVersion
<1>2. /\ recipes \in [RecipeIds -> Nat \cup {None}]
      /\ recipeVersions \in [VersionIds -> RecipeVersion \cup {None}]
      /\ \A w \in VersionIds : recipeVersions[w] # None => recipes[recipeVersions[w].recipe] # None
  BY DEF TileInv
<1>3. v # None /\ 1 # None
  BY GraphAssumption, NoneNumber
<1>4. /\ recipes' \in [RecipeIds -> Nat \cup {None}]
      /\ recipeVersions' \in [VersionIds -> RecipeVersion \cup {None}]
  BY <1>1, <1>2
<1>5. \A w \in VersionIds : recipeVersions'[w] # None => recipes'[recipeVersions'[w].recipe] # None
  <2> SUFFICES ASSUME NEW w \in VersionIds, recipeVersions'[w] # None
               PROVE  recipes'[recipeVersions'[w].recipe] # None
    OBVIOUS
  <2>1. CASE w = id
    BY <1>1, <1>2, <1>3, <2>1
  <2>2. CASE w # id
    <3>1. recipeVersions'[w] = recipeVersions[w] /\ recipeVersions[w] \in RecipeVersion
      BY <1>1, <1>2, <2>2
    <3> PICK q \in RecipeIds : q = recipeVersions[w].recipe
      BY <3>1 DEF RecipeVersion
    <3>2. recipes[q] # None
      BY <1>2, <3>1
    <3> QED
      BY <1>1, <1>2, <1>3, <3>1, <3>2
  <2> QED
    BY <2>1, <2>2
<1>6. ASSUME NEW q \in RecipeIds, recipes'[q] # None
      PROVE  Tiled(recipeVersions', VersionsOf(q)')
  <2>1. CASE q = r
    <3>1. VersionsOf(q)' = {id}
      BY <1>1, <1>2, <1>3, <2>1 DEF VersionsOf
    <3>2. recipeVersions'[id] = v
      BY <1>1, <1>2
    <3>3. Tiled(recipeVersions', {id})
      BY <1>1, <3>2, FirstTile
    <3> QED
      BY <3>1, <3>3
  <2>2. CASE q # r
    <3>1. recipes[q] # None
      BY <1>1, <1>2, <1>6, <2>2
    <3>2. VersionsOf(q)' = VersionsOf(q)
      BY <1>1, <1>2, <1>3, <2>2 DEF VersionsOf
    <3>3. \A w \in VersionsOf(q) : recipeVersions'[w] = recipeVersions[w]
      BY <1>1, <1>2 DEF VersionsOf
    <3>4. Tiled(recipeVersions, VersionsOf(q))
      BY <3>1 DEF TileInv
    <3>5. Tiled(recipeVersions', VersionsOf(q))
      BY <3>3, <3>4, SameTiles
    <3> QED
      BY <3>2, <3>5
  <2> QED
    BY <2>1, <2>2
<1>7. (\A q \in RecipeIds : recipes[q] # None => Tiled(recipeVersions, VersionsOf(q)))'
  BY <1>6
<1> QED
  BY <1>4, <1>5, <1>7 DEF TileInv

\* A further version ends the one in force.
LEMMA AddKeepsTiles ==
  ASSUME TileInv, NEW id \in VersionIds, NEW v \in RecipeVersion, v.to = None,
         handleAddRecipeVersion(id, v)
  PROVE  TileInv'
<1> PICK r \in RecipeIds : r = v.recipe
  BY DEF RecipeVersion
<1> DEFINE current == {w \in VersionsOf(r) : recipeVersions[w].to = None /\ recipeVersions[w].from < v.from}
           closed == [w \in VersionIds |->
                       IF w \in current THEN [recipeVersions[w] EXCEPT !.to = v.from] ELSE recipeVersions[w]]
<1>1. /\ Exists(recipes, r) /\ recipes' = [recipes EXCEPT ![r] = @ + 1]
      /\ NextNumber(v.number, {recipeVersions[w].number : w \in VersionsOf(r)})
      /\ Cardinality(current) = 1
      /\ closed[id] = None /\ recipeVersions' = [closed EXCEPT ![id] = v]
  BY DEF handleAddRecipeVersion, AddRecipeVersion, insertRecipeVersion
<1>2. /\ recipes \in [RecipeIds -> Nat \cup {None}]
      /\ recipeVersions \in [VersionIds -> RecipeVersion \cup {None}]
      /\ \A w \in VersionIds : recipeVersions[w] # None => recipes[recipeVersions[w].recipe] # None
  BY DEF TileInv
<1>3. v # None /\ v.from \in Nat
  BY GraphAssumption DEF RecipeVersion
<1>4. recipes[r] \in Nat /\ recipes[r] + 1 # None
  BY <1>1, <1>2, NoneNumber DEF Exists
<1>5. \A w \in current : /\ recipeVersions[w] \in RecipeVersion
                         /\ [recipeVersions[w] EXCEPT !.to = v.from] \in RecipeVersion
                         /\ [recipeVersions[w] EXCEPT !.to = v.from].recipe = r
                         /\ recipeVersions[w].recipe = r
  <2> SUFFICES ASSUME NEW w \in current
               PROVE  /\ recipeVersions[w] \in RecipeVersion
                      /\ [recipeVersions[w] EXCEPT !.to = v.from] \in RecipeVersion
                      /\ [recipeVersions[w] EXCEPT !.to = v.from].recipe = r
                      /\ recipeVersions[w].recipe = r
    OBVIOUS
  <2>1. recipeVersions[w] \in RecipeVersion /\ recipeVersions[w].recipe = r
    BY <1>2 DEF VersionsOf
  <2> PICK x \in RecipeVersion : x = recipeVersions[w]
    BY <2>1
  <2>2. [x EXCEPT !.to = v.from] \in RecipeVersion /\ [x EXCEPT !.to = v.from].recipe = x.recipe
    BY <1>3 DEF RecipeVersion
  <2> QED
    BY <2>1, <2>2
<1>6. closed \in [VersionIds -> RecipeVersion \cup {None}]
  BY <1>2, <1>5
<1>7. /\ recipes' \in [RecipeIds -> Nat \cup {None}]
      /\ recipeVersions' \in [VersionIds -> RecipeVersion \cup {None}]
  BY <1>1, <1>2, <1>4, <1>6
<1>8. id \notin current /\ recipeVersions[id] = None
  BY <1>1, <1>5, GraphAssumption
<1>9. \A w \in VersionIds \ {id} :
        /\ recipeVersions'[w] = closed[w]
        /\ (recipeVersions'[w] # None) <=> (recipeVersions[w] # None)
        /\ recipeVersions[w] # None => recipeVersions'[w].recipe = recipeVersions[w].recipe
  <2> SUFFICES ASSUME NEW w \in VersionIds \ {id}
               PROVE  /\ recipeVersions'[w] = closed[w]
                      /\ (recipeVersions'[w] # None) <=> (recipeVersions[w] # None)
                      /\ recipeVersions[w] # None => recipeVersions'[w].recipe = recipeVersions[w].recipe
    OBVIOUS
  <2>1. recipeVersions'[w] = closed[w]
    BY <1>1, <1>6
  <2>2. CASE w \in current
    BY <1>5, <2>1, <2>2, GraphAssumption
  <2>3. CASE w \notin current
    BY <2>1, <2>3
  <2> QED
    BY <2>1, <2>2, <2>3
<1>10. recipeVersions'[id] = v
  BY <1>1, <1>6
<1>11. \A w \in VersionIds : recipeVersions'[w] # None => recipes'[recipeVersions'[w].recipe] # None
  <2> SUFFICES ASSUME NEW w \in VersionIds, recipeVersions'[w] # None
               PROVE  recipes'[recipeVersions'[w].recipe] # None
    OBVIOUS
  <2>1. CASE w = id
    BY <1>1, <1>2, <1>4, <1>10, <2>1
  <2>2. CASE w # id
    <3>1. recipeVersions[w] # None /\ recipeVersions[w] \in RecipeVersion
          /\ recipeVersions'[w].recipe = recipeVersions[w].recipe
      BY <1>2, <1>9, <2>2
    <3> PICK q \in RecipeIds : q = recipeVersions[w].recipe
      BY <3>1 DEF RecipeVersion
    <3>2. recipes[q] # None
      BY <1>2, <3>1
    <3> QED
      BY <1>1, <1>2, <1>4, <3>1, <3>2
  <2> QED
    BY <2>1, <2>2
<1>12. ASSUME NEW q \in RecipeIds, recipes'[q] # None
       PROVE  Tiled(recipeVersions', VersionsOf(q)')
  <2>1. recipes[q] # None
    BY <1>1, <1>2, <1>12 DEF Exists
  <2>2. Tiled(recipeVersions, VersionsOf(q))
    BY <2>1 DEF TileInv
  <2>3. CASE q = r
    <3> PICK V \in SUBSET VersionIds : V = VersionsOf(r)
      BY DEF VersionsOf
    <3>1. VersionsOf(q)' = V \cup {id}
      BY <1>3, <1>8, <1>9, <1>10, <2>3 DEF VersionsOf
    <3>2. id \notin V
      BY <1>8 DEF VersionsOf
    <3>3. \A w \in V : recipeVersions[w] \in RecipeVersion
      BY <1>2 DEF VersionsOf
    <3>4. PICK last : current = {last}
      <4>1. IsFiniteSet(current)
        BY GraphAssumption, FS_Subset DEF VersionsOf
      <4> HIDE DEF current
      <4> QED
        BY <1>1, <4>1, FS_Singleton
    <3>5. /\ last \in V /\ recipeVersions[last].to = None /\ recipeVersions[last].from < v.from
          /\ recipeVersions'[last] = [recipeVersions[last] EXCEPT !.to = v.from]
          /\ \A w \in V \ {last} : recipeVersions'[w] = recipeVersions[w]
      <4>1. last \in current /\ \A w \in V \ {last} : w \notin current
        BY <3>4
      <4> QED
        BY <1>9, <3>2, <4>1
    <3>6. /\ \A w \in V : recipeVersions[w].number < v.number
          /\ v.number - 1 = 0 \/ \E w \in V : recipeVersions[w].number = v.number - 1
      <4>1. NextNumber(v.number, {recipeVersions[w].number : w \in V})
        BY <1>1
      <4> QED
        BY <4>1 DEF NextNumber
    <3>7. Tiled(recipeVersions, V)
      BY <2>2, <2>3
    <3> HIDE DEF current, closed
    <3> PICK T, U : T = recipeVersions /\ U = recipeVersions'
      OBVIOUS
    <3>8. U[id] \in RecipeVersion /\ U[id].to = None
      BY <1>10
    <3>9. /\ \A w \in V : T[w] \in RecipeVersion /\ T[w].number < U[id].number
          /\ U[id].number - 1 = 0 \/ \E w \in V : T[w].number = U[id].number - 1
      BY <1>10, <3>3, <3>6
    <3>10. /\ last \in V /\ T[last].to = None /\ T[last].from < U[id].from
           /\ U[last] = [T[last] EXCEPT !.to = U[id].from]
           /\ \A w \in V \ {last} : U[w] = T[w]
      BY <1>10, <3>5
    <3>11. Tiled(T, V)
      BY <3>7
    <3>12. Tiled(U, V \cup {id})
      BY <3>2, <3>8, <3>9, <3>10, <3>11, NextTile
    <3> QED
      BY <3>1, <3>12
  <2>4. CASE q # r
    <3>1. VersionsOf(q)' = VersionsOf(q)
      BY <1>3, <1>8, <1>9, <1>10, <2>4 DEF VersionsOf
    <3>2. \A w \in VersionsOf(q) : w # id /\ w \notin current
      BY <1>8, <2>4 DEF VersionsOf
    <3>3. \A w \in VersionsOf(q) : recipeVersions'[w] = recipeVersions[w]
      BY <1>9, <3>2 DEF VersionsOf
    <3>4. Tiled(recipeVersions', VersionsOf(q))
      BY <2>2, <3>3, SameTiles
    <3> QED
      BY <3>1, <3>4
  <2> QED
    BY <2>3, <2>4
<1>13. (\A q \in RecipeIds : recipes[q] # None => Tiled(recipeVersions, VersionsOf(q)))'
  BY <1>12
<1> QED
  BY <1>7, <1>11, <1>13 DEF TileInv

\* Units, ingredients and menu items leave the recipes alone.
LEMMA TileFrame ==
  ASSUME TileInv, UNCHANGED <<recipes, recipeVersions>>
  PROVE  TileInv'
<1>1. \A r : VersionsOf(r)' = VersionsOf(r)
  BY DEF VersionsOf
<1> QED
  BY <1>1 DEF TileInv

VersionAt(T, V, n) == CHOOSE w \in V : T[w].number = n

\* The tiling in the words of RecipeHistoryTiles.
LEMMA TilesToHistory ==
  ASSUME NEW T, NEW V, Tiled(T, V)
  PROVE  /\ {T[w].number : w \in V} = 1..Cardinality(V)
         /\ \A n \in 1..(Cardinality(V) - 1) : T[VersionAt(T, V, n)].to = T[VersionAt(T, V, n + 1)].from
         /\ \A w \in V : T[w].to = None \/ T[w].from < T[w].to
         /\ {w \in V : T[w].to = None} = {VersionAt(T, V, Cardinality(V))}
<1> DEFINE at(n) == VersionAt(T, V, n)
<1>1. Cardinality(V) \in Nat /\ Cardinality(V) >= 1
  <2>1. IsFiniteSet(V) /\ \E w \in V : T[w].number \in 1..Cardinality(V)
    BY DEF Tiled
  <2> QED
    BY <2>1, FS_CardinalityType
<1>2. \A n \in 1..Cardinality(V) : at(n) \in V /\ T[at(n)].number = n
  <2> SUFFICES ASSUME NEW n \in 1..Cardinality(V) PROVE at(n) \in V /\ T[at(n)].number = n
    OBVIOUS
  <2>1. \E w \in V : T[w].number = n
    BY DEF Tiled
  <2> QED
    BY <2>1 DEF VersionAt
<1> HIDE DEF at
<1>3. {T[w].number : w \in V} = 1..Cardinality(V)
  BY DEF Tiled
<1>4. \A n \in 1..(Cardinality(V) - 1) : T[at(n)].to = T[at(n + 1)].from
  <2> SUFFICES ASSUME NEW n \in 1..(Cardinality(V) - 1) PROVE T[at(n)].to = T[at(n + 1)].from
    OBVIOUS
  <2>1. n \in 1..Cardinality(V) /\ n + 1 \in 1..Cardinality(V)
    BY <1>1
  <2>2. PICK w, x \in V : w = at(n) /\ x = at(n + 1) /\ T[w].number = n /\ T[x].number = n + 1
    BY <1>2, <2>1
  <2> QED
    BY <2>2 DEF Tiled
<1>5. \A w \in V : T[w].to = None \/ T[w].from < T[w].to
  BY DEF Tiled
<1>6. {w \in V : T[w].to = None} = {at(Cardinality(V))}
  <2>1. PICK x \in V : x = at(Cardinality(V)) /\ T[x].number = Cardinality(V)
    BY <1>1, <1>2
  <2>2. \A w \in V : T[w].to = None <=> w = x
    BY <2>1 DEF Tiled
  <2> QED
    BY <2>1, <2>2
<1> QED
  BY <1>3, <1>4, <1>5, <1>6 DEF at

\* For every set of ids: the versions of a recipe are numbered without gaps,
\* each ends where the next begins and one is in force, whatever versions
\* were refused in between (AddRecipeVersion).
THEOREM RecipesAreTiled == GraphSpec => []RecipeHistoryTiles
<1> USE DEF graphVars
<1>1. ASSUME GraphInit PROVE TileInv
  <2>1. /\ recipes = [r \in RecipeIds |-> IF \E v \in DOMAIN KnownVersions : KnownVersions[v].recipe = r THEN 1 ELSE None]
        /\ recipeVersions = [id \in VersionIds |-> IF id \in DOMAIN KnownVersions THEN KnownVersions[id] ELSE None]
    BY <1>1 DEF GraphInit
  <2>2. recipes \in [RecipeIds -> Nat \cup {None}]
    BY <2>1
  <2>3. recipeVersions \in [VersionIds -> RecipeVersion \cup {None}]
    BY <2>1, GraphAssumption
  <2>4. \A w \in VersionIds : recipeVersions[w] # None => recipes[recipeVersions[w].recipe] # None
    <3> SUFFICES ASSUME NEW w \in VersionIds, recipeVersions[w] # None
                 PROVE  recipes[recipeVersions[w].recipe] # None
      OBVIOUS
    <3>1. w \in DOMAIN KnownVersions /\ recipeVersions[w] = KnownVersions[w]
      BY <2>1
    <3>2. recipeVersions[w].recipe \in RecipeIds
      BY <3>1, GraphAssumption DEF RecipeVersion
    <3> QED
      BY <2>1, <3>1, <3>2, NoneNumber
  <2>5. ASSUME NEW r \in RecipeIds, recipes[r] # None PROVE Tiled(recipeVersions, VersionsOf(r))
    <3>1. PICK id \in DOMAIN KnownVersions : KnownVersions[id].recipe = r
      BY <2>1, <2>5
    <3>2. id \in VersionIds /\ recipeVersions[id] = KnownVersions[id] /\ recipeVersions[id] # None
      BY <2>1, GraphAssumption
    <3>3. VersionsOf(r) = {id}
      BY <2>1, <3>1, <3>2, GraphAssumption DEF VersionsOf
    <3>4. recipeVersions[id].number = 1 /\ recipeVersions[id].to = None
      BY <3>2, GraphAssumption
    <3>5. Tiled(recipeVersions, {id})
      BY <3>4, FirstTile
    <3> QED
      BY <3>3, <3>5
  <2> QED
    BY <2>2, <2>3, <2>4, <2>5 DEF TileInv
<1>2. ASSUME TileInv, [GraphNext]_<<audits, graphVars>> PROVE TileInv'
  <2>1. CASE UNCHANGED <<audits, graphVars>>
    BY <1>2, <2>1, TileFrame
  <2>2. ASSUME NEW id \in VersionIds, NEW v \in VersionInput,
               handleCreateRecipe(v.recipe, id, v) \/ handleAddRecipeVersion(id, v)
        PROVE  TileInv'
    <3>1. v \in RecipeVersion /\ v.to = None
      BY DEF VersionInput, RecipeVersion, Component
    <3> QED
      BY <1>2, <2>2, <3>1, CreateKeepsTiles, AddKeepsTiles
  <2>3. ASSUME NEW u, NEW x, handleCreateUnit(u, x) PROVE TileInv'
    BY <1>2, <2>3, TileFrame DEF handleCreateUnit, CreateUnit
  <2>4. ASSUME NEW i, NEW u, handleCreateIngredient(i, u) PROVE TileInv'
    BY <1>2, <2>4, TileFrame DEF handleCreateIngredient, CreateIngredient
  <2>5. ASSUME NEW m, NEW x, handleCreateMenuItem(m, x) PROVE TileInv'
    BY <1>2, <2>5, TileFrame DEF handleCreateMenuItem, CreateMenuItem
  <2> QED
    BY <1>2, <2>1, <2>2, <2>3, <2>4, <2>5, Zenon DEF GraphNext
<1>3. ASSUME TileInv PROVE RecipeHistoryTiles
  <2> SUFFICES ASSUME NEW r \in RecipeIds, recipes[r] # None
               PROVE  LET versions == VersionsOf(r)
                          at(n) == CHOOSE w \in versions : recipeVersions[w].number = n
                          last == Cardinality(versions)
                      IN /\ {recipeVersions[w].number : w \in versions} = 1..last
                         /\ \A n \in 1..(last - 1) : recipeVersions[at(n)].to = recipeVersions[at(n + 1)].from
                         /\ \A w \in versions : recipeVersions[w].to = None \/ recipeVersions[w].from < recipeVersions[w].to
                         /\ {w \in versions : recipeVersions[w].to = None} = {at(last)}
    BY DEF RecipeHistoryTiles, Exists
  <2> PICK V : V = VersionsOf(r)
    OBVIOUS
  <2>1. Tiled(recipeVersions, V)
    BY <1>3 DEF TileInv
  <2>2. /\ {recipeVersions[w].number : w \in V} = 1..Cardinality(V)
        /\ \A n \in 1..(Cardinality(V) - 1) :
             recipeVersions[VersionAt(recipeVersions, V, n)].to = recipeVersions[VersionAt(recipeVersions, V, n + 1)].from
        /\ \A w \in V : recipeVersions[w].to = None \/ recipeVersions[w].from < recipeVersions[w].to
        /\ {w \in V : recipeVersions[w].to = None} = {VersionAt(recipeVersions, V, Cardinality(V))}
    BY <2>1, TilesToHistory
  <2> QED
    BY <2>2 DEF VersionAt
<1> QED
  BY <1>1, <1>2, <1>3, PTL DEF GraphSpec

-----------------------------------------------------------------------------
(* Sums *)

Amounted(f) == IsFiniteSet(DOMAIN f) /\ \A x \in DOMAIN f : f[x] \in Int

\* A unit belongs to one amount.
LEMMA UnitsOf ==
  ASSUME NEW f, NEW u
  PROVE  u \in Units(f) <=> \E x \in DOMAIN f : \E k \in 1..f[x] : u = <<x, k>>
BY DEF Units

\* The amounts have finitely many units.
LEMMA UnitsFinite ==
  ASSUME NEW f, Amounted(f)
  PROVE  IsFiniteSet(Units(f)) /\ Cardinality(Units(f)) \in Nat
<1> DEFINE part == [x \in DOMAIN f |-> {x} \X (1..f[x])]
           parts == {{x} \X (1..f[x]) : x \in DOMAIN f}
<1>1. part \in Surjection(DOMAIN f, parts)
  BY DEF Surjection
<1>2. IsFiniteSet(parts)
  <2> HIDE DEF part, parts
  <2> QED BY <1>1, FS_Surjection DEF Amounted
<1>3. \A T \in parts : IsFiniteSet(T)
  <2>1. ASSUME NEW x \in DOMAIN f PROVE IsFiniteSet({x} \X (1..f[x]))
    <3>1. IsFiniteSet({x}) /\ f[x] \in Int
      BY FS_Singleton DEF Amounted
    <3>2. IsFiniteSet(1..f[x])
      BY <3>1, FS_Interval
    <3> QED BY <3>1, <3>2, FS_Product
  <2> QED BY <2>1
<1>4. IsFiniteSet(UNION parts)
  <2> HIDE DEF parts
  <2> QED BY <1>2, <1>3, FS_UNION
<1> QED BY <1>4, FS_CardinalityType DEF Units

\* The units of disjoint parts are counted apart.
LEMMA UnitsDisjoint ==
  ASSUME NEW f, NEW g, NEW h, Amounted(f), Amounted(g),
         DOMAIN f \cap DOMAIN g = {}, DOMAIN h = DOMAIN f \cup DOMAIN g,
         \A x \in DOMAIN f : h[x] = f[x], \A x \in DOMAIN g : h[x] = g[x]
  PROVE  Cardinality(Units(h)) = Cardinality(Units(f)) + Cardinality(Units(g))
<1>1. Units(h) = Units(f) \cup Units(g)
  BY DEF Units
<1>2. Units(f) \cap Units(g) = {}
  BY UnitsOf
<1>3. /\ IsFiniteSet(Units(f)) /\ Cardinality(Units(f)) \in Nat
      /\ IsFiniteSet(Units(g)) /\ Cardinality(Units(g)) \in Nat
  BY UnitsFinite
<1>4. Cardinality(Units(f) \cup Units(g)) = Cardinality(Units(f)) + Cardinality(Units(g)) - Cardinality({})
  BY <1>2, <1>3, FS_Union
<1> QED BY <1>1, <1>3, <1>4, FS_EmptySet

\* The negated amounts are amounts.
LEMMA Negated ==
  ASSUME NEW f, Amounted(f)
  PROVE  Amounted([x \in DOMAIN f |-> -f[x]])
BY DEF Amounted

\* The sum of disjoint parts is the sum of their sums.
LEMMA SumUnion ==
  ASSUME NEW f, NEW g, NEW h, Amounted(f), Amounted(g),
         DOMAIN f \cap DOMAIN g = {}, DOMAIN h = DOMAIN f \cup DOMAIN g,
         \A x \in DOMAIN f : h[x] = f[x], \A x \in DOMAIN g : h[x] = g[x]
  PROVE  Amounted(h) /\ SumOf(h) = SumOf(f) + SumOf(g)
<1>1. Amounted(h)
  BY FS_Union DEF Amounted
<1>2. Cardinality(Units(h)) = Cardinality(Units(f)) + Cardinality(Units(g))
  BY UnitsDisjoint
<1>3. PICK fn, gn, hn : /\ fn = [x \in DOMAIN f |-> -f[x]] /\ gn = [x \in DOMAIN g |-> -g[x]]
                        /\ hn = [x \in DOMAIN h |-> -h[x]]
  OBVIOUS
<1>4. Amounted(fn) /\ Amounted(gn)
  BY <1>3, Negated
<1>5. /\ DOMAIN fn \cap DOMAIN gn = {} /\ DOMAIN hn = DOMAIN fn \cup DOMAIN gn
      /\ \A x \in DOMAIN fn : hn[x] = fn[x]
      /\ \A x \in DOMAIN gn : hn[x] = gn[x]
  BY <1>3
<1>6. Cardinality(Units(hn)) = Cardinality(Units(fn)) + Cardinality(Units(gn))
  BY <1>4, <1>5, UnitsDisjoint
<1>7. /\ SumOf(h) = Cardinality(Units(h)) - Cardinality(Units(hn))
      /\ SumOf(f) = Cardinality(Units(f)) - Cardinality(Units(fn))
      /\ SumOf(g) = Cardinality(Units(g)) - Cardinality(Units(gn))
  BY <1>3 DEF SumOf
<1> QED BY <1>1, <1>2, <1>4, <1>6, <1>7, UnitsFinite

\* A sum of whole amounts is whole.
LEMMA SumInt ==
  ASSUME NEW f, Amounted(f)
  PROVE  SumOf(f) \in Int
BY UnitsFinite, Negated DEF SumOf

\* Nothing counts as nothing, amounts that are not negative count in.
LEMMA SumNat ==
  ASSUME NEW f, Amounted(f), \A x \in DOMAIN f : f[x] >= 0
  PROVE  SumOf(f) \in Nat
<1>1. PICK fn : fn = [x \in DOMAIN f |-> -f[x]]
  OBVIOUS
<1>2. \A x \in DOMAIN fn : 1..fn[x] = {}
  BY <1>1 DEF Amounted
<1>3. Units(fn) = {}
  BY <1>2 DEF Units
<1> QED BY <1>1, <1>3, UnitsFinite, FS_EmptySet DEF SumOf

\* Nothing adds up to nothing.
LEMMA SumEmpty ==
  ASSUME NEW f, DOMAIN f = {}
  PROVE  Amounted(f) /\ SumOf(f) = 0
<1>1. PICK fn : fn = [x \in DOMAIN f |-> -f[x]]
  OBVIOUS
<1>2. Units(fn) = {} /\ Units(f) = {}
  BY <1>1 DEF Units
<1> QED BY <1>1, <1>2, FS_EmptySet DEF SumOf, Amounted

\* One amount that is not negative has that many units.
LEMMA UnitsOne ==
  ASSUME NEW f, NEW x, DOMAIN f = {x}, f[x] \in Int
  PROVE  Cardinality(Units(f)) = IF f[x] >= 0 THEN f[x] ELSE 0
<1>1. Units(f) = {x} \X (1..f[x])
  BY DEF Units
<1>2. IsFiniteSet({x}) /\ Cardinality({x}) = 1
  BY FS_Singleton
<1>3. IsFiniteSet(1..f[x]) /\ Cardinality(1..f[x]) = IF 1 > f[x] THEN 0 ELSE f[x] - 1 + 1
  BY FS_Interval
<1>4. Cardinality({x} \X (1..f[x])) = 1 * Cardinality(1..f[x])
  BY <1>2, <1>3, FS_Product
<1> QED BY <1>1, <1>3, <1>4

\* One amount is its own sum.
LEMMA SumOne ==
  ASSUME NEW f, NEW x, DOMAIN f = {x}, f[x] \in Int
  PROVE  Amounted(f) /\ SumOf(f) = f[x]
<1>1. PICK fn : fn = [y \in DOMAIN f |-> -f[y]]
  OBVIOUS
<1>2. DOMAIN fn = {x} /\ fn[x] = -f[x] /\ fn[x] \in Int
  BY <1>1
<1>3. Cardinality(Units(fn)) = IF fn[x] >= 0 THEN fn[x] ELSE 0
  BY <1>2, UnitsOne
<1>4. Cardinality(Units(f)) = IF f[x] >= 0 THEN f[x] ELSE 0
  BY UnitsOne
<1>5. SumOf(f) = Cardinality(Units(f)) - Cardinality(Units(fn))
  BY <1>1 DEF SumOf
<1>6. SumOf(f) = f[x]
  BY <1>2, <1>3, <1>4, <1>5
<1>7. IsFiniteSet({x})
  BY FS_Singleton
<1> QED BY <1>6, <1>7 DEF Amounted

\* One more amount is added to the sum.
LEMMA SumAdd ==
  ASSUME NEW f, NEW h, NEW x, Amounted(f), x \notin DOMAIN f,
         DOMAIN h = DOMAIN f \cup {x}, \A y \in DOMAIN f : h[y] = f[y], h[x] \in Int
  PROVE  Amounted(h) /\ SumOf(h) = SumOf(f) + h[x]
<1>1. PICK g : g = [y \in {x} |-> h[y]]
  OBVIOUS
<1>2. DOMAIN g = {x} /\ g[x] = h[x]
  BY <1>1
<1>3. Amounted(g) /\ SumOf(g) = h[x]
  BY <1>2, SumOne
<1>4. DOMAIN f \cap DOMAIN g = {} /\ DOMAIN h = DOMAIN f \cup DOMAIN g
  BY <1>2
<1>5. \A y \in DOMAIN g : h[y] = g[y]
  BY <1>2
<1>6. Amounted(h) /\ SumOf(h) = SumOf(f) + SumOf(g)
  BY <1>3, <1>4, <1>5, SumUnion
<1> QED BY <1>3, <1>6

\* The sum of the negated amounts is the negated sum.
LEMMA SumNegated ==
  ASSUME NEW f, Amounted(f)
  PROVE  SumOf([x \in DOMAIN f |-> -f[x]]) = -SumOf(f)
<1>1. PICK g : g = [x \in DOMAIN f |-> -f[x]]
  OBVIOUS
<1>2. PICK h : h = [x \in DOMAIN g |-> -g[x]]
  OBVIOUS
<1>4. Units(h) = Units(f)
  <2>1. DOMAIN h = DOMAIN f /\ \A x \in DOMAIN f : h[x] = f[x]
    BY <1>1, <1>2 DEF Amounted
  <2> QED BY <2>1 DEF Units
<1>5. Cardinality(Units(f)) \in Nat /\ Cardinality(Units(g)) \in Nat
  BY <1>1, UnitsFinite, Negated
<1> QED BY <1>1, <1>2, <1>4, <1>5 DEF SumOf

\* A sum does not depend on what its amounts are listed by.
LEMMA SumReindexed ==
  ASSUME NEW f, NEW g, NEW b \in Bijection(DOMAIN f, DOMAIN g), Amounted(f),
         \A x \in DOMAIN f : g[b[x]] = f[x]
  PROVE  Amounted(g) /\ SumOf(g) = SumOf(f)
<1>1. /\ b \in [DOMAIN f -> DOMAIN g]
      /\ \A x, y \in DOMAIN f : b[x] = b[y] => x = y
      /\ \A z \in DOMAIN g : \E x \in DOMAIN f : b[x] = z
  BY Fun_BijectionProperties
<1>2. Amounted(g)
  <2>1. ExistsBijection(DOMAIN f, DOMAIN g)
    BY DEF ExistsBijection
  <2>2. IsFiniteSet(DOMAIN g)
    BY <2>1, FS_Bijection DEF Amounted
  <2>3. \A z \in DOMAIN g : g[z] \in Int
    BY <1>1 DEF Amounted
  <2> QED BY <2>2, <2>3 DEF Amounted
<1>3. ASSUME NEW p, NEW q, DOMAIN p = DOMAIN f, DOMAIN q = DOMAIN g, Amounted(p), \A x \in DOMAIN p : q[b[x]] = p[x]
      PROVE  Cardinality(Units(q)) = Cardinality(Units(p))
  <2>1. PICK m : m = [u \in Units(p) |-> <<b[u[1]], u[2]>>]
    OBVIOUS
  <2>2. m \in Bijection(Units(p), Units(q))
    <3>1. ASSUME NEW u \in Units(p) PROVE m[u] \in Units(q)
      <4>1. PICK x \in DOMAIN p : \E i \in 1..p[x] : u = <<x, i>>
        BY UnitsOf
      <4>1a. PICK k \in 1..p[x] : u = <<x, k>>
        BY <4>1
      <4>2. m[u] = <<b[x], k>>
        BY <2>1, <4>1a
      <4>3. b[x] \in DOMAIN q /\ k \in 1..q[b[x]]
        BY <1>1, <1>3
      <4> QED BY <4>2, <4>3, UnitsOf
    <3>2. ASSUME NEW u \in Units(p), NEW v \in Units(p), m[u] = m[v] PROVE u = v
      <4>1. PICK x \in DOMAIN p : \E i \in 1..p[x] : u = <<x, i>>
        BY UnitsOf
      <4>1a. PICK k \in 1..p[x] : u = <<x, k>>
        BY <4>1
      <4>2. PICK y \in DOMAIN p : \E i \in 1..p[y] : v = <<y, i>>
        BY UnitsOf
      <4>2a. PICK l \in 1..p[y] : v = <<y, l>>
        BY <4>2
      <4>3. m[u] = <<b[x], k>> /\ m[v] = <<b[y], l>>
        BY <2>1, <4>1a, <4>2a
      <4>4. <<b[x], k>> = <<b[y], l>>
        BY <3>2, <4>3
      <4> QED BY <1>1, <1>3, <4>1a, <4>2a, <4>4
    <3>3. ASSUME NEW w \in Units(q) PROVE \E u \in Units(p) : m[u] = w
      <4>1. PICK z \in DOMAIN q : \E i \in 1..q[z] : w = <<z, i>>
        BY UnitsOf
      <4>1a. PICK k \in 1..q[z] : w = <<z, k>>
        BY <4>1
      <4>2. PICK x \in DOMAIN p : b[x] = z
        BY <1>1, <1>3
      <4>3. k \in 1..p[x]
        BY <1>3, <4>2
      <4>4. <<x, k>> \in Units(p)
        BY <4>3, UnitsOf
      <4>5. m[<<x, k>>] = w
        BY <2>1, <4>1a, <4>2, <4>4
      <4> QED BY <4>4, <4>5
    <3>4. m \in [Units(p) -> Units(q)]
      BY <2>1, <3>1
    <3> QED BY <3>2, <3>3, <3>4, Fun_IsBij
  <2>3. ExistsBijection(Units(p), Units(q))
    BY <2>2 DEF ExistsBijection
  <2> QED BY <1>3, <2>3, UnitsFinite, FS_Bijection
<1>4. Cardinality(Units(g)) = Cardinality(Units(f))
  BY <1>3
<1>5. PICK p, q : p = [x \in DOMAIN f |-> -f[x]] /\ q = [z \in DOMAIN g |-> -g[z]]
  OBVIOUS
<1>6. DOMAIN p = DOMAIN f /\ DOMAIN q = DOMAIN g /\ Amounted(p) /\ \A x \in DOMAIN p : q[b[x]] = p[x]
  BY <1>1, <1>5, Negated
<1>7. Cardinality(Units(q)) = Cardinality(Units(p))
  BY <1>3, <1>6
<1> QED BY <1>2, <1>4, <1>5, <1>7 DEF SumOf

-----------------------------------------------------------------------------
(* Cash shifts, tenders and receipts *)

\* The amounts of the tenders in S, in the table t.
Tendered(t, S) == SumOf([id \in S |-> t[id].amount])
Drawn(S) == SumOf([e \in S |-> e.amount])

\* Tables that agree on the tenders of S agree on their amount.
LEMMA TenderedSame ==
  ASSUME NEW t, NEW u, NEW S, \A id \in S : u[id] = t[id]
  PROVE  Tendered(u, S) = Tendered(t, S)
<1>1. [id \in S |-> u[id].amount] = [id \in S |-> t[id].amount]
  OBVIOUS
<1> QED BY <1>1 DEF Tendered

\* The amounts of disjoint sets of tenders add up.
LEMMA TenderedUnion ==
  ASSUME NEW t, NEW S, NEW T, IsFiniteSet(S), IsFiniteSet(T), S \cap T = {},
         \A id \in S \cup T : t[id].amount \in Nat
  PROVE  /\ Tendered(t, S) \in Nat /\ Tendered(t, T) \in Nat
         /\ Tendered(t, S \cup T) = Tendered(t, S) + Tendered(t, T)
<1>1. PICK f, g, h : /\ f = [id \in S |-> t[id].amount] /\ g = [id \in T |-> t[id].amount]
                     /\ h = [id \in S \cup T |-> t[id].amount]
  OBVIOUS
<1>2. Amounted(f) /\ Amounted(g)
  BY <1>1 DEF Amounted
<1>3. /\ DOMAIN f \cap DOMAIN g = {} /\ DOMAIN h = DOMAIN f \cup DOMAIN g
      /\ (\A x \in DOMAIN f : h[x] = f[x]) /\ \A x \in DOMAIN g : h[x] = g[x]
  BY <1>1
<1>4. SumOf(h) = SumOf(f) + SumOf(g)
  BY <1>2, <1>3, SumUnion
<1>5. (\A x \in DOMAIN f : f[x] >= 0) /\ \A x \in DOMAIN g : g[x] >= 0
  BY <1>1
<1>6. SumOf(f) \in Nat /\ SumOf(g) \in Nat
  BY <1>2, <1>5, SumNat
<1> QED BY <1>1, <1>4, <1>6 DEF Tendered

\* One tender has its own amount.
LEMMA TenderedOne ==
  ASSUME NEW t, NEW id, t[id].amount \in Nat
  PROVE  Tendered(t, {id}) = t[id].amount
<1>1. PICK f : f = [j \in {id} |-> t[j].amount]
  OBVIOUS
<1>2. DOMAIN f = {id} /\ f[id] = t[id].amount
  BY <1>1
<1>3. SumOf(f) = f[id]
  BY <1>2, SumOne
<1> QED BY <1>1, <1>2, <1>3 DEF Tendered

\* No tenders amount to nothing.
LEMMA TenderedNone == \A t : Tendered(t, {}) = 0
BY SumEmpty DEF Tendered

\* The events that ev gives for tenders, and what they move.
EventsIn(ev) == {ev[x] : x \in DOMAIN ev}
MovedBy(ev) == SumOf([x \in DOMAIN ev |-> ev[x].amount])

\* New events of the drawer, one per tender, add what they move.
LEMMA DrawnAdd ==
  ASSUME NEW S, IsFiniteSet(S), \A e \in S : e.amount \in Int,
         NEW ev, IsFiniteSet(DOMAIN ev), \A x \in DOMAIN ev : ev[x] \notin S /\ ev[x].amount \in Int,
         \A x, y \in DOMAIN ev : ev[x] = ev[y] => x = y
  PROVE  /\ Drawn(S) \in Int /\ MovedBy(ev) \in Int
         /\ IsFiniteSet(S \cup EventsIn(ev))
         /\ Drawn(S \cup EventsIn(ev)) = Drawn(S) + MovedBy(ev)
<1>1. PICK E, M, k : E = EventsIn(ev) /\ M = DOMAIN ev /\ k = [x \in M |-> ev[x].amount]
  OBVIOUS
<1>0. E = {ev[x] : x \in M} /\ MovedBy(ev) = SumOf(k)
  BY <1>1 DEF EventsIn, MovedBy
<1>2. PICK f, g, h : /\ f = [e \in S |-> e.amount] /\ g = [e \in E |-> e.amount]
                     /\ h = [e \in S \cup E |-> e.amount]
  OBVIOUS
<1>3. PICK b : b = [x \in M |-> ev[x]]
  OBVIOUS
<1>4. b \in Bijection(DOMAIN k, DOMAIN g)
  <2>1. b \in [M -> E] /\ (\A x, y \in M : b[x] = b[y] => x = y) /\ \A z \in E : \E x \in M : b[x] = z
    BY <1>0, <1>1, <1>3
  <2>2. b \in Bijection(M, E)
    BY <2>1, Fun_IsBij
  <2> QED BY <1>1, <1>2, <2>2
<1>5. Amounted(k) /\ Amounted(f)
  BY <1>1, <1>2 DEF Amounted
<1>6. \A x \in DOMAIN k : g[b[x]] = k[x]
  BY <1>0, <1>1, <1>2, <1>3
<1>7. Amounted(g) /\ SumOf(g) = SumOf(k)
  BY <1>4, <1>5, <1>6, SumReindexed
<1>8. /\ DOMAIN f \cap DOMAIN g = {} /\ DOMAIN h = DOMAIN f \cup DOMAIN g
      /\ (\A x \in DOMAIN f : h[x] = f[x]) /\ \A x \in DOMAIN g : h[x] = g[x]
  BY <1>0, <1>1, <1>2
<1>9. Amounted(h) /\ SumOf(h) = SumOf(f) + SumOf(g)
  BY <1>5, <1>7, <1>8, SumUnion
<1>10. SumOf(f) \in Int /\ SumOf(k) \in Int
  BY <1>5, SumInt
<1>11. IsFiniteSet(S \cup E)
  BY <1>2, <1>9 DEF Amounted
<1> QED BY <1>0, <1>1, <1>2, <1>7, <1>9, <1>10, <1>11 DEF Drawn

Issued == {id \in TenderIds : tenders[id] # None}
EventsOf(h) == {e \in cashEvents : e.shift = h}
CashOf(h, status) == {id \in TenderIds : tenders[id] # None /\ tenders[id].type = "cash"
                                         /\ tenders[id].shift = h /\ tenders[id].status = status}

TillRows ==
  /\ audits \in Nat
  /\ shifts \in [Shifts -> CashShift \cup {None}]
  /\ tenders \in [TenderIds -> Tender \cup {None}] /\ IsFiniteSet(Issued)
  /\ IsFiniteSet(cashEvents)
  /\ \A e \in cashEvents : e.op \in Nat /\ e.op < audits /\ e.amount \in Int

\* A shift that was never opened has no cash; an opened one is balanced.
ShiftBalanced(h) ==
  IF shifts[h] = None THEN EventsOf(h) = {} /\ CashOf(h, "captured") = {} /\ CashOf(h, "reversed") = {}
  ELSE /\ shifts[h].expected = Drawn(EventsOf(h))
       /\ shifts[h].expected = shifts[h].float + Amounts(CashOf(h, "captured")) - Amounts(CashOf(h, "reversed"))
       /\ shifts[h].status = "closed" => shifts[h].variance = shifts[h].count - shifts[h].expected

RefundsOf(id) == {j \in TendersOf(tenders[id].order, "reversed") : tenders[j].reverses = id}

BillRows ==
  /\ bills \in [Bills -> Totalled \cup {None}] /\ receipts \in [Bills -> Totalled \cup {None}]
  /\ \A c \in captures : /\ c.id \in TenderIds /\ c.order \in Bills /\ c.type \in TenderType
                         /\ c.shift \in Shifts \cup {None} /\ c.amount \in Nat
                         /\ bills[c.order] # None /\ c.paid \in Int

\* What a capture saw as paid is still paid: a captured tender stays.
Backed ==
  /\ \A c \in captures : c.paid <= Amounts(TendersOf(c.order, "captured"))
  /\ \A o \in Bills : receipts[o] # None => Amounts(TendersOf(o, "captured")) >= receipts[o].total
  /\ \A id \in TenderIds : tenders[id] # None /\ tenders[id].status = "reversed" =>
       tenders[id].reverses \in TenderIds /\ tenders[tenders[id].reverses] # None
  /\ \A id \in TenderIds : tenders[id] # None /\ tenders[id].status = "captured" =>
       Amounts(RefundsOf(id)) <= tenders[id].amount

TillInv ==
  /\ TillRows /\ BillRows /\ Backed
  /\ \A h \in Shifts : ShiftBalanced(h)

\* A step that books the tenders in N, all new and with one status.
Cash(N, h) == {id \in N : tenders'[id].type = "cash" /\ tenders'[id].shift = h}
Moved(id, status) == IF status = "captured" THEN tenders'[id].amount ELSE -tenders'[id].amount
EventFor(id, status) ==
  [op |-> audits, tender |-> id, shift |-> tenders'[id].shift,
   type |-> IF status = "captured" THEN "cash_sale" ELSE "cash_refund", amount |-> Moved(id, status)]

Booking(N, status) ==
  /\ IsFiniteSet(N) /\ N \subseteq TenderIds /\ audits' = audits + 1
  /\ \A id \in N : tenders[id] = None /\ tenders'[id] \in Tender /\ tenders'[id].status = status
  /\ tenders' \in [TenderIds -> Tender \cup {None}]
  /\ \A id \in TenderIds \ N : tenders'[id] = tenders[id]
  /\ \A id \in N : tenders'[id].type = "cash" =>
       tenders'[id].shift \in Shifts /\ shifts[tenders'[id].shift] # None
       /\ shifts[tenders'[id].shift].status = "open"
  /\ cashEvents' = cashEvents \cup {EventFor(id, status) : id \in {j \in N : tenders'[j].type = "cash"}}
  /\ shifts' \in [Shifts -> CashShift \cup {None}]
  /\ \A h \in Shifts : /\ Cash(N, h) = {} => shifts'[h] = shifts[h]
                       /\ Cash(N, h) # {} => \E d :
                            /\ d = SumOf([id \in Cash(N, h) |-> Moved(id, status)])
                            /\ shifts'[h] = [shifts[h] EXCEPT !.expected = @ + d]

\* What the tables of a booking have of the old rows and of the new ones.
LEMMA BookingRows ==
  ASSUME TillRows, NEW N, NEW status \in {"captured", "reversed"}, Booking(N, status)
  PROVE  TillRows'
<1>1. Issued' = Issued \cup N
  BY CashDeskAssumption DEF Issued, Booking, TillRows
<1>2. IsFiniteSet(Issued')
  BY <1>1, FS_Union DEF Booking, TillRows
<1>3. PICK C : C = {j \in N : tenders'[j].type = "cash"}
  OBVIOUS
<1>4. PICK ev : ev = [id \in C |-> EventFor(id, status)]
  OBVIOUS
<1>5. cashEvents' = cashEvents \cup {ev[id] : id \in C}
  BY <1>3, <1>4 DEF Booking
<1>6. \A id \in C : ev[id].op = audits /\ ev[id].amount \in Int /\ ev[id].tender = id
  <2>1. ASSUME NEW id \in C PROVE ev[id].op = audits /\ ev[id].amount \in Int /\ ev[id].tender = id
    <3>1. tenders'[id].amount \in Nat
      BY <1>3 DEF Booking, Tender
    <3>2. Moved(id, status) \in Int
      BY <3>1 DEF Moved
    <3> QED BY <1>4, <3>2 DEF EventFor
  <2> QED BY <2>1
<1>7. IsFiniteSet(C)
  BY <1>3, FS_Subset DEF Booking
<1>8. IsFiniteSet(cashEvents')
  <2>1. /\ IsFiniteSet(cashEvents) /\ (\A e \in cashEvents : e.amount \in Int)
        /\ DOMAIN ev = C /\ \A x \in C : ev[x] \notin cashEvents /\ ev[x].amount \in Int
    BY <1>4, <1>6 DEF TillRows
  <2>2. \A x, y \in C : ev[x] = ev[y] => x = y
    BY <1>6
  <2>3. IsFiniteSet(cashEvents \cup EventsIn(ev))
    BY <1>7, <2>1, <2>2, DrawnAdd
  <2> QED BY <1>5, <2>1, <2>3 DEF EventsIn
<1>9. \A e \in cashEvents' : e.op \in Nat /\ e.op < audits' /\ e.amount \in Int
  BY <1>5, <1>6 DEF TillRows, Booking
<1> QED BY <1>2, <1>8, <1>9 DEF TillRows, Booking

\* Booking new tenders keeps every shift balanced with its events and its tenders.
LEMMA BookingBalances ==
  ASSUME TillRows, NEW N, NEW status \in {"captured", "reversed"}, Booking(N, status),
         NEW h \in Shifts, ShiftBalanced(h)
  PROVE  ShiftBalanced(h)'
<1>1. PICK t : t = tenders'
  OBVIOUS
<1>2. PICK M : M = Cash(N, h)
  OBVIOUS
<1>3. /\ M \subseteq N /\ IsFiniteSet(M)
      /\ \A id \in M : /\ id \in TenderIds /\ tenders[id] = None /\ t[id] \in Tender
                       /\ t[id].amount \in Nat /\ t[id].status = status
  <2>1. M \subseteq N
    BY <1>2 DEF Cash
  <2> QED BY <1>1, <2>1, FS_Subset DEF Booking, Tender
<1>4. PICK ev : ev = [id \in M |-> EventFor(id, status)]
  OBVIOUS
<1>5. EventsOf(h)' = EventsOf(h) \cup {ev[id] : id \in M}
  <2>1. \A id : EventFor(id, status).shift = tenders'[id].shift
    BY DEF EventFor
  <2> QED BY <1>2, <1>4, <2>1 DEF EventsOf, Booking, Cash
<1>6. \A id \in M : ev[id].op = audits /\ ev[id].tender = id /\ ev[id].amount = Moved(id, status)
  BY <1>4 DEF EventFor
<1>7. PICK d : d = SumOf([id \in M |-> Moved(id, status)])
  OBVIOUS
<1>8. d \in Int /\ Drawn(EventsOf(h)') = Drawn(EventsOf(h)) + d /\ Drawn(EventsOf(h)) \in Int
  <2>1. [id \in M |-> Moved(id, status)] = [id \in M |-> ev[id].amount]
    BY <1>6
  <2>2. \A id \in M : Moved(id, status) \in Int
    BY <1>1, <1>3 DEF Moved
  <2>3. /\ IsFiniteSet(EventsOf(h)) /\ (\A e \in EventsOf(h) : e.amount \in Int)
        /\ \A x \in M : ev[x] \notin EventsOf(h) /\ ev[x].amount \in Int
    <3>1. EventsOf(h) \in SUBSET cashEvents
      BY DEF EventsOf
    <3> QED BY <1>6, <2>2, <3>1, FS_Subset DEF TillRows
  <2>4. DOMAIN ev = M /\ \A x, y \in M : ev[x] = ev[y] => x = y
    BY <1>4, <1>6
  <2>5. /\ Drawn(EventsOf(h)) \in Int /\ MovedBy(ev) \in Int
        /\ Drawn(EventsOf(h) \cup EventsIn(ev)) = Drawn(EventsOf(h)) + MovedBy(ev)
    BY <1>3, <2>3, <2>4, DrawnAdd
  <2>6. EventsOf(h)' = EventsOf(h) \cup EventsIn(ev) /\ d = MovedBy(ev)
    BY <1>5, <1>7, <2>1, <2>4 DEF EventsIn, MovedBy
  <2> QED BY <2>5, <2>6
<1>9. \A s \in {"captured", "reversed"} : CashOf(h, s)' = IF s = status THEN CashOf(h, s) \cup M ELSE CashOf(h, s)
  <2>1. ASSUME NEW s \in {"captured", "reversed"}, NEW id \in TenderIds
        PROVE  id \in CashOf(h, s)' <=> (id \in CashOf(h, s) \/ (s = status /\ id \in M))
    <3>1. CASE id \in N
      <4>1. tenders[id] = None /\ tenders'[id] # None /\ tenders'[id].status = status
        BY <3>1, CashDeskAssumption DEF Booking
      <4> QED BY <1>2, <3>1, <4>1 DEF CashOf, Cash
    <3>2. CASE id \notin N
      <4>1. tenders'[id] = tenders[id]
        BY <3>2 DEF Booking
      <4> QED BY <1>3, <3>2, <4>1 DEF CashOf
    <3> QED BY <3>1, <3>2
  <2>2. \A s : CashOf(h, s)' \subseteq TenderIds /\ CashOf(h, s) \subseteq TenderIds
    BY DEF CashOf
  <2> QED BY <1>3, <2>1, <2>2
<1>10. ASSUME NEW s \in {"captured", "reversed"}
       PROVE  /\ IsFiniteSet(CashOf(h, s)) /\ CashOf(h, s) \cap M = {}
              /\ \A id \in CashOf(h, s) : t[id] = tenders[id] /\ t[id].amount \in Nat
  <2>1. CashOf(h, s) \in SUBSET Issued
    BY DEF CashOf, Issued
  <2>2. IsFiniteSet(CashOf(h, s))
    BY <2>1, FS_Subset DEF TillRows
  <2>3. \A id \in CashOf(h, s) : id \in TenderIds /\ tenders[id] # None
    BY DEF CashOf
  <2>4. \A id \in CashOf(h, s) : id \notin N
    BY <2>3 DEF Booking
  <2>5. \A id \in CashOf(h, s) : t[id] = tenders[id] /\ tenders[id] \in Tender
    BY <1>1, <2>3, <2>4 DEF Booking, TillRows
  <2> QED BY <1>3, <2>2, <2>4, <2>5 DEF Tender
<1>11. ASSUME NEW s \in {"captured", "reversed"}
       PROVE  /\ Amounts(CashOf(h, s)) \in Nat
              /\ Amounts(CashOf(h, s))' = Amounts(CashOf(h, s)) + IF s = status THEN Tendered(t, M) ELSE 0
              /\ Tendered(t, M) \in Nat
  <2>1. Amounts(CashOf(h, s)) = Tendered(t, CashOf(h, s))
    <3>1. Amounts(CashOf(h, s)) = Tendered(tenders, CashOf(h, s))
      BY DEF Amounts, Tendered
    <3> QED BY <1>10, <3>1, TenderedSame
  <2>2. Amounts(CashOf(h, s))' = Tendered(t, CashOf(h, s)')
    BY <1>1 DEF Amounts, Tendered
  <2>3. /\ Tendered(t, CashOf(h, s)) \in Nat /\ Tendered(t, M) \in Nat
        /\ Tendered(t, CashOf(h, s) \cup M) = Tendered(t, CashOf(h, s)) + Tendered(t, M)
    BY <1>3, <1>10, TenderedUnion
  <2>4. CASE s = status
    <3>1. CashOf(h, s)' = CashOf(h, s) \cup M
      BY <1>9, <2>4
    <3> QED BY <2>1, <2>2, <2>3, <2>4, <3>1
  <2>5. CASE s # status
    <3>1. CashOf(h, s)' = CashOf(h, s)
      BY <1>9, <2>5
    <3> QED BY <2>1, <2>2, <2>3, <2>5, <3>1
  <2> QED BY <2>4, <2>5
<1>12. d = IF status = "captured" THEN Tendered(t, M) ELSE -Tendered(t, M)
  <2>1. CASE status = "captured"
    <3>1. [id \in M |-> Moved(id, status)] = [id \in M |-> t[id].amount]
      BY <1>1, <2>1 DEF Moved
    <3> QED BY <1>7, <2>1, <3>1 DEF Tendered
  <2>2. CASE status = "reversed"
    <3>1. PICK f : f = [id \in M |-> t[id].amount]
      OBVIOUS
    <3>2. [id \in M |-> Moved(id, status)] = [x \in DOMAIN f |-> -f[x]]
      BY <1>1, <2>2, <3>1 DEF Moved
    <3>3. Amounted(f)
      BY <1>3, <3>1 DEF Amounted
    <3> QED BY <1>7, <2>2, <3>1, <3>2, <3>3, SumNegated DEF Tendered
  <2> QED BY <2>1, <2>2
<1>13. CASE M = {}
  <2>1. shifts'[h] = shifts[h]
    BY <1>2, <1>13 DEF Booking
  <2>2. EventsOf(h)' = EventsOf(h) /\ \A s \in {"captured", "reversed"} : CashOf(h, s)' = CashOf(h, s)
    BY <1>5, <1>9, <1>13
  <2>3. Tendered(t, M) = 0
    BY <1>13, TenderedNone
  <2>4. \A s \in {"captured", "reversed"} : Amounts(CashOf(h, s))' = Amounts(CashOf(h, s))
    BY <1>11, <2>3
  <2> QED BY <2>1, <2>2, <2>4 DEF ShiftBalanced, Drawn
<1>14. CASE M # {}
  <2>1. shifts[h] # None /\ shifts[h].status = "open"
    BY <1>2, <1>14 DEF Booking, Cash
  <2>2. shifts[h] \in CashShift
    BY <2>1 DEF TillRows
  <2>3. shifts'[h] = [shifts[h] EXCEPT !.expected = @ + d]
    BY <1>2, <1>7, <1>14 DEF Booking
  <2>4. /\ shifts'[h].expected = shifts[h].expected + d /\ shifts'[h].float = shifts[h].float
        /\ shifts'[h].status = "open" /\ shifts'[h] \in CashShift
    BY <1>8, <2>1, <2>2, <2>3 DEF CashShift
  <2>5. shifts'[h] # None
    BY <2>4, CashDeskAssumption
  <2>6. /\ shifts[h].expected = Drawn(EventsOf(h))
        /\ shifts[h].expected = shifts[h].float + Amounts(CashOf(h, "captured")) - Amounts(CashOf(h, "reversed"))
    BY <2>1 DEF ShiftBalanced
  <2>7. shifts'[h].expected = Drawn(EventsOf(h)')
    BY <1>8, <2>4, <2>6
  <2>8. shifts'[h].expected = shifts'[h].float + Amounts(CashOf(h, "captured"))' - Amounts(CashOf(h, "reversed"))'
    <3>1. shifts[h].float \in Int
      BY <2>2 DEF CashShift
    <3>2. PICK a, b, x : a = Amounts(CashOf(h, "captured")) /\ b = Amounts(CashOf(h, "reversed")) /\ x = Tendered(t, M)
      OBVIOUS
    <3>3. a \in Nat /\ b \in Nat /\ x \in Nat
      BY <1>11, <3>2
    <3>4. CASE status = "captured"
      <4>1. Amounts(CashOf(h, "captured"))' = a + x /\ Amounts(CashOf(h, "reversed"))' = b /\ d = x
        BY <1>11, <1>12, <3>2, <3>4, <3>3
      <4> QED BY <2>4, <2>6, <3>1, <3>2, <3>3, <4>1
    <3>5. CASE status = "reversed"
      <4>1. Amounts(CashOf(h, "captured"))' = a /\ Amounts(CashOf(h, "reversed"))' = b + x /\ d = -x
        BY <1>11, <1>12, <3>2, <3>5, <3>3
      <4> QED BY <2>4, <2>6, <3>1, <3>2, <3>3, <4>1
    <3> QED BY <3>4, <3>5
  <2> QED BY <2>4, <2>5, <2>7, <2>8 DEF ShiftBalanced, Drawn
<1> QED BY <1>13, <1>14

\* A booking adds its captured tenders to what was paid, and its refunds do not count.
NewFor(N, o) == {id \in N : tenders'[id].order = o}

\* Booking captured tenders never lowers what a bill has been paid.
LEMMA BookingPays ==
  ASSUME TillRows, NEW N, NEW status \in {"captured", "reversed"}, Booking(N, status), NEW o
  PROVE  /\ Amounts(TendersOf(o, "captured")) \in Nat /\ Tendered(tenders', NewFor(N, o)) \in Nat
         /\ Amounts(TendersOf(o, "captured"))' =
              Amounts(TendersOf(o, "captured")) + IF status = "captured" THEN Tendered(tenders', NewFor(N, o)) ELSE 0
<1>1. PICK t, M, S : t = tenders' /\ M = NewFor(N, o) /\ S = TendersOf(o, "captured")
  OBVIOUS
<1>2. /\ M \subseteq N /\ IsFiniteSet(M)
      /\ \A id \in M : tenders[id] = None /\ t[id].amount \in Nat /\ t[id].status = status
  <2>1. M \subseteq N
    BY <1>1 DEF NewFor
  <2> QED BY <1>1, <2>1, FS_Subset DEF Booking, Tender
<1>3. /\ IsFiniteSet(S) /\ S \cap M = {}
      /\ \A id \in S : t[id] = tenders[id] /\ t[id].amount \in Nat
  <2>1. S \in SUBSET Issued
    BY <1>1 DEF TendersOf, Issued
  <2>2. \A id \in S : id \in TenderIds /\ tenders[id] # None
    BY <1>1 DEF TendersOf
  <2>3. \A id \in S : id \notin N
    BY <2>2 DEF Booking
  <2>4. \A id \in S : t[id] = tenders[id] /\ tenders[id] \in Tender
    BY <1>1, <2>2, <2>3 DEF Booking, TillRows
  <2> QED BY <1>2, <2>1, <2>3, <2>4, FS_Subset DEF Tender, TillRows
<1>4. TendersOf(o, "captured")' = IF status = "captured" THEN S \cup M ELSE S
  <2>1. ASSUME NEW id \in TenderIds
        PROVE  id \in TendersOf(o, "captured")' <=> (id \in S \/ (status = "captured" /\ id \in M))
    <3>1. CASE id \in N
      <4>1. tenders[id] = None /\ tenders'[id] # None /\ tenders'[id].status = status
        BY <3>1, CashDeskAssumption DEF Booking
      <4> QED BY <1>1, <3>1, <4>1 DEF TendersOf, NewFor
    <3>2. CASE id \notin N
      <4>1. tenders'[id] = tenders[id]
        BY <3>2 DEF Booking
      <4> QED BY <1>1, <1>2, <3>2, <4>1 DEF TendersOf
    <3> QED BY <3>1, <3>2
  <2>2. TendersOf(o, "captured")' \subseteq TenderIds /\ S \subseteq TenderIds /\ M \subseteq TenderIds
    BY <1>1, <1>2 DEF TendersOf, Booking
  <2> QED BY <2>1, <2>2
<1>5. /\ Tendered(t, S) \in Nat /\ Tendered(t, M) \in Nat
      /\ Tendered(t, S \cup M) = Tendered(t, S) + Tendered(t, M)
  BY <1>2, <1>3, TenderedUnion
<1>6. Amounts(S) = Tendered(t, S)
  <2>1. Amounts(S) = Tendered(tenders, S)
    BY DEF Amounts, Tendered
  <2> QED BY <1>3, <2>1, TenderedSame
<1>7. Amounts(TendersOf(o, "captured"))' = Tendered(t, TendersOf(o, "captured")')
  BY <1>1 DEF Amounts, Tendered
<1>8. CASE status = "captured"
  BY <1>1, <1>4, <1>5, <1>6, <1>7, <1>8
<1>9. CASE status # "captured"
  BY <1>1, <1>4, <1>5, <1>6, <1>7, <1>9
<1> QED BY <1>8, <1>9

\* Captures in flight and receipts stay backed.
LEMMA BookingBacks ==
  ASSUME TillInv, NEW N, NEW status \in {"captured", "reversed"}, Booking(N, status)
  PROVE  /\ \A c \in captures : c.paid <= Amounts(TendersOf(c.order, "captured"))'
         /\ \A o \in Bills : receipts[o] # None => Amounts(TendersOf(o, "captured"))' >= receipts[o].total
<1>1. ASSUME NEW o PROVE /\ Amounts(TendersOf(o, "captured")) \in Nat /\ Amounts(TendersOf(o, "captured"))' \in Nat
                         /\ Amounts(TendersOf(o, "captured"))' >= Amounts(TendersOf(o, "captured"))
  BY BookingPays DEF TillInv
<1>2. ASSUME NEW c \in captures PROVE c.paid <= Amounts(TendersOf(c.order, "captured"))'
  <2>1. c.paid \in Int /\ c.paid <= Amounts(TendersOf(c.order, "captured"))
    BY DEF TillInv, Backed, BillRows
  <2> QED BY <1>1, <2>1
<1>3. ASSUME NEW o \in Bills, receipts[o] # None PROVE Amounts(TendersOf(o, "captured"))' >= receipts[o].total
  <2>1. receipts[o].total \in Int /\ Amounts(TendersOf(o, "captured")) >= receipts[o].total
    BY <1>3 DEF TillInv, Backed, BillRows, Totalled
  <2> QED BY <1>1, <2>1
<1> QED BY <1>2, <1>3

\* A captured tender's refunds among the old rows.
LEMMA RefundsKept ==
  ASSUME TillInv, NEW N, NEW status \in {"captured", "reversed"}, Booking(N, status),
         NEW id \in TenderIds, tenders[id] # None,
         status = "reversed" => \A j \in N : tenders'[j].reverses # id
  PROVE  RefundsOf(id)' = RefundsOf(id) /\ Amounts(RefundsOf(id))' = Amounts(RefundsOf(id))
<1>1. tenders'[id] = tenders[id]
  BY DEF Booking
<1>2. ASSUME NEW j \in TenderIds PROVE j \in RefundsOf(id)' <=> j \in RefundsOf(id)
  <2>1. CASE j \in N
    <3>1. tenders[j] = None /\ tenders'[j].status = status
      BY <2>1 DEF Booking
    <3> QED BY <2>1, <3>1 DEF RefundsOf, TendersOf
  <2>2. CASE j \notin N
    <3>1. tenders'[j] = tenders[j]
      BY <2>2 DEF Booking
    <3> QED BY <1>1, <3>1 DEF RefundsOf, TendersOf
  <2> QED BY <2>1, <2>2
<1>3. RefundsOf(id)' = RefundsOf(id)
  BY <1>2 DEF RefundsOf, TendersOf
<1>4. \A j \in RefundsOf(id) : tenders'[j] = tenders[j]
  BY DEF Booking, RefundsOf, TendersOf
<1>5. Amounts(RefundsOf(id))' = Tendered(tenders', RefundsOf(id)) /\ Amounts(RefundsOf(id)) = Tendered(tenders, RefundsOf(id))
  BY <1>3 DEF Amounts, Tendered
<1> QED BY <1>3, <1>4, <1>5, TenderedSame

\* Captured tenders leave the refunds of the earlier ones alone.
LEMMA CaptureKeepsRefunds ==
  ASSUME TillInv, NEW N, Booking(N, "captured")
  PROVE  /\ \A id \in TenderIds : tenders'[id] # None /\ tenders'[id].status = "reversed" =>
              tenders'[id].reverses \in TenderIds /\ tenders'[tenders'[id].reverses] # None
         /\ \A id \in TenderIds : tenders'[id] # None /\ tenders'[id].status = "captured" =>
              Amounts(RefundsOf(id))' <= tenders'[id].amount
<1>1. \A id \in N : tenders[id] = None /\ tenders'[id] # None /\ tenders'[id].status = "captured" /\ tenders'[id].amount \in Nat
  BY CashDeskAssumption DEF Booking, Tender
<1>2. \A id \in TenderIds \ N : tenders'[id] = tenders[id]
  BY DEF Booking
<1>3. ASSUME NEW id \in TenderIds, tenders'[id] # None, tenders'[id].status = "reversed"
      PROVE  tenders'[id].reverses \in TenderIds /\ tenders'[tenders'[id].reverses] # None
  BY <1>1, <1>2, <1>3 DEF TillInv, Backed
<1>4. ASSUME NEW id \in TenderIds, tenders'[id] # None, tenders'[id].status = "captured"
      PROVE  Amounts(RefundsOf(id))' <= tenders'[id].amount
  <2>1. CASE id \in N
    <3>1. RefundsOf(id)' = {}
      <4> SUFFICES ASSUME NEW j \in TenderIds, j \in RefundsOf(id)' PROVE FALSE
        BY DEF RefundsOf, TendersOf
      <4>1. tenders'[j] # None /\ tenders'[j].status = "reversed" /\ tenders'[j].reverses = id
        BY DEF RefundsOf, TendersOf
      <4>2. j \notin N
        BY <1>1, <4>1
      <4>3. tenders[j] # None /\ tenders[j].status = "reversed" /\ tenders[j].reverses = id
        BY <1>2, <4>1, <4>2
      <4> QED BY <1>1, <2>1, <4>3 DEF TillInv, Backed
    <3>2. Amounts(RefundsOf(id))' = 0
      BY <3>1, TenderedNone DEF Amounts, Tendered
    <3> QED BY <1>1, <2>1, <3>2
  <2>2. CASE id \notin N
    <3>1. tenders[id] # None /\ tenders[id].status = "captured" /\ tenders'[id] = tenders[id]
      BY <1>2, <1>4, <2>2
    <3>2. Amounts(RefundsOf(id))' = Amounts(RefundsOf(id))
      BY <3>1, RefundsKept
    <3> QED BY <3>1, <3>2 DEF TillInv, Backed
  <2> QED BY <2>1, <2>2
<1> QED BY <1>3, <1>4

\* One tender and its cash movement.
LEMMA OneBooking ==
  ASSUME TillRows, NEW id \in TenderIds, NEW row \in Tender, tenders[id] = None,
         tenders' = [tenders EXCEPT ![id] = row], audits' = audits + 1,
         ShiftAccepts(row.type, row.shift),
         MoveCash(audits, id, row.type, row.shift, IF row.status = "captured" THEN "cash_sale" ELSE "cash_refund",
                  IF row.status = "captured" THEN row.amount ELSE -row.amount)
  PROVE  Booking({id}, row.status)
<1>1. PICK s, d : s = row.status /\ d = IF s = "captured" THEN row.amount ELSE -row.amount
  OBVIOUS
<1>2. s \in {"captured", "reversed"} /\ row.amount \in Nat /\ d \in Int
  BY <1>1 DEF Tender
<1>3. tenders'[id] = row /\ tenders' \in [TenderIds -> Tender \cup {None}]
  BY DEF TillRows
<1>4. \A j \in TenderIds \ {id} : tenders'[j] = tenders[j]
  BY DEF TillRows
<1>5. Moved(id, s) = d /\ EventFor(id, s) =
        [op |-> audits, tender |-> id, shift |-> row.shift,
         type |-> IF s = "captured" THEN "cash_sale" ELSE "cash_refund", amount |-> d]
  BY <1>1, <1>3 DEF Moved, EventFor
<1>6. CASE row.type = "cash"
  <2>1. PICK h : h = row.shift
    OBVIOUS
  <2>2. /\ h \in Shifts /\ shifts[h] # None /\ shifts[h].status = "open"
        /\ shifts' = [shifts EXCEPT ![h].expected = @ + d]
        /\ cashEvents' = cashEvents \cup {EventFor(id, s)}
    BY <1>1, <1>5, <1>6, <2>1 DEF ShiftAccepts, MoveCash, Exists, TillRows
  <2>3. shifts[h] \in CashShift
    BY <2>2 DEF TillRows
  <2>4. PICK new : new = [shifts[h] EXCEPT !.expected = @ + d]
    OBVIOUS
  <2>5. new \in CashShift
    BY <1>2, <2>3, <2>4 DEF CashShift
  <2>6. shifts' = [shifts EXCEPT ![h] = new]
    BY <2>2, <2>4
  <2>7. shifts' \in [Shifts -> CashShift \cup {None}] /\ shifts'[h] = new /\ \A k \in Shifts : k # h => shifts'[k] = shifts[k]
    BY <2>2, <2>5, <2>6 DEF TillRows
  <2>8. \A k : Cash({id}, k) = IF k = h THEN {id} ELSE {}
    BY <1>3, <1>6, <2>1 DEF Cash
  <2>9. SumOf([j \in {id} |-> Moved(j, s)]) = d
    <3>1. PICK f : f = [j \in {id} |-> Moved(j, s)]
      OBVIOUS
    <3>2. DOMAIN f = {id} /\ f[id] = d
      BY <1>5, <3>1
    <3>3. SumOf(f) = f[id]
      BY <1>2, <3>2, SumOne
    <3> QED BY <3>1, <3>2, <3>3
  <2>10. {EventFor(j, s) : j \in {i \in {id} : tenders'[i].type = "cash"}} = {EventFor(id, s)}
    <3>1. {i \in {id} : tenders'[i].type = "cash"} = {id}
      BY <1>3, <1>6
    <3> QED BY <3>1
  <2>11. ASSUME NEW k \in Shifts
         PROVE  /\ Cash({id}, k) = {} => shifts'[k] = shifts[k]
                /\ Cash({id}, k) # {} => \E x : /\ x = SumOf([j \in Cash({id}, k) |-> Moved(j, s)])
                                                /\ shifts'[k] = [shifts[k] EXCEPT !.expected = @ + x]
    <3>1. CASE k = h
      <4>1. Cash({id}, k) = {id}
        BY <2>8, <3>1
      <4>2. SumOf([j \in Cash({id}, k) |-> Moved(j, s)]) = d
        BY <2>9, <4>1
      <4> QED BY <2>4, <2>7, <3>1, <4>1, <4>2
    <3>2. CASE k # h
      BY <2>7, <2>8, <3>2
    <3> QED BY <3>1, <3>2
  <2>12. IsFiniteSet({id})
    BY FS_Singleton
  <2>13. \A j \in {id} : /\ tenders[j] = None /\ tenders'[j] \in Tender /\ tenders'[j].status = s
                         /\ tenders'[j].shift \in Shifts /\ shifts[tenders'[j].shift] # None
                         /\ shifts[tenders'[j].shift].status = "open"
    BY <1>1, <1>3, <2>1, <2>2
  <2>14. cashEvents' = cashEvents \cup {EventFor(j, s) : j \in {i \in {id} : tenders'[i].type = "cash"}}
    BY <2>2, <2>10
  <2>15. Booking({id}, s)
    BY <1>3, <1>4, <2>7, <2>11, <2>12, <2>13, <2>14 DEF Booking
  <2> QED BY <1>1, <2>15
<1>7. CASE row.type # "cash"
  <2>1. shifts' = shifts /\ cashEvents' = cashEvents
    BY <1>7 DEF MoveCash
  <2>2. {i \in {id} : tenders'[i].type = "cash"} = {}
    BY <1>3, <1>7
  <2>3. \A k : Cash({id}, k) = {}
    BY <1>3, <1>7 DEF Cash
  <2>4. {EventFor(j, s) : j \in {i \in {id} : tenders'[i].type = "cash"}} = {}
    BY <2>2
  <2>5. IsFiniteSet({id})
    BY FS_Singleton
  <2> QED BY <1>1, <1>3, <1>4, <1>7, <2>1, <2>3, <2>4, <2>5 DEF Booking, TillRows
<1> QED BY <1>6, <1>7

\* Once a capture saw less than is paid, its tender and a due receipt are backed.
LEMMA CaptureKeepsTill ==
  ASSUME TillInv, NEW c \in captures, CaptureTender(c)
  PROVE  TillInv'
<1>1. PICK row : row = [order |-> c.order, type |-> c.type, shift |-> c.shift, amount |-> c.amount,
                        status |-> "captured", reverses |-> None]
  OBVIOUS
<1>2. /\ c.id \in TenderIds /\ c.order \in Bills /\ c.type \in TenderType /\ c.shift \in Shifts \cup {None}
      /\ c.amount \in Nat /\ bills[c.order] # None /\ c.paid \in Int
  BY DEF TillInv, BillRows
<1>3. row \in Tender
  BY <1>1, <1>2 DEF Tender
<1>4. PICK total : total = bills[c.order].total
  OBVIOUS
<1>5. /\ c.paid + c.amount <= total /\ tenders[c.id] = None /\ ShiftAccepts(c.type, c.shift)
      /\ tenders' = [tenders EXCEPT ![c.id] = row]
      /\ MoveCash(audits, c.id, c.type, c.shift, "cash_sale", c.amount)
      /\ receipts' = IF c.paid + c.amount >= total /\ receipts[c.order] = None
                     THEN [receipts EXCEPT ![c.order] = [total |-> total]] ELSE receipts
      /\ captures' = captures \ {c} /\ audits' = audits + 1 /\ bills' = bills
  BY <1>1, <1>4 DEF CaptureTender, Audited
<1>6. Booking({c.id}, "captured")
  <2>1. /\ row.type = c.type /\ row.shift = c.shift /\ row.amount = c.amount /\ row.status = "captured"
    BY <1>1
  <2>2. MoveCash(audits, c.id, row.type, row.shift, IF row.status = "captured" THEN "cash_sale" ELSE "cash_refund",
                  IF row.status = "captured" THEN row.amount ELSE -row.amount)
    BY <1>5, <2>1
  <2>3. ShiftAccepts(row.type, row.shift)
    BY <1>5, <2>1
  <2>4. Booking({c.id}, row.status)
    BY <1>2, <1>3, <1>5, <2>2, <2>3, OneBooking DEF TillInv
  <2> QED BY <2>1, <2>4
<1>7. TillRows'
  BY <1>6, BookingRows DEF TillInv
<1>8. \A h \in Shifts : ShiftBalanced(h)'
  BY <1>6, BookingBalances DEF TillInv
<1>9. total \in Int
  BY <1>2, <1>4 DEF TillInv, BillRows, Totalled
<1>10. BillRows'
  <2>1. receipts' \in [Bills -> Totalled \cup {None}]
    <3>1. [total |-> total] \in Totalled
      BY <1>9 DEF Totalled
    <3> QED BY <1>2, <1>5, <3>1 DEF TillInv, BillRows
  <2> QED BY <1>5, <2>1 DEF TillInv, BillRows
<1>11. Backed'
  <2>1. \A x \in captures' : x.paid <= Amounts(TendersOf(x.order, "captured"))'
    BY <1>5, <1>6, BookingBacks
  <2>2. ASSUME NEW o \in Bills, receipts'[o] # None PROVE Amounts(TendersOf(o, "captured"))' >= receipts'[o].total
    <3>1. CASE receipts'[o] = receipts[o]
      BY <1>6, <2>2, <3>1, BookingBacks
    <3>2. CASE receipts'[o] # receipts[o]
      <4>1. o = c.order /\ receipts'[o] = [total |-> total] /\ c.paid + c.amount >= total
        BY <1>2, <1>5, <3>2 DEF TillInv, BillRows
      <4>2. NewFor({c.id}, o) = {c.id} /\ tenders'[c.id] = row
        BY <1>1, <1>2, <1>5, <4>1 DEF NewFor, TillInv, TillRows
      <4>3. Tendered(tenders', {c.id}) = c.amount
        BY <1>1, <1>2, <4>2, TenderedOne
      <4>4. Amounts(TendersOf(o, "captured"))' = Amounts(TendersOf(o, "captured")) + c.amount /\ Amounts(TendersOf(o, "captured")) \in Nat
        BY <1>6, <4>2, <4>3, BookingPays DEF TillInv
      <4>5. c.paid <= Amounts(TendersOf(o, "captured"))
        BY <4>1 DEF TillInv, Backed
      <4> QED BY <1>2, <1>9, <4>1, <4>4, <4>5
    <3> QED BY <3>1, <3>2
  <2> QED BY <1>6, <2>1, <2>2, CaptureKeepsRefunds DEF Backed
<1> QED BY <1>7, <1>8, <1>10, <1>11 DEF TillInv

\* A refund of no more than what is left of the original (ReverseTender).
LEMMA ReverseKeepsTill ==
  ASSUME TillInv, NEW id \in TenderIds, NEW original \in TenderIds, NEW h \in Shifts \cup {None}, NEW amount \in Nat,
         handleReverseTender(id, original, h, amount)
  PROVE  TillInv'
<1>1. PICK v : v = tenders[original]
  OBVIOUS
<1>2. PICK row : row = [order |-> v.order, type |-> v.type, shift |-> h, amount |-> amount,
                        status |-> "reversed", reverses |-> original]
  OBVIOUS
<1>3. /\ tenders[id] = None /\ v # None /\ v.status = "captured"
      /\ Amounts(RefundsOf(original)) + amount <= v.amount /\ ShiftAccepts(v.type, h)
      /\ tenders' = [tenders EXCEPT ![id] = row] /\ MoveCash(audits, id, v.type, h, "cash_refund", -amount)
      /\ audits' = audits + 1 /\ UNCHANGED <<bills, receipts, captures>>
  BY <1>1, <1>2 DEF handleReverseTender, ReverseTender, Audited, Exists, RefundsOf
<1>4. v \in Tender
  BY <1>1, <1>3 DEF TillInv, TillRows
<1>5. row \in Tender
  BY <1>2, <1>4 DEF Tender
<1>6. Booking({id}, "reversed")
  <2>1. row.type = v.type /\ row.shift = h /\ row.amount = amount /\ row.status = "reversed"
    BY <1>2
  <2>2. MoveCash(audits, id, row.type, row.shift, IF row.status = "captured" THEN "cash_sale" ELSE "cash_refund",
                  IF row.status = "captured" THEN row.amount ELSE -row.amount)
    BY <1>3, <2>1
  <2>3. ShiftAccepts(row.type, row.shift)
    BY <1>3, <2>1
  <2>4. Booking({id}, row.status)
    BY <1>3, <1>5, <2>2, <2>3, OneBooking DEF TillInv
  <2> QED BY <2>1, <2>4
<1>7. TillRows'
  BY <1>6, BookingRows DEF TillInv
<1>8. \A k \in Shifts : ShiftBalanced(k)'
  BY <1>6, BookingBalances DEF TillInv
<1>9. BillRows'
  BY <1>3 DEF TillInv, BillRows
<1>10. tenders'[id] = row /\ \A j \in TenderIds : j # id => tenders'[j] = tenders[j]
  BY <1>3 DEF TillInv, TillRows
<1>11. id # original /\ row # None
  BY <1>1, <1>3, <1>5, CashDeskAssumption
<1>12. ASSUME NEW j \in TenderIds, tenders'[j] # None, tenders'[j].status = "reversed"
       PROVE  tenders'[j].reverses \in TenderIds /\ tenders'[tenders'[j].reverses] # None
  <2>1. CASE j = id
    BY <1>1, <1>2, <1>3, <1>10, <1>11, <2>1
  <2>2. CASE j # id
    BY <1>10, <1>11, <1>12, <2>2 DEF TillInv, Backed
  <2> QED BY <2>1, <2>2
<1>13. ASSUME NEW j \in TenderIds, tenders'[j] # None, tenders'[j].status = "captured"
       PROVE  Amounts(RefundsOf(j))' <= tenders'[j].amount
  <2>1. j # id /\ tenders'[j] = tenders[j]
    BY <1>2, <1>10, <1>13
  <2>2. CASE j # original
    <3>1. \A i \in {id} : tenders'[i].reverses # j
      BY <1>2, <1>10, <2>2
    <3>2. Amounts(RefundsOf(j))' = Amounts(RefundsOf(j))
      BY <1>6, <1>13, <2>1, <3>1, RefundsKept
    <3> QED BY <1>13, <2>1, <3>2 DEF TillInv, Backed
  <2>3. CASE j = original
    <3>1. PICK R : R = RefundsOf(original)
      OBVIOUS
    <3>2. R \in SUBSET Issued /\ id \notin R
      BY <1>3, <3>1 DEF RefundsOf, TendersOf, Issued
    <3>3. RefundsOf(j)' = R \cup {id}
      <4>1. ASSUME NEW i \in TenderIds PROVE i \in RefundsOf(j)' <=> i \in R \cup {id}
        <5>1. CASE i = id
          BY <1>1, <1>2, <1>10, <1>11, <2>1, <2>3, <5>1 DEF RefundsOf, TendersOf
        <5>2. CASE i # id
          BY <1>10, <2>1, <2>3, <3>1, <5>2 DEF RefundsOf, TendersOf
        <5> QED BY <5>1, <5>2
      <4>2. RefundsOf(j)' \subseteq TenderIds /\ R \subseteq TenderIds
        BY <3>1 DEF RefundsOf, TendersOf
      <4> QED BY <4>1, <4>2
    <3>4. \A i \in R : tenders'[i] = tenders[i] /\ tenders'[i].amount \in Nat
      <4>1. \A i \in R : i \in TenderIds /\ tenders[i] # None /\ i # id
        BY <3>2 DEF Issued
      <4> QED BY <1>10, <4>1 DEF TillInv, TillRows, Tender
    <3>5. tenders'[id].amount = amount /\ IsFiniteSet({id}) /\ IsFiniteSet(R) /\ R \cap {id} = {}
      <4>1. tenders'[id].amount = amount
        BY <1>2, <1>10
      <4>2. IsFiniteSet(R)
        BY <3>2, FS_Subset DEF TillInv, TillRows
      <4> QED BY <3>2, <4>1, <4>2, FS_Singleton
    <3>6. Tendered(tenders', R \cup {id}) = Tendered(tenders', R) + Tendered(tenders', {id})
      BY <3>4, <3>5, TenderedUnion
    <3>7. Tendered(tenders', {id}) = amount
      BY <3>5, TenderedOne
    <3>8. Tendered(tenders', R) = Amounts(RefundsOf(original))
      <4>1. Tendered(tenders', R) = Tendered(tenders, R)
        BY <3>4, TenderedSame
      <4> QED BY <3>1, <4>1 DEF Tendered, Amounts
    <3>9. Amounts(RefundsOf(j))' = Tendered(tenders', R \cup {id})
      BY <3>3 DEF Tendered, Amounts
    <3> QED BY <1>1, <1>3, <2>1, <2>3, <3>6, <3>7, <3>8, <3>9
  <2> QED BY <2>2, <2>3
<1>14. Backed'
  BY <1>3, <1>6, <1>12, <1>13, BookingBacks DEF Backed
<1> QED BY <1>7, <1>8, <1>9, <1>14 DEF TillInv

\* A checkout books all of its tenders, which add up to the total of its receipt.
LEMMA CheckoutKeepsTill ==
  ASSUME TillInv, NEW o \in Bills, NEW version, NEW lines, NEW discount, NEW charges, NEW token, NEW tendered,
         IsFiniteSet(DOMAIN tendered), DOMAIN tendered \subseteq TenderIds,
         \A id \in DOMAIN tendered : /\ tendered[id].type \in TenderType /\ tendered[id].amount \in Nat
                                     /\ tendered[id].shift \in Shifts \cup {None},
         CheckoutPOS(o, version, lines, discount, charges, token, tendered)
  PROVE  TillInv'
<1>1. PICK N, total : /\ N = DOMAIN tendered
                      /\ total = SumOf([l \in lines |-> UnitPrice(version, l) * l.quantity]) - discount + charges
  OBVIOUS
<1>2. PICK cash : cash = [h \in Shifts |-> {id \in N : tendered[id].type = "cash" /\ tendered[id].shift = h}]
  OBVIOUS
<1>3. PICK row : row = [id \in N |-> [order |-> o, type |-> tendered[id].type, shift |-> tendered[id].shift,
                                      amount |-> tendered[id].amount, status |-> "captured", reverses |-> None]]
  OBVIOUS
<1>4. DOMAIN shifts = Shifts
  BY DEF TillInv, TillRows
<1>5. /\ bills[o] = None
      /\ \A id \in N : tenders[id] = None /\ ShiftAccepts(tendered[id].type, tendered[id].shift)
      /\ SumOf([id \in N |-> tendered[id].amount]) = total
      /\ bills' = [bills EXCEPT ![o] = [total |-> total]]
      /\ receipts' = [receipts EXCEPT ![o] = [total |-> total]]
      /\ audits' = audits + 1 /\ captures' = captures
  BY <1>1, Zenon DEF CheckoutPOS, Audited
<1>6. tenders' = [id \in TenderIds |-> IF id \in N THEN row[id] ELSE tenders[id]]
  BY <1>1, <1>3 DEF CheckoutPOS
<1>7. cashEvents' = cashEvents \cup
        {[op |-> audits, tender |-> id, shift |-> tendered[id].shift, type |-> "cash_sale",
          amount |-> tendered[id].amount] : id \in {j \in N : tendered[j].type = "cash"}}
  BY <1>1 DEF CheckoutPOS
<1>8. shifts' = [h \in Shifts |-> IF cash[h] = {} THEN shifts[h]
                   ELSE [shifts[h] EXCEPT !.expected = @ + SumOf([id \in cash[h] |-> tendered[id].amount])]]
  BY <1>1, <1>2, <1>4 DEF CheckoutPOS
<1>9. \A id \in N : /\ row[id] \in Tender /\ row[id].status = "captured" /\ row[id].order = o
                    /\ row[id].type = tendered[id].type /\ row[id].shift = tendered[id].shift
                    /\ row[id].amount = tendered[id].amount
  BY <1>1, <1>3 DEF Tender
<1>10. (\A id \in N : tenders'[id] = row[id]) /\ \A id \in TenderIds \ N : tenders'[id] = tenders[id]
  BY <1>1, <1>6
<1>11. tenders' \in [TenderIds -> Tender \cup {None}]
  BY <1>6, <1>9 DEF TillInv, TillRows
<1>12. \A h \in Shifts : Cash(N, h) = cash[h] /\ cash[h] \subseteq N
  BY <1>2, <1>9, <1>10 DEF Cash
<1>13. \A id \in N : Moved(id, "captured") = tendered[id].amount
  BY <1>9, <1>10 DEF Moved
<1>14. \A id \in N : tendered[id].type = "cash" =>
         tendered[id].shift \in Shifts /\ shifts[tendered[id].shift] # None /\ shifts[tendered[id].shift].status = "open"
  BY <1>4, <1>5 DEF ShiftAccepts, Exists
<1>15. cashEvents' = cashEvents \cup {EventFor(id, "captured") : id \in {j \in N : tenders'[j].type = "cash"}}
  <2>1. {j \in N : tenders'[j].type = "cash"} = {j \in N : tendered[j].type = "cash"}
    BY <1>9, <1>10
  <2>2. \A id \in N : EventFor(id, "captured") =
          [op |-> audits, tender |-> id, shift |-> tendered[id].shift, type |-> "cash_sale", amount |-> tendered[id].amount]
    BY <1>9, <1>10, <1>13 DEF EventFor
  <2> QED BY <1>7, <2>1, <2>2
<1>16. ASSUME NEW h \in Shifts
       PROVE  /\ Cash(N, h) = {} => shifts'[h] = shifts[h]
              /\ Cash(N, h) # {} => \E x : /\ x = SumOf([j \in Cash(N, h) |-> Moved(j, "captured")])
                                           /\ shifts'[h] = [shifts[h] EXCEPT !.expected = @ + x]
              /\ shifts'[h] \in CashShift \cup {None}
  <2>1. [j \in Cash(N, h) |-> Moved(j, "captured")] = [id \in cash[h] |-> tendered[id].amount]
    BY <1>12, <1>13
  <2>2. PICK f, x : f = [id \in cash[h] |-> tendered[id].amount] /\ x = SumOf(f)
    OBVIOUS
  <2>3. Amounted(f)
    BY <1>1, <1>12, <2>2, FS_Subset DEF Amounted
  <2>4. x \in Int
    BY <2>2, <2>3, SumInt
  <2>5. CASE cash[h] = {}
    BY <1>8, <1>12, <2>5 DEF TillInv, TillRows
  <2>6. CASE cash[h] # {}
    <3>1. shifts[h] # None
      BY <1>2, <1>14, <2>6
    <3>2. shifts'[h] = [shifts[h] EXCEPT !.expected = @ + x]
      BY <1>8, <2>2, <2>6
    <3>3. shifts[h] \in CashShift
      BY <3>1 DEF TillInv, TillRows
    <3>4. shifts'[h] \in CashShift
      BY <2>4, <3>2, <3>3 DEF CashShift
    <3> QED BY <1>12, <2>1, <2>2, <2>6, <3>2, <3>4
  <2> QED BY <2>5, <2>6
<1>17. shifts' \in [Shifts -> CashShift \cup {None}]
  BY <1>8, <1>16
<1>18. Booking(N, "captured")
  <2>1. \A id \in N : tenders[id] = None /\ tenders'[id] \in Tender /\ tenders'[id].status = "captured"
    BY <1>5, <1>9, <1>10
  <2>2. \A id \in N : tenders'[id].type = "cash" =>
          tenders'[id].shift \in Shifts /\ shifts[tenders'[id].shift] # None /\ shifts[tenders'[id].shift].status = "open"
    BY <1>9, <1>10, <1>14
  <2> QED BY <1>1, <1>5, <1>10, <1>11, <1>15, <1>16, <1>17, <2>1, <2>2 DEF Booking
<1>19. TillRows'
  BY <1>18, BookingRows DEF TillInv
<1>20. \A h \in Shifts : ShiftBalanced(h)'
  BY <1>18, BookingBalances DEF TillInv
<1>21. NewFor(N, o) = N
  BY <1>9, <1>10 DEF NewFor
<1>22. Tendered(tenders', N) = total
  <2>1. [id \in N |-> tenders'[id].amount] = [id \in N |-> tendered[id].amount]
    BY <1>9, <1>10
  <2> QED BY <1>5, <2>1 DEF Tendered
<1>23. /\ Amounts(TendersOf(o, "captured")) \in Nat /\ total \in Nat
       /\ Amounts(TendersOf(o, "captured"))' = Amounts(TendersOf(o, "captured")) + total
  BY <1>18, <1>21, <1>22, BookingPays DEF TillInv
<1>24. BillRows'
  <2>1. [total |-> total] \in Totalled
    BY <1>23 DEF Totalled
  <2>2. bills' \in [Bills -> Totalled \cup {None}] /\ receipts' \in [Bills -> Totalled \cup {None}]
    BY <1>5, <2>1 DEF TillInv, BillRows
  <2>3. \A c \in captures : c.order # o /\ bills'[c.order] # None
    BY <1>5 DEF TillInv, BillRows
  <2> QED BY <1>5, <2>2, <2>3 DEF TillInv, BillRows
<1>25. Backed'
  <2>1. \A x \in captures' : x.paid <= Amounts(TendersOf(x.order, "captured"))'
    BY <1>5, <1>18, BookingBacks
  <2>2. ASSUME NEW p \in Bills, receipts'[p] # None PROVE Amounts(TendersOf(p, "captured"))' >= receipts'[p].total
    <3>1. CASE p # o
      <4>1. receipts'[p] = receipts[p]
        BY <1>5, <3>1 DEF TillInv, BillRows
      <4> QED BY <1>18, <2>2, <4>1, BookingBacks
    <3>2. CASE p = o
      <4>1. receipts'[p] = [total |-> total]
        BY <1>5, <3>2 DEF TillInv, BillRows
      <4> QED BY <1>23, <3>2, <4>1
    <3> QED BY <3>1, <3>2
  <2> QED BY <1>18, <2>1, <2>2, CaptureKeepsRefunds DEF Backed
<1> QED BY <1>19, <1>20, <1>24, <1>25 DEF TillInv

\* Steps that leave shifts, events and tenders alone.
LEMMA TillFrame ==
  ASSUME TillInv, UNCHANGED <<shifts, cashEvents, tenders, bills, receipts>>, audits' \in {audits, audits + 1},
         captures' \subseteq captures
  PROVE  TillInv'
<1>1. /\ \A h, s : CashOf(h, s)' = CashOf(h, s) /\ Amounts(CashOf(h, s))' = Amounts(CashOf(h, s))
      /\ \A h : EventsOf(h)' = EventsOf(h)
      /\ \A p, s : TendersOf(p, s)' = TendersOf(p, s) /\ Amounts(TendersOf(p, s))' = Amounts(TendersOf(p, s))
      /\ \A id : RefundsOf(id)' = RefundsOf(id) /\ Amounts(RefundsOf(id))' = Amounts(RefundsOf(id))
      /\ Issued' = Issued
  BY DEF CashOf, EventsOf, TendersOf, RefundsOf, Issued, Amounts
<1>2. TillRows'
  BY <1>1 DEF TillInv, TillRows
<1>3. BillRows'
  BY DEF TillInv, BillRows
<1>4. Backed'
  BY <1>1 DEF TillInv, Backed
<1>5. \A h \in Shifts : ShiftBalanced(h)'
  BY <1>1 DEF TillInv, ShiftBalanced, Drawn
<1> QED BY <1>2, <1>3, <1>4, <1>5 DEF TillInv

\* The snapshot of a capture is at most what is captured.
LEMMA BeginKeepsTill ==
  ASSUME TillInv, NEW id \in TenderIds, NEW o \in Bills, NEW type \in TenderType, NEW h \in Shifts \cup {None},
         NEW amount \in Nat, handleCaptureTender(id, o, type, h, amount)
  PROVE  TillInv'
<1>1. PICK c : c = [id |-> id, order |-> o, type |-> type, shift |-> h, amount |-> amount, paid |-> Paid(o)]
  OBVIOUS
<1>2. /\ bills[o] # None /\ captures' = captures \cup {c}
      /\ UNCHANGED <<audits, shifts, cashEvents, tenders, bills, receipts>>
  BY <1>1 DEF handleCaptureTender, Exists
<1>3. ASSUME NEW s \in {"captured", "reversed"} PROVE Amounts(TendersOf(o, s)) \in Nat
  <2>1. PICK S : S = TendersOf(o, s)
    OBVIOUS
  <2>2. S \in SUBSET Issued /\ \A j \in S : j \in TenderIds /\ tenders[j] # None
    BY <2>1 DEF TendersOf, Issued
  <2>3. IsFiniteSet(S) /\ \A j \in S : tenders[j].amount \in Nat
    BY <2>2, FS_Subset DEF TillInv, TillRows, Tender
  <2>4. Tendered(tenders, S) \in Nat
    BY <2>3, FS_EmptySet, TenderedUnion
  <2> QED BY <2>1, <2>4 DEF Tendered, Amounts
<1>4. c.paid \in Int /\ c.paid <= Amounts(TendersOf(o, "captured"))
  BY <1>1, <1>3 DEF Paid
<1>5. /\ \A k, s : CashOf(k, s)' = CashOf(k, s) /\ Amounts(CashOf(k, s))' = Amounts(CashOf(k, s))
      /\ \A k : EventsOf(k)' = EventsOf(k)
      /\ \A p, s : TendersOf(p, s)' = TendersOf(p, s) /\ Amounts(TendersOf(p, s))' = Amounts(TendersOf(p, s))
      /\ \A j : RefundsOf(j)' = RefundsOf(j) /\ Amounts(RefundsOf(j))' = Amounts(RefundsOf(j))
      /\ Issued' = Issued
  BY <1>2 DEF CashOf, EventsOf, TendersOf, RefundsOf, Issued, Amounts
<1>6. TillRows'
  BY <1>2, <1>5 DEF TillInv, TillRows
<1>7. BillRows'
  BY <1>1, <1>2, <1>4 DEF TillInv, BillRows
<1>8. Backed'
  <2>1. \A x \in captures' : x.paid <= Amounts(TendersOf(x.order, "captured"))'
    <3>1. c.order = o
      BY <1>1
    <3> QED BY <1>2, <1>4, <1>5, <3>1 DEF TillInv, Backed
  <2> QED BY <1>2, <1>5, <2>1 DEF TillInv, Backed
<1>9. \A k \in Shifts : ShiftBalanced(k)'
  BY <1>2, <1>5 DEF TillInv, ShiftBalanced, Drawn
<1> QED BY <1>6, <1>7, <1>8, <1>9 DEF TillInv

\* A shift is opened with its float and the event that records it (OpenCashShift).
LEMMA OpenKeepsTill ==
  ASSUME TillInv, NEW h \in Shifts, NEW register \in Registers, NEW float \in Nat, handleOpenCash(h, register, float)
  PROVE  TillInv'
<1>1. PICK v, e : /\ v = [register |-> register, status |-> "open", float |-> float, expected |-> float,
                          count |-> 0, variance |-> 0, version |-> 1]
                  /\ e = [op |-> audits, tender |-> None, shift |-> h, type |-> "opening_float", amount |-> float]
  OBVIOUS
<1>2. /\ shifts[h] = None /\ shifts' = [shifts EXCEPT ![h] = v] /\ cashEvents' = cashEvents \cup {e}
      /\ audits' = audits + 1 /\ UNCHANGED <<bills, tenders, receipts, captures>>
  BY <1>1 DEF handleOpenCash, OpenCashShift, Audited
<1>3. v \in CashShift /\ v # None /\ v.float = float /\ v.expected = float /\ v.status = "open"
  BY <1>1, CashDeskAssumption DEF CashShift
<1>4. e.op = audits /\ e.amount = float /\ e.shift = h
  BY <1>1
<1>5. /\ \A k, s : CashOf(k, s)' = CashOf(k, s) /\ Amounts(CashOf(k, s))' = Amounts(CashOf(k, s))
      /\ \A p, s : TendersOf(p, s)' = TendersOf(p, s) /\ Amounts(TendersOf(p, s))' = Amounts(TendersOf(p, s))
      /\ \A j : RefundsOf(j)' = RefundsOf(j) /\ Amounts(RefundsOf(j))' = Amounts(RefundsOf(j))
      /\ Issued' = Issued
  BY <1>2 DEF CashOf, TendersOf, RefundsOf, Issued, Amounts
<1>6. TillRows'
  <2>1. IsFiniteSet(cashEvents')
    BY <1>2, FS_AddElement DEF TillInv, TillRows
  <2>2. \A x \in cashEvents' : x.op \in Nat /\ x.op < audits' /\ x.amount \in Int
    BY <1>2, <1>4 DEF TillInv, TillRows
  <2>3. shifts' \in [Shifts -> CashShift \cup {None}]
    BY <1>2, <1>3 DEF TillInv, TillRows
  <2> QED BY <1>2, <1>5, <2>1, <2>2, <2>3 DEF TillInv, TillRows
<1>7. BillRows'
  BY <1>2 DEF TillInv, BillRows
<1>8. Backed'
  BY <1>2, <1>5 DEF TillInv, Backed
<1>9. ASSUME NEW k \in Shifts PROVE ShiftBalanced(k)'
  <2>1. CASE k # h
    <3>1. shifts'[k] = shifts[k] /\ EventsOf(k)' = EventsOf(k)
      BY <1>2, <1>4, <2>1 DEF EventsOf, TillInv, TillRows
    <3> QED BY <1>5, <3>1 DEF TillInv, ShiftBalanced, Drawn
  <2>2. CASE k = h
    <3>1. shifts'[k] = v /\ EventsOf(k) = {} /\ \A s \in {"captured", "reversed"} : CashOf(k, s) = {}
      BY <1>2, <2>2 DEF TillInv, TillRows, ShiftBalanced
    <3>2. EventsOf(k)' = {e}
      BY <1>2, <1>4, <2>2, <3>1 DEF EventsOf
    <3>3. Drawn({e}) = float
      <4>1. PICK f : f = [x \in {e} |-> x.amount]
        OBVIOUS
      <4>2. DOMAIN f = {e} /\ f[e] = float
        BY <1>4, <4>1
      <4> QED BY <4>1, <4>2, SumOne DEF Drawn
    <3>4. \A s \in {"captured", "reversed"} : Amounts(CashOf(k, s))' = 0
      <4>1. Amounts({}) = 0
        BY TenderedNone DEF Amounts, Tendered
      <4> QED BY <1>5, <3>1, <4>1
    <3> QED BY <1>3, <3>1, <3>2, <3>3, <3>4 DEF ShiftBalanced, Drawn
  <2> QED BY <2>1, <2>2
<1> QED BY <1>6, <1>7, <1>8, <1>9 DEF TillInv

\* Closing counts the drawer against what is expected (CloseCashShift).
LEMMA CloseKeepsTill ==
  ASSUME TillInv, NEW h \in Shifts, NEW expected \in Nat, NEW count \in Nat, handleCloseCash(h, expected, count)
  PROVE  TillInv'
<1>1. PICK v : v = shifts[h]
  OBVIOUS
<1>2. /\ v # None
      /\ shifts' = [shifts EXCEPT ![h].status = "closed", ![h].count = count,
                                  ![h].variance = count - shifts[h].expected, ![h].version = expected + 1]
      /\ audits' = audits + 1 /\ UNCHANGED <<cashEvents, bills, tenders, receipts, captures>>
  BY <1>1 DEF handleCloseCash, CloseCashShift, Audited, Exists
<1>3. v \in CashShift
  BY <1>1, <1>2 DEF TillInv, TillRows
<1>4. PICK d, w : d = count - v.expected /\ w = expected + 1
  OBVIOUS
<1>5. d \in Int /\ w \in Nat
  BY <1>3, <1>4 DEF CashShift
<1>6. PICK new : new = [register |-> v.register, status |-> "closed", float |-> v.float, expected |-> v.expected,
                        count |-> count, variance |-> d, version |-> w]
  OBVIOUS
<1>7. shifts' = [shifts EXCEPT ![h] = new]
  <2>1. PICK a : a = [v EXCEPT !.status = "closed"]
    OBVIOUS
  <2>2. a = [register |-> v.register, status |-> "closed", float |-> v.float, expected |-> v.expected,
             count |-> v.count, variance |-> v.variance, version |-> v.version]
    BY <1>3, <2>1 DEF CashShift
  <2>3. PICK b : b = [a EXCEPT !.count = count]
    OBVIOUS
  <2>4. b = [register |-> v.register, status |-> "closed", float |-> v.float, expected |-> v.expected,
             count |-> count, variance |-> v.variance, version |-> v.version]
    BY <2>2, <2>3
  <2>5. PICK c : c = [b EXCEPT !.variance = d]
    OBVIOUS
  <2>6. c = [register |-> v.register, status |-> "closed", float |-> v.float, expected |-> v.expected,
             count |-> count, variance |-> d, version |-> v.version]
    BY <2>4, <2>5
  <2>7. [c EXCEPT !.version = w] = new
    BY <1>6, <2>6
  <2>8. [v EXCEPT !.status = "closed", !.count = count, !.variance = d, !.version = w] = new
    BY <2>1, <2>3, <2>5, <2>7
  <2>9. shifts' = [shifts EXCEPT ![h] = [v EXCEPT !.status = "closed", !.count = count, !.variance = d, !.version = w]]
    BY <1>1, <1>2, <1>4
  <2> QED BY <2>8, <2>9
<1>8. new \in CashShift /\ new # None
  BY <1>3, <1>5, <1>6, CashDeskAssumption DEF CashShift
<1>9. /\ \A k, s : CashOf(k, s)' = CashOf(k, s) /\ Amounts(CashOf(k, s))' = Amounts(CashOf(k, s))
      /\ \A p, s : TendersOf(p, s)' = TendersOf(p, s) /\ Amounts(TendersOf(p, s))' = Amounts(TendersOf(p, s))
      /\ \A j : RefundsOf(j)' = RefundsOf(j) /\ Amounts(RefundsOf(j))' = Amounts(RefundsOf(j))
      /\ Issued' = Issued /\ \A k : EventsOf(k)' = EventsOf(k)
  BY <1>2 DEF CashOf, TendersOf, RefundsOf, Issued, Amounts, EventsOf
<1>10. TillRows'
  <2>1. shifts' \in [Shifts -> CashShift \cup {None}]
    BY <1>7, <1>8 DEF TillInv, TillRows
  <2> QED BY <1>2, <1>9, <2>1 DEF TillInv, TillRows
<1>11. BillRows'
  BY <1>2 DEF TillInv, BillRows
<1>12. Backed'
  BY <1>2, <1>9 DEF TillInv, Backed
<1>13. ASSUME NEW k \in Shifts PROVE ShiftBalanced(k)'
  <2>1. CASE k # h
    <3>1. shifts'[k] = shifts[k]
      BY <1>7, <2>1 DEF TillInv, TillRows
    <3> QED BY <1>9, <3>1 DEF TillInv, ShiftBalanced, Drawn
  <2>2. CASE k = h
    <3>1. shifts'[k] = new /\ new.float = v.float /\ new.expected = v.expected /\ new.variance = new.count - new.expected
      BY <1>4, <1>6, <1>7, <2>2 DEF TillInv, TillRows
    <3>2. shifts[k] # None /\ shifts[k] = v
      BY <1>1, <1>2, <2>2
    <3> QED BY <1>8, <1>9, <3>1, <3>2 DEF TillInv, ShiftBalanced, Drawn
  <2> QED BY <2>1, <2>2
<1> QED BY <1>10, <1>11, <1>12, <1>13 DEF TillInv

\* At the start no shift is open and no tender was booked.
LEMMA TillStart ==
  ASSUME CashDeskInit, audits = 0
  PROVE  TillInv
<1>1. /\ Issued = {} /\ \A o : TendersOf(o, "captured") = {}
      /\ \A h : EventsOf(h) = {} /\ CashOf(h, "captured") = {} /\ CashOf(h, "reversed") = {}
  BY DEF CashDeskInit, Issued, TendersOf, EventsOf, CashOf
<1>2. TillRows
  BY <1>1, FS_EmptySet DEF TillRows, CashDeskInit
<1>3. BillRows
  <2>1. ASSUME NEW o \in Bills, o \in DOMAIN PlacedBills PROVE [total |-> PlacedBills[o]] \in Totalled
    BY <2>1, CashDeskAssumption DEF Totalled
  <2> QED BY <2>1 DEF BillRows, CashDeskInit
<1>4. Backed
  BY DEF Backed, CashDeskInit
<1>5. \A h \in Shifts : ShiftBalanced(h)
  BY <1>1 DEF ShiftBalanced, CashDeskInit
<1> QED BY <1>2, <1>3, <1>4, <1>5 DEF TillInv

\* What a checkout is paid with is some new tenders of known types.
LEMMA TenderedTyped ==
  ASSUME TillInv, NEW tendered \in TenderedInput
  PROVE  /\ IsFiniteSet(DOMAIN tendered) /\ DOMAIN tendered \subseteq TenderIds
         /\ \A id \in DOMAIN tendered : /\ tendered[id].type \in TenderType /\ tendered[id].amount \in Nat
                                        /\ tendered[id].shift \in Shifts \cup {None}
<1>1. Fresh(tenders) \subseteq TenderIds
  BY DEF Fresh, TillInv, TillRows
<1>2. Amount \subseteq Nat
  BY DEF Amount
<1>3. ASSUME NEW id \in Fresh(tenders), NEW t \in TenderInput, tendered = PaidAtOnce(id, t)
      PROVE  /\ IsFiniteSet(DOMAIN tendered) /\ DOMAIN tendered \subseteq TenderIds
             /\ \A j \in DOMAIN tendered : tendered[j] = t
  <2>1. DOMAIN tendered = {id} /\ tendered[id] = t
    BY <1>3 DEF PaidAtOnce
  <2>2. IsFiniteSet({id}) /\ id \in TenderIds
    BY <1>1, FS_Singleton
  <2> QED BY <2>1, <2>2
<1>4. ASSUME NEW id \in {i \in Fresh(tenders) : i + 1 \in TenderIds}, NEW t \in TenderInput, NEW rest \in RestInput,
             tendered = PaidInTwo(id, t, rest)
      PROVE  /\ IsFiniteSet(DOMAIN tendered) /\ DOMAIN tendered \subseteq TenderIds
             /\ \A j \in DOMAIN tendered : tendered[j] \in {t, rest}
  <2>1. PICK next : next = id + 1
    OBVIOUS
  <2>2. DOMAIN tendered = {id, next} /\ next \in TenderIds /\ id \in TenderIds
    BY <1>1, <1>4, <2>1 DEF PaidInTwo
  <2>3. \A j \in {id, next} : tendered[j] \in {t, rest}
    BY <1>4, <2>1 DEF PaidInTwo
  <2>4. IsFiniteSet({id, next})
    <3>1. {id, next} = {id} \cup {next}
      OBVIOUS
    <3>2. IsFiniteSet({id})
      BY FS_Singleton
    <3>3. IsFiniteSet({id} \cup {next})
      BY <3>2, FS_AddElement
    <3> QED BY <3>1, <3>3
  <2> QED BY <2>2, <2>3, <2>4
<1>5. \A t \in TenderInput \cup RestInput : /\ t.type \in TenderType /\ t.amount \in Nat
                                            /\ t.shift \in Shifts \cup {None}
  BY <1>2 DEF TenderInput, RestInput, TenderType
<1>6. \/ \E id \in Fresh(tenders), t \in TenderInput : tendered = PaidAtOnce(id, t)
      \/ \E id \in {i \in Fresh(tenders) : i + 1 \in TenderIds}, t \in TenderInput, rest \in RestInput :
           tendered = PaidInTwo(id, t, rest)
  BY DEF TenderedInput
<1>7. CASE \E id \in Fresh(tenders), t \in TenderInput : tendered = PaidAtOnce(id, t)
  BY <1>3, <1>5, <1>7
<1>8. CASE \E id \in {i \in Fresh(tenders) : i + 1 \in TenderIds}, t \in TenderInput, rest \in RestInput :
             tendered = PaidInTwo(id, t, rest)
  <2>1. PICK id \in {i \in Fresh(tenders) : i + 1 \in TenderIds}, t \in TenderInput, rest \in RestInput :
          tendered = PaidInTwo(id, t, rest)
    BY <1>8
  <2>2. \A j \in DOMAIN tendered : tendered[j] \in TenderInput \cup RestInput
    BY <1>4, <2>1
  <2> QED BY <1>4, <1>5, <2>1, <2>2
<1> QED BY <1>6, <1>7, <1>8

\* The till stays balanced in every step of the cash desk.
LEMMA CashDeskKeepsTill == TillInv /\ [CashDeskNext]_<<audits, cashDeskVars>> => TillInv'
<1> SUFFICES ASSUME TillInv, [CashDeskNext]_<<audits, cashDeskVars>> PROVE TillInv'
  OBVIOUS
<1>1. CASE UNCHANGED <<audits, cashDeskVars>>
  BY <1>1, TillFrame DEF cashDeskVars, moneyVars
<1>2. CASE DiningNext
  <2>1. audits' = audits + 1 /\ UNCHANGED moneyVars
    BY <1>2 DEF DiningNext, handleCreateTable, CreateDiningTable, handleTableTransition, TransitionDiningTable,
         handleOpenSession, OpenDiningSession, handleCloseSession, CloseDiningSession, Audited
  <2> QED BY <2>1, TillFrame DEF moneyVars
<1>3. CASE CashNext
  <2>1. ASSUME NEW h \in Fresh(shifts), NEW r \in Registers, NEW float \in {1}, handleOpenCash(h, r, float) PROVE TillInv'
    <3>1. h \in Shifts
      BY DEF Fresh, TillInv, TillRows
    <3> QED BY <2>1, <3>1, OpenKeepsTill
  <2>2. ASSUME NEW h \in Shifts, NEW v \in 1..MaxOps, NEW count \in {0, MaxAmount}, handleCloseCash(h, v, count) PROVE TillInv'
    <3>1. v \in Nat /\ count \in Nat
      BY CashDeskAssumption
    <3> QED BY <2>2, <3>1, CloseKeepsTill
  <2>3. ASSUME NEW c \in captures, CaptureTender(c) PROVE TillInv'
    BY <2>3, CaptureKeepsTill
  <2>4. ASSUME NEW id \in Fresh(tenders), NEW original \in TenderIds, NEW h \in Shifts \cup {None}, NEW amount \in Amount,
               handleReverseTender(id, original, h, amount)
        PROVE  TillInv'
    <3>1. id \in TenderIds /\ amount \in Nat
      BY DEF Fresh, TillInv, TillRows, Amount
    <3> QED BY <2>4, <3>1, ReverseKeepsTill
  <2>5. CASE handleSettle
    BY <2>5, TillFrame DEF handleSettle, GenerateSettlements, Audited
  <2> QED BY <1>3, <2>1, <2>2, <2>3, <2>4, <2>5, Zenon DEF CashNext
<1>4. CASE CaptureNext
  <2>1. ASSUME NEW id \in TenderIds, NEW o \in DOMAIN PlacedBills, NEW type \in TenderType,
               NEW h \in Shifts \cup {None}, NEW amount \in Amount, handleCaptureTender(id, o, type, h, amount)
        PROVE  TillInv'
    <3>1. o \in Bills /\ amount \in Nat
      BY <2>1 DEF handleCaptureTender, Exists, TillInv, BillRows, Amount
    <3> QED BY <2>1, <3>1, BeginKeepsTill
  <2>2. ASSUME NEW c \in captures, CaptureTenderRefused(c) PROVE TillInv'
    BY <2>2, TillFrame DEF CaptureTenderRefused
  <2> QED BY <1>4, <2>1, <2>2, Zenon DEF CaptureNext
<1>5. CASE CheckoutNext
  <2>1. ASSUME NEW i \in Items, NEW b \in BOOLEAN, NEW reason \in {None, "sold out"}, handleSetAvailability(i, b, reason)
        PROVE  TillInv'
    BY <2>1, TillFrame DEF handleSetAvailability, SetMenuAvailability, Audited, moneyVars
  <2>2. CASE SaleNext
    <3>1. PICK o \in Fresh(bills), version \in DOMAIN Catalog, lines \in LinesInput, discount \in {0, 1},
               charges \in {0, 1}, token \in TokenNames \cup {None}, tendered \in TenderedInput :
            handleCheckoutPOS(o, version, lines, discount, charges, token, tendered)
      BY <2>2 DEF SaleNext
    <3>2. o \in Bills
      BY DEF Fresh, TillInv, BillRows
    <3>3. CheckoutPOS(o, version, lines, discount, charges, token, tendered)
      BY <3>1 DEF handleCheckoutPOS
    <3>4. /\ IsFiniteSet(DOMAIN tendered) /\ DOMAIN tendered \subseteq TenderIds
          /\ \A id \in DOMAIN tendered : /\ tendered[id].type \in TenderType /\ tendered[id].amount \in Nat
                                         /\ tendered[id].shift \in Shifts \cup {None}
      BY TenderedTyped
    <3> QED BY <3>2, <3>3, <3>4, CheckoutKeepsTill
  <2>3. CASE SlipNext
    <3>1. audits' = audits + 1 /\ UNCHANGED moneyVars
      BY <2>3 DEF SlipNext, handlePrintJobAction, AcknowledgeKitchenPrintJob, handleCreatePrintJob,
           CreateKitchenPrintJob, handleIssuePickupToken, IssuePickupToken, handlePickupTokenTransition,
           TransitionPickupToken, Audited
    <3> QED BY <3>1, TillFrame DEF moneyVars
  <2> QED BY <1>5, <2>1, <2>2, <2>3, Zenon DEF CheckoutNext
<1> QED BY <1>1, <1>2, <1>3, <1>4, <1>5 DEF CashDeskNext

\* For all registers, shifts, tenders and checkouts: what a shift expects in the drawer is its float with
\* the cash tenders captured less the ones reversed, is the sum of its cash events, and is what the count
\* was compared with at closing, whichever requests ran in between (CaptureTender, ReverseTender,
\* CheckoutPOS, CloseCashShift).
THEOREM DrawersAreBalanced == CashDeskSpec => []DrawerBalanced
<1>1. TillInv => DrawerBalanced
  BY DEF TillInv, ShiftBalanced, DrawerBalanced, EventsOf, CashOf, Drawn
<1> QED BY <1>1, TillStart, CashDeskKeepsTill, PTL DEF CashDeskSpec

\* For all bills and tenders: a receipt was issued on tenders captured for at least the bill's total,
\* although a capture reads what is paid before another one commits, and no tender was refunded beyond
\* its amount (CaptureTender, CheckoutPOS, ReverseTender).
THEOREM ReceiptsAreBacked == CashDeskSpec => []ReceiptsBacked
<1>1. TillInv => ReceiptsBacked
  BY DEF TillInv, Backed, ReceiptsBacked, RefundsOf, Exists
<1> QED BY <1>1, TillStart, CashDeskKeepsTill, PTL DEF CashDeskSpec

-----------------------------------------------------------------------------
(* Guest histories *)

ConsentsOf(g) == {e \in consentEvents : e.guest = g}
PointsOf(g) == {e \in loyaltyEvents : e.guest = g}
UsesOf(p) == {e \in redemptions : e.promotion = p}
Points(S) == SumOf([e \in S |-> e.delta])

GuestRows ==
  /\ audits \in Nat
  /\ guests \in [GuestIds -> GuestProfile \cup {None}]
  /\ accounts \in [GuestIds -> LoyaltyAccount \cup {None}]
  /\ promotions \in [PromotionIds -> Promotion \cup {None}]
  /\ \A g \in GuestIds : guests[g] = None <=> accounts[g] = None

\* An event carries the number of its mutation, so a new one is later than all others.
GuestEvents ==
  /\ IsFiniteSet(loyaltyEvents) /\ IsFiniteSet(redemptions)
  /\ \A e \in consentEvents : e.op \in Nat /\ e.op < audits /\ e.granted \in BOOLEAN
  /\ \A e \in loyaltyEvents : e.op \in Nat /\ e.op < audits /\ e.delta \in Int
  /\ \A e \in redemptions : e.op \in Nat /\ e.op < audits /\ e.discount <= e.basket

ConsentLatest(g) ==
  guests[g].consent = \E e \in ConsentsOf(g) : e.granted /\ \A f \in ConsentsOf(g) : f.op <= e.op

PointsAddUp(g) ==
  /\ accounts[g].balance = Points(PointsOf(g))
  /\ accounts[g].lifetime = Points({e \in PointsOf(g) : e.delta > 0})
  /\ \A e \in PointsOf(g) : Points({f \in PointsOf(g) : f.op <= e.op}) >= 0

UsesCounted(p) ==
  /\ Cardinality(UsesOf(p)) = promotions[p].count
  /\ promotions[p].limit # None => promotions[p].count <= promotions[p].limit

GuestInv ==
  /\ GuestRows /\ GuestEvents
  /\ \A g \in GuestIds : IF guests[g] = None THEN ConsentsOf(g) = {} /\ PointsOf(g) = {}
                         ELSE ConsentLatest(g) /\ PointsAddUp(g)
  /\ \A p \in PromotionIds : IF promotions[p] = None THEN UsesOf(p) = {} ELSE UsesCounted(p)

\* Points of a history that gets one more event.
LEMMA PointsAdd ==
  ASSUME NEW S, NEW e, IsFiniteSet(S), \A x \in S : x.delta \in Int, e \notin S, e.delta \in Int
  PROVE  Points(S) \in Int /\ Points(S \cup {e}) = Points(S) + e.delta
<1>1. PICK f, h : f = [x \in S |-> x.delta] /\ h = [x \in S \cup {e} |-> x.delta]
  OBVIOUS
<1>2. Amounted(f)
  BY <1>1 DEF Amounted
<1>3. e \notin DOMAIN f /\ DOMAIN h = DOMAIN f \cup {e} /\ (\A y \in DOMAIN f : h[y] = f[y]) /\ h[e] = e.delta
  BY <1>1
<1>4. SumOf(h) = SumOf(f) + h[e] /\ SumOf(f) \in Int
  BY <1>2, <1>3, SumAdd, SumInt
<1> QED BY <1>1, <1>3, <1>4 DEF Points

\* No events give no points.
LEMMA PointsNone == Points({}) = 0
BY SumEmpty DEF Points

\* At the start there are no guests and no promotions.
LEMMA GuestStart ==
  ASSUME GuestInit, audits = 0
  PROVE  GuestInv
<1>1. GuestRows
  BY DEF GuestRows, GuestInit
<1>2. GuestEvents
  BY FS_EmptySet DEF GuestEvents, GuestInit
<1> QED BY <1>1, <1>2 DEF GuestInv, GuestInit, ConsentsOf, PointsOf, UsesOf

\* A profile's consent is about one guest; what another guest has is left alone.
LEMMA ConsentFrame ==
  ASSUME NEW g \in GuestIds, guests'[g] = guests[g], accounts'[g] = accounts[g],
         ConsentsOf(g)' = ConsentsOf(g), PointsOf(g)' = PointsOf(g),
         IF guests[g] = None THEN ConsentsOf(g) = {} /\ PointsOf(g) = {} ELSE ConsentLatest(g) /\ PointsAddUp(g)
  PROVE  IF guests'[g] = None THEN ConsentsOf(g)' = {} /\ PointsOf(g)' = {}
         ELSE ConsentLatest(g)' /\ PointsAddUp(g)'
<1>1. CASE guests[g] = None
  BY <1>1
<1>2. CASE guests[g] # None
  <2>1. ConsentLatest(g)'
    BY <1>2 DEF ConsentLatest
  <2>2. PointsAddUp(g)'
    BY <1>2 DEF PointsAddUp, Points
  <2> QED BY <1>2, <2>1, <2>2
<1> QED BY <1>1, <1>2

\* A promotion whose row and redemptions are left alone stays counted.
LEMMA UsesFrame ==
  ASSUME NEW p \in PromotionIds, promotions'[p] = promotions[p], UsesOf(p)' = UsesOf(p),
         IF promotions[p] = None THEN UsesOf(p) = {} ELSE UsesCounted(p)
  PROVE  IF promotions'[p] = None THEN UsesOf(p)' = {} ELSE UsesCounted(p)'
BY DEF UsesCounted

\* A new guest has an empty account, and a consent event if it consents (CreateGuest).
LEMMA CreateKeepsHistories ==
  ASSUME GuestInv, NEW g \in GuestIds, NEW phone \in Phones \cup {None}, NEW consent \in BOOLEAN,
         handleCreateGuest(g, phone, consent)
  PROVE  GuestInv'
<1> USE DEF handleCreateGuest, CreateGuest, Audited
<1>1. guests[g] = None /\ audits' = audits + 1
  OBVIOUS
<1>2. PICK row, account : /\ row = [phone |-> phone, consent |-> consent, version |-> 1]
                          /\ account = [balance |-> 0, lifetime |-> 0, version |-> 1]
  OBVIOUS
<1>3. guests' = [guests EXCEPT ![g] = row] /\ accounts' = [accounts EXCEPT ![g] = account]
  BY <1>2
<1>4. row \in GuestProfile /\ account \in LoyaltyAccount /\ row # None /\ account # None
  BY <1>2, GuestsAssumption DEF GuestProfile, LoyaltyAccount
<1>5. GuestRows'
  <2>1. guests' \in [GuestIds -> GuestProfile \cup {None}] /\ accounts' \in [GuestIds -> LoyaltyAccount \cup {None}]
    BY <1>3, <1>4 DEF GuestInv, GuestRows
  <2>2. \A h \in GuestIds : guests'[h] = None <=> accounts'[h] = None
    BY <1>3, <1>4 DEF GuestInv, GuestRows
  <2> QED BY <2>1, <2>2 DEF GuestInv, GuestRows
<1>6. GuestEvents'
  <2>1. \A e \in consentEvents' : e.op \in Nat /\ e.op < audits' /\ e.granted \in BOOLEAN
    <3>1. \A e \in consentEvents : e.op \in Nat /\ e.op < audits + 1 /\ e.granted \in BOOLEAN
      BY DEF GuestInv, GuestRows, GuestEvents
    <3>2. CASE consent
      <4>1. PICK n : n = [op |-> audits, guest |-> g, granted |-> TRUE]
        OBVIOUS
      <4>2. n.op = audits /\ n.granted \in BOOLEAN /\ audits \in Nat
        BY <4>1 DEF GuestInv, GuestRows
      <4>3. consentEvents' = consentEvents \cup {n}
        BY <3>2, <4>1
      <4> QED BY <1>1, <3>1, <4>2, <4>3
    <3>3. CASE ~consent
      BY <3>1, <3>3
    <3> QED BY <3>2, <3>3
  <2> QED BY <2>1 DEF GuestInv, GuestRows, GuestEvents
<1>7. ASSUME NEW h \in GuestIds
      PROVE  IF guests'[h] = None THEN ConsentsOf(h)' = {} /\ PointsOf(h)' = {}
             ELSE ConsentLatest(h)' /\ PointsAddUp(h)'
  <2>1. CASE h # g
    <3>1. guests'[h] = guests[h] /\ accounts'[h] = accounts[h]
      BY <1>3, <2>1 DEF GuestInv, GuestRows
    <3>2. ConsentsOf(h)' = ConsentsOf(h) /\ PointsOf(h)' = PointsOf(h)
      BY <2>1 DEF ConsentsOf, PointsOf
    <3> QED BY <3>1, <3>2, ConsentFrame DEF GuestInv
  <2>2. CASE h = g
    <3>1. guests'[h] = row /\ accounts'[h] = account
      BY <1>3, <2>2 DEF GuestInv, GuestRows
    <3>2. ConsentsOf(h) = {} /\ PointsOf(h) = {}
      BY <1>1, <2>2 DEF GuestInv
    <3>3. PointsOf(h)' = {}
      BY <3>2 DEF PointsOf
    <3>4. PointsAddUp(h)'
      <4>1. {e \in PointsOf(h)' : e.delta > 0} = {}
        BY <3>3
      <4> QED BY <1>2, <3>1, <3>3, <4>1, PointsNone DEF PointsAddUp, Points
    <3>5. ConsentLatest(h)'
      <4>1. CASE consent
        <5>1. PICK e : e = [op |-> audits, guest |-> g, granted |-> TRUE]
          OBVIOUS
        <5>2. ConsentsOf(h)' = {e}
          BY <2>2, <3>2, <4>1, <5>1 DEF ConsentsOf
        <5>3. e.granted /\ e.op <= e.op
          BY <5>1 DEF GuestInv, GuestRows
        <5>4. guests'[h].consent = TRUE
          BY <1>2, <3>1, <4>1
        <5> QED BY <5>2, <5>3, <5>4 DEF ConsentLatest
      <4>2. CASE ~consent
        <5>1. ConsentsOf(h)' = {}
          BY <3>2, <4>2 DEF ConsentsOf
        <5>2. guests'[h].consent = FALSE
          BY <1>2, <3>1, <4>2
        <5> QED BY <5>1, <5>2 DEF ConsentLatest
      <4> QED BY <4>1, <4>2
    <3> QED BY <1>4, <3>1, <3>4, <3>5
  <2> QED BY <2>1, <2>2
<1>8. ASSUME NEW p \in PromotionIds
      PROVE  IF promotions'[p] = None THEN UsesOf(p)' = {} ELSE UsesCounted(p)'
  <2>1. promotions'[p] = promotions[p] /\ UsesOf(p)' = UsesOf(p)
    BY DEF UsesOf
  <2> QED BY <2>1, UsesFrame DEF GuestInv
<1> QED BY <1>5, <1>6, <1>7, <1>8 DEF GuestInv

\* The latest consent event says what the profile says (SetGuestConsent).
LEMMA ConsentKeepsHistories ==
  ASSUME GuestInv, NEW g \in GuestIds, NEW granted \in BOOLEAN, NEW v \in 1..MaxOps, handleGuestConsent(g, granted, v)
  PROVE  GuestInv'
<1> USE DEF handleGuestConsent, SetGuestConsent, Audited
<1>1. guests[g] # None /\ audits' = audits + 1 /\ v \in Nat
  BY DEF Exists
<1>2. PICK row, event : /\ row = [guests[g] EXCEPT !.consent = granted, !.version = v + 1]
                        /\ event = [op |-> audits, guest |-> g, granted |-> granted]
  OBVIOUS
<1>3. guests' = [guests EXCEPT ![g] = row] /\ consentEvents' = consentEvents \cup {event}
  BY <1>2
<1>4. guests[g] \in GuestProfile
  BY <1>1 DEF GuestInv, GuestRows
<1>5. row \in GuestProfile /\ row.consent = granted /\ row # None
  <2>1. row = [phone |-> guests[g].phone, consent |-> granted, version |-> v + 1]
    BY <1>2, <1>4 DEF GuestProfile
  <2>2. guests[g].phone \in Phones \cup {None}
    BY <1>4 DEF GuestProfile
  <2>3. row \in GuestProfile
    BY <1>1, <2>1, <2>2 DEF GuestProfile
  <2> QED BY <2>1, <2>3, GuestsAssumption
<1>6. GuestRows'
  <2>1. guests' \in [GuestIds -> GuestProfile \cup {None}]
    BY <1>3, <1>5 DEF GuestInv, GuestRows
  <2>2. \A h \in GuestIds : guests'[h] = None <=> guests[h] = None
    BY <1>1, <1>3, <1>5 DEF GuestInv, GuestRows
  <2> QED BY <2>1, <2>2 DEF GuestInv, GuestRows
<1>7. GuestEvents'
  BY <1>1 DEF GuestInv, GuestRows, GuestEvents
<1>8. ASSUME NEW h \in GuestIds
      PROVE  IF guests'[h] = None THEN ConsentsOf(h)' = {} /\ PointsOf(h)' = {}
             ELSE ConsentLatest(h)' /\ PointsAddUp(h)'
  <2>0. PointsOf(h)' = PointsOf(h) /\ accounts'[h] = accounts[h]
    BY DEF PointsOf
  <2>1. CASE h # g
    <3>1. guests'[h] = guests[h]
      BY <1>3, <2>1 DEF GuestInv, GuestRows
    <3>2. ConsentsOf(h)' = ConsentsOf(h)
      BY <2>1 DEF ConsentsOf
    <3> QED BY <2>0, <3>1, <3>2, ConsentFrame DEF GuestInv
  <2>2. CASE h = g
    <3>1. guests'[h] = row
      BY <1>3, <2>2 DEF GuestInv, GuestRows
    <3>2. ConsentsOf(h)' = ConsentsOf(h) \cup {event}
      BY <1>2, <1>3, <2>2 DEF ConsentsOf
    <3>3. \A f \in ConsentsOf(h) : f.op \in Nat /\ f.op < audits
      BY DEF ConsentsOf, GuestInv, GuestEvents
    <3>4. event.op = audits /\ event.granted = granted /\ audits \in Nat
      BY <1>2 DEF GuestInv, GuestRows
    <3>5. (\E e \in ConsentsOf(h)' : e.granted /\ \A f \in ConsentsOf(h)' : f.op <= e.op) <=> granted
      BY <3>2, <3>3, <3>4
    <3>6. ConsentLatest(h)'
      BY <1>5, <3>1, <3>5 DEF ConsentLatest
    <3>7. PointsAddUp(h)
      BY <1>1, <2>2 DEF GuestInv
    <3>8. PointsAddUp(h)'
      BY <2>0, <3>7 DEF PointsAddUp, Points
    <3> QED BY <1>5, <3>1, <3>6, <3>8
  <2> QED BY <2>1, <2>2
<1>9. ASSUME NEW p \in PromotionIds
      PROVE  IF promotions'[p] = None THEN UsesOf(p)' = {} ELSE UsesCounted(p)'
  <2>1. promotions'[p] = promotions[p] /\ UsesOf(p)' = UsesOf(p)
    BY DEF UsesOf
  <2> QED BY <2>1, UsesFrame DEF GuestInv
<1> QED BY <1>6, <1>7, <1>8, <1>9 DEF GuestInv

\* A new promotion was not redeemed yet (CreatePromotion).
LEMMA PromotionKeepsHistories ==
  ASSUME GuestInv, NEW p \in PromotionIds, NEW v \in Promotion, v.count = 0, CreatePromotion(p, v)
  PROVE  GuestInv'
<1> USE DEF CreatePromotion, Audited
<1>1. promotions[p] = None /\ promotions' = [promotions EXCEPT ![p] = v] /\ v # None
  BY GuestsAssumption
<1>2. GuestRows'
  BY <1>1 DEF GuestInv, GuestRows
<1>3. GuestEvents'
  BY DEF GuestInv, GuestRows, GuestEvents
<1>4. ASSUME NEW g \in GuestIds
      PROVE  IF guests'[g] = None THEN ConsentsOf(g)' = {} /\ PointsOf(g)' = {}
             ELSE ConsentLatest(g)' /\ PointsAddUp(g)'
  <2>1. ConsentsOf(g)' = ConsentsOf(g) /\ PointsOf(g)' = PointsOf(g)
    BY DEF ConsentsOf, PointsOf
  <2> QED BY <2>1, ConsentFrame DEF GuestInv
<1>5. ASSUME NEW q \in PromotionIds
      PROVE  IF promotions'[q] = None THEN UsesOf(q)' = {} ELSE UsesCounted(q)'
  <2>1. UsesOf(q)' = UsesOf(q)
    BY DEF UsesOf
  <2>2. CASE q # p
    <3>1. promotions'[q] = promotions[q]
      BY <1>1, <2>2 DEF GuestInv, GuestRows
    <3> QED BY <2>1, <3>1, UsesFrame DEF GuestInv
  <2>3. CASE q = p
    <3>1. promotions'[q] = v /\ UsesOf(q) = {}
      BY <1>1, <2>3 DEF GuestInv, GuestRows
    <3>2. Cardinality(UsesOf(q)') = 0
      BY <2>1, <3>1, FS_EmptySet
    <3>3. v.limit # None => v.limit \in Nat
      BY DEF Promotion
    <3> QED BY <1>1, <3>1, <3>2, <3>3 DEF UsesCounted
  <2> QED BY <2>2, <2>3
<1> QED BY <1>2, <1>3, <1>4, <1>5 DEF GuestInv

\* A redemption is counted and stays within the limit (RedeemPromotion).
LEMMA RedeemKeepsHistories ==
  ASSUME GuestInv, NEW p \in PromotionIds, NEW basket \in Nat, handleRedeemPromotion(p, basket)
  PROVE  GuestInv'
<1>1. PICK v : v = promotions[p]
  OBVIOUS
<1>2. PICK d : d = IF v.type = "percentage" THEN (basket * v.value) \div 10000 ELSE v.value
  OBVIOUS
<1>3. PICK use : use = [op |-> audits, promotion |-> p, basket |-> basket,
                        discount |-> IF d > basket THEN basket ELSE d]
  OBVIOUS
<1>4. PICK row : row = [v EXCEPT !.count = @ + 1]
  OBVIOUS
<1>5. /\ v # None /\ (v.limit # None => v.count < v.limit) /\ audits' = audits + 1
      /\ redemptions' = redemptions \cup {use} /\ promotions' = [promotions EXCEPT ![p] = row]
      /\ UNCHANGED <<guests, consentEvents, accounts, loyaltyEvents>>
  BY <1>1, <1>2, <1>3, <1>4 DEF handleRedeemPromotion, RedeemPromotion, Audited, Exists
<1>6. v \in Promotion
  BY <1>1, <1>5 DEF GuestInv, GuestRows
<1>7. row \in Promotion /\ row.count = v.count + 1 /\ row.limit = v.limit /\ row # None
  BY <1>4, <1>6, GuestsAssumption DEF Promotion
<1>8. use.discount <= use.basket /\ use.op = audits /\ use.promotion = p
  <2>1. d \in Int
    BY <1>2, <1>6 DEF Promotion
  <2> QED BY <1>3, <2>1
<1>9. GuestRows'
  BY <1>5, <1>7 DEF GuestInv, GuestRows
<1>10. GuestEvents'
  <2>1. IsFiniteSet(redemptions')
    BY <1>5, FS_AddElement DEF GuestInv, GuestEvents
  <2>2. \A e \in redemptions' : e.op \in Nat /\ e.op < audits' /\ e.discount <= e.basket
    BY <1>5, <1>8 DEF GuestInv, GuestRows, GuestEvents
  <2> QED BY <1>5, <2>1, <2>2 DEF GuestInv, GuestRows, GuestEvents
<1>11. ASSUME NEW g \in GuestIds
       PROVE  IF guests'[g] = None THEN ConsentsOf(g)' = {} /\ PointsOf(g)' = {}
              ELSE ConsentLatest(g)' /\ PointsAddUp(g)'
  <2>1. ConsentsOf(g)' = ConsentsOf(g) /\ PointsOf(g)' = PointsOf(g)
    BY <1>5 DEF ConsentsOf, PointsOf
  <2> QED BY <1>5, <2>1, ConsentFrame DEF GuestInv
<1>12. ASSUME NEW q \in PromotionIds
       PROVE  IF promotions'[q] = None THEN UsesOf(q)' = {} ELSE UsesCounted(q)'
  <2>1. CASE q # p
    <3>1. UsesOf(q)' = UsesOf(q) /\ promotions'[q] = promotions[q]
      BY <1>5, <1>8, <2>1 DEF UsesOf, GuestInv, GuestRows
    <3> QED BY <3>1, UsesFrame DEF GuestInv
  <2>2. CASE q = p
    <3>1. promotions'[q] = row /\ UsesOf(q)' = UsesOf(q) \cup {use}
      BY <1>5, <1>8, <2>2 DEF UsesOf, GuestInv, GuestRows
    <3>2. use \notin UsesOf(q)
      BY <1>8 DEF UsesOf, GuestInv, GuestEvents, GuestRows
    <3>3. IsFiniteSet(UsesOf(q)) /\ Cardinality(UsesOf(q)) = v.count
      <4>1. UsesOf(q) \in SUBSET redemptions
        BY DEF UsesOf
      <4> QED BY <1>1, <1>5, <2>2, <4>1, FS_Subset DEF GuestInv, GuestEvents, UsesCounted
    <3>4. Cardinality(UsesOf(q)') = v.count + 1
      BY <3>1, <3>2, <3>3, FS_AddElement
    <3>5. row.limit # None => row.count <= row.limit
      BY <1>5, <1>6, <1>7 DEF Promotion
    <3> QED BY <1>7, <3>1, <3>4, <3>5 DEF UsesCounted
  <2> QED BY <2>1, <2>2
<1> QED BY <1>9, <1>10, <1>11, <1>12 DEF GuestInv

\* An adjustment that leaves no debt goes into the balance and, if it earns, into the lifetime.
LEMMA LoyaltyKeepsHistories ==
  ASSUME GuestInv, NEW g \in GuestIds, NEW type, NEW delta \in Int, NEW v \in 1..MaxOps,
         handleLoyaltyEvent(g, type, delta, v)
  PROVE  GuestInv'
<1>1. PICK old, e : /\ old = accounts[g]
                    /\ e = [op |-> audits, guest |-> g, type |-> type, delta |-> delta]
  OBVIOUS
<1>2. PICK row : row = [balance |-> old.balance + delta, version |-> v + 1,
                        lifetime |-> old.lifetime + IF delta > 0 THEN delta ELSE 0]
  OBVIOUS
<1>3. /\ old # None /\ old.balance + delta >= 0 /\ audits' = audits + 1
      /\ accounts' = [accounts EXCEPT ![g].balance = @ + delta, ![g].version = v + 1,
                                      ![g].lifetime = @ + IF delta > 0 THEN delta ELSE 0]
      /\ loyaltyEvents' = loyaltyEvents \cup {e}
      /\ UNCHANGED <<guests, consentEvents, promotions, redemptions>>
  BY <1>1 DEF handleLoyaltyEvent, AdjustLoyalty, Audited, Exists
<1>4. old \in LoyaltyAccount
  BY <1>1, <1>3 DEF GuestInv, GuestRows
<1>5. accounts' = [accounts EXCEPT ![g] = row]
  <2>1. PICK gain : gain = IF delta > 0 THEN delta ELSE 0
    OBVIOUS
  <2>2. PICK b, l : b = old.balance + delta /\ l = old.lifetime + gain
    OBVIOUS
  <2>3. [old EXCEPT !.balance = b, !.version = v + 1, !.lifetime = l] = [balance |-> b, version |-> v + 1, lifetime |-> l]
    <3>1. PICK x : x = [old EXCEPT !.balance = b]
      OBVIOUS
    <3>2. x = [balance |-> b, version |-> old.version, lifetime |-> old.lifetime]
      BY <1>4, <3>1 DEF LoyaltyAccount
    <3>3. PICK y : y = [x EXCEPT !.version = v + 1]
      OBVIOUS
    <3>4. y = [balance |-> b, version |-> v + 1, lifetime |-> old.lifetime]
      BY <3>2, <3>3
    <3>5. [y EXCEPT !.lifetime = l] = [balance |-> b, version |-> v + 1, lifetime |-> l]
      BY <3>4
    <3> QED BY <3>1, <3>3, <3>5
  <2>4. accounts' = [accounts EXCEPT ![g] = [old EXCEPT !.balance = b, !.version = v + 1, !.lifetime = l]]
    BY <1>1, <1>3, <2>1, <2>2
  <2>5. row = [balance |-> b, version |-> v + 1, lifetime |-> l]
    BY <1>2, <2>1, <2>2
  <2> QED BY <2>3, <2>4, <2>5
<1>6. row \in LoyaltyAccount /\ row # None
  BY <1>2, <1>3, <1>4, GuestsAssumption DEF LoyaltyAccount
<1>7. GuestRows'
  <2>1. \A h \in GuestIds : accounts'[h] = None <=> accounts[h] = None
    BY <1>1, <1>3, <1>5, <1>6 DEF GuestInv, GuestRows
  <2>2. accounts' \in [GuestIds -> LoyaltyAccount \cup {None}]
    BY <1>5, <1>6 DEF GuestInv, GuestRows
  <2> QED BY <1>3, <2>1, <2>2 DEF GuestInv, GuestRows
<1>8. GuestEvents'
  <2>1. IsFiniteSet(loyaltyEvents')
    BY <1>3, FS_AddElement DEF GuestInv, GuestEvents
  <2>2. \A f \in loyaltyEvents' : f.op \in Nat /\ f.op < audits' /\ f.delta \in Int
    BY <1>1, <1>3 DEF GuestInv, GuestRows, GuestEvents
  <2> QED BY <1>3, <2>1, <2>2 DEF GuestInv, GuestRows, GuestEvents
<1>9. ASSUME NEW h \in GuestIds
      PROVE  IF guests'[h] = None THEN ConsentsOf(h)' = {} /\ PointsOf(h)' = {}
             ELSE ConsentLatest(h)' /\ PointsAddUp(h)'
  <2>0. ConsentsOf(h)' = ConsentsOf(h) /\ guests'[h] = guests[h]
    BY <1>3 DEF ConsentsOf
  <2>1. CASE h # g
    <3>1. PointsOf(h)' = PointsOf(h) /\ accounts'[h] = accounts[h]
      BY <1>1, <1>3, <1>5, <2>1 DEF PointsOf, GuestInv, GuestRows
    <3> QED BY <2>0, <3>1, ConsentFrame DEF GuestInv
  <2>2. CASE h = g
    <3>1. guests[h] # None /\ ConsentLatest(h) /\ PointsAddUp(h) /\ accounts'[h] = row
      BY <1>1, <1>3, <1>5, <2>2 DEF GuestInv, GuestRows
    <3>2. PICK P : P = PointsOf(h)
      OBVIOUS
    <3>3. /\ PointsOf(h)' = P \cup {e} /\ e \notin P /\ IsFiniteSet(P)
          /\ \A f \in P : f.op \in Nat /\ f.op < audits /\ f.delta \in Int
      <4>1. P \in SUBSET loyaltyEvents
        BY <3>2 DEF PointsOf
      <4>2. \A f \in P : f.op \in Nat /\ f.op < audits /\ f.delta \in Int
        BY <4>1 DEF GuestInv, GuestEvents
      <4>3. e \notin P
        BY <1>1, <4>2 DEF GuestInv, GuestRows
      <4>4. PointsOf(h)' = P \cup {e}
        BY <1>1, <1>3, <2>2, <3>2 DEF PointsOf
      <4> QED BY <4>1, <4>2, <4>3, <4>4, FS_Subset DEF GuestInv, GuestEvents
    <3>4. e.delta = delta /\ e.op = audits /\ audits \in Nat
      BY <1>1 DEF GuestInv, GuestRows
    <3>5. Points(P) = old.balance /\ Points({f \in P : f.delta > 0}) = old.lifetime
      BY <1>1, <2>2, <3>1, <3>2 DEF PointsAddUp
    <3>6. Points(P \cup {e}) = row.balance
      BY <1>2, <3>3, <3>4, <3>5, PointsAdd
    <3>7. Points({f \in P \cup {e} : f.delta > 0}) = row.lifetime
      <4>1. PICK Q : Q = {f \in P : f.delta > 0}
        OBVIOUS
      <4>2. IsFiniteSet(Q) /\ e \notin Q /\ \A f \in Q : f.delta \in Int
        BY <3>3, <4>1, FS_Subset
      <4>3. CASE delta > 0
        <5>1. {f \in P \cup {e} : f.delta > 0} = Q \cup {e}
          BY <3>4, <4>1, <4>3
        <5>2. Points(Q \cup {e}) = Points(Q) + delta
          BY <3>4, <4>2, PointsAdd
        <5> QED BY <1>2, <3>5, <4>1, <4>3, <5>1, <5>2
      <4>4. CASE ~(delta > 0)
        <5>1. {f \in P \cup {e} : f.delta > 0} = Q
          BY <3>4, <4>1, <4>4
        <5>2. row.lifetime = old.lifetime
          <6>1. row.lifetime = old.lifetime + 0 /\ old.lifetime \in Nat
            BY <1>2, <1>4, <4>4 DEF LoyaltyAccount
          <6> QED BY <6>1
        <5> QED BY <3>5, <4>1, <5>1, <5>2, Zenon
      <4> QED BY <4>3, <4>4
    <3>8. ASSUME NEW x \in P \cup {e} PROVE Points({f \in P \cup {e} : f.op <= x.op}) >= 0
      <4>1. CASE x = e
        <5>1. {f \in P \cup {e} : f.op <= x.op} = P \cup {e}
          BY <3>3, <3>4, <4>1
        <5> QED BY <1>2, <1>3, <3>6, <5>1
      <4>2. CASE x # e
        <5>1. {f \in P \cup {e} : f.op <= x.op} = {f \in P : f.op <= x.op}
          BY <3>3, <3>4, <4>2
        <5>2. Points({f \in P : f.op <= x.op}) >= 0
          BY <3>1, <3>2, <4>2 DEF PointsAddUp
        <5> QED BY <5>1, <5>2
      <4> QED BY <4>1, <4>2
    <3>9. PointsAddUp(h)'
      <4>1. PointsOf(h)' = P \cup {e} /\ accounts'[h] = row
        BY <3>1, <3>3
      <4> QED BY <3>6, <3>7, <3>8, <4>1 DEF PointsAddUp, Points
    <3>10. ConsentLatest(h)'
      BY <2>0, <3>1 DEF ConsentLatest
    <3> QED BY <2>0, <3>1, <3>9, <3>10
  <2> QED BY <2>1, <2>2
<1>10. ASSUME NEW p \in PromotionIds
       PROVE  IF promotions'[p] = None THEN UsesOf(p)' = {} ELSE UsesCounted(p)'
  <2>1. promotions'[p] = promotions[p] /\ UsesOf(p)' = UsesOf(p)
    BY <1>3 DEF UsesOf
  <2> QED BY <2>1, UsesFrame DEF GuestInv
<1> QED BY <1>7, <1>8, <1>9, <1>10 DEF GuestInv

\* Reservations and the passing of time.
LEMMA GuestsUntouched ==
  ASSUME GuestInv, UNCHANGED <<guests, consentEvents, promotions, redemptions, accounts, loyaltyEvents>>,
         audits' \in {audits, audits + 1}
  PROVE  GuestInv'
<1>1. GuestRows'
  BY DEF GuestInv, GuestRows
<1>2. GuestEvents'
  BY DEF GuestInv, GuestRows, GuestEvents
<1>3. ASSUME NEW g \in GuestIds
      PROVE  IF guests'[g] = None THEN ConsentsOf(g)' = {} /\ PointsOf(g)' = {}
             ELSE ConsentLatest(g)' /\ PointsAddUp(g)'
  <2>1. ConsentsOf(g)' = ConsentsOf(g) /\ PointsOf(g)' = PointsOf(g)
    BY DEF ConsentsOf, PointsOf
  <2> QED BY <2>1, ConsentFrame DEF GuestInv
<1>4. ASSUME NEW p \in PromotionIds
      PROVE  IF promotions'[p] = None THEN UsesOf(p)' = {} ELSE UsesCounted(p)'
  <2>1. promotions'[p] = promotions[p] /\ UsesOf(p)' = UsesOf(p)
    BY DEF UsesOf
  <2> QED BY <2>1, UsesFrame DEF GuestInv
<1> QED BY <1>1, <1>2, <1>3, <1>4 DEF GuestInv

\* The inductive invariant says that rows and histories agree.
LEMMA HistoriesFollow == GuestInv => HistoriesAgree
<1> SUFFICES ASSUME GuestInv PROVE HistoriesAgree
  OBVIOUS
<1>1. ASSUME NEW g \in GuestIds, Exists(guests, g) PROVE ConsentLatest(g) /\ PointsAddUp(g)
  BY <1>1 DEF GuestInv, Exists
<1>2. ASSUME NEW p \in PromotionIds, Exists(promotions, p) PROVE UsesCounted(p)
  BY <1>2 DEF GuestInv, Exists
<1>3. \A e \in redemptions : e.discount <= e.basket
  BY DEF GuestInv, GuestEvents
<1> QED BY <1>1, <1>2, <1>3 DEF HistoriesAgree, ConsentLatest, PointsAddUp, UsesCounted,
         ConsentsOf, PointsOf, UsesOf, Points

\* For all guests, promotions and histories: consent is what the latest consent event says, the
\* balance and the lifetime points are the sums of the loyalty events and the balance was never in debt,
\* and a promotion was redeemed as often as it counts, within its limit and never for more than the
\* basket (SetGuestConsent, AdjustLoyalty, RedeemPromotion).
THEOREM HistoriesAlwaysAgree == GuestSpec => []HistoriesAgree
<1>1. GuestInit /\ audits = 0 => GuestInv
  BY GuestStart
<1>2. GuestInv /\ [GuestNext]_<<audits, guestVars>> => GuestInv'
  <2> SUFFICES ASSUME GuestInv, [GuestNext]_<<audits, guestVars>> PROVE GuestInv'
    OBVIOUS
  <2>1. CASE UNCHANGED <<audits, guestVars>>
    BY <2>1, GuestsUntouched DEF guestVars
  <2>2. ASSUME NEW g \in Fresh(guests), NEW phone \in Phones \cup {None}, NEW b \in BOOLEAN,
               handleCreateGuest(g, phone, b)
        PROVE  GuestInv'
    <3>1. g \in GuestIds
      BY DEF Fresh, GuestInv, GuestRows
    <3> QED BY <2>2, <3>1, CreateKeepsHistories
  <2>3. ASSUME NEW g \in GuestIds, NEW b \in BOOLEAN, NEW v \in 1..MaxOps, handleGuestConsent(g, b, v)
        PROVE  GuestInv'
    BY <2>3, ConsentKeepsHistories
  <2>4. ASSUME NEW r \in ReservationIds, NEW g \in GuestIds \cup {None}, NEW s \in {None, "booked", "waiting"},
               handleCreateReservation(r, g, 2, s)
        PROVE  GuestInv'
    BY <2>4, GuestsUntouched DEF handleCreateReservation, CreateReservation, Audited
  <2>5. ASSUME NEW r \in ReservationIds, NEW v \in 1..MaxOps,
               NEW s \in {"waiting", "seated", "cancelled", "no_show", "completed"},
               handleReservationTransition(r, s, v)
        PROVE  GuestInv'
    BY <2>5, GuestsUntouched DEF handleReservationTransition, TransitionReservation, Audited
  <2>6. ASSUME NEW p \in PromotionIds, NEW ends \in 1..MaxToday, NEW type \in {"percentage", "fixed"},
               NEW value \in DiscountInput, NEW limit \in {None, 1},
               handleCreatePromotion(p, [starts |-> 1, ends |-> ends, type |-> type, value |-> value, minimum |-> 2,
                                         limit |-> limit, count |-> 0])
        PROVE  GuestInv'
    <3>1. PICK v : v = [starts |-> 1, ends |-> ends, type |-> type, value |-> value, minimum |-> 2,
                        limit |-> limit, count |-> 0]
      OBVIOUS
    <3>2. v \in Promotion /\ v.count = 0
      <4>1. value \in Nat
        BY DEF DiscountInput
      <4> QED BY <3>1, <4>1 DEF Promotion
    <3>3. CreatePromotion(p, v)
      BY <2>6, <3>1 DEF handleCreatePromotion
    <3> QED BY <3>2, <3>3, PromotionKeepsHistories
  <2>7. ASSUME NEW p \in PromotionIds, NEW basket \in {1, 3}, handleRedeemPromotion(p, basket)
        PROVE  GuestInv'
    BY <2>7, RedeemKeepsHistories
  <2>8. ASSUME NEW g \in GuestIds, NEW type \in {"earn", "redeem", "adjustment", "expiry"},
               NEW delta \in (-MaxPoints)..MaxPoints, NEW v \in 1..MaxOps, handleLoyaltyEvent(g, type, delta, v)
        PROVE  GuestInv'
    BY <2>8, delta \in Int, LoyaltyKeepsHistories
  <2>9. CASE Tomorrow
    BY <2>9, GuestsUntouched DEF Tomorrow
  <2>10. CASE GuestNext
    BY <2>10, <2>2, <2>3, <2>4, <2>5, <2>6, <2>7, <2>8, <2>9, Zenon DEF GuestNext
  <2> QED BY <2>1, <2>10
<1> QED BY <1>1, <1>2, HistoriesFollow, PTL DEF GuestSpec

-----------------------------------------------------------------------------
(* The ledger and transfers *)

\* An event of the operation under way; what it takes out is a whole quantity.
Appended(e) == e.op = audits /\ (e.type = "transfer_out" => e.quantity \in Int)

\* Events carry the numbers of earlier operations, and what leaves for a
\* transfer is a whole quantity.
LedgerInv ==
  /\ audits \in Nat
  /\ \A e \in ledger : e.op \in Int /\ e.op < audits
  /\ \A e \in ledger : e.type = "transfer_out" => e.quantity \in Int

UnitRows == units \in [UnitIds -> Unit \cup {None}]

Rebuilt(v) ==
  [source |-> v.source, destination |-> v.destination, status |-> v.status, version |-> v.version, lines |-> v.lines]
RebuiltLine(l) == [quantity |-> l.quantity, dispatched |-> l.dispatched, received |-> l.received]

TransferRow(v) == v = Rebuilt(v) /\ \A i \in DOMAIN v.lines : v.lines[i] = RebuiltLine(v.lines[i])

TransferRows ==
  /\ DOMAIN transfers = TransferIds
  /\ \A x \in TransferIds : transfers[x] # None => TransferRow(transfers[x])

\* What left for a line, and what came of it.
Left(x, v, i) ==
  \E e \in ledger : /\ e.site = v.source /\ e.ingredient = i /\ e.ref = x /\ e.type = "transfer_out"
                    /\ e.quantity = -v.lines[i].dispatched
LostWith(x, v, i, in) ==
  {e \in ledger : /\ e.site = v.destination /\ e.ingredient = i /\ e.ref = x /\ e.type = "spoilage"
                  /\ e.op = in.op}
Quantities(S) == SumOf([e \in S |-> e.quantity])
Came(x, v, i) ==
  \E in \in ledger :
    /\ in.site = v.destination /\ in.ingredient = i /\ in.ref = x /\ in.type = "transfer_in"
    /\ \E out \in ledger :
         /\ out.site = v.source /\ out.ingredient = i /\ out.ref = x /\ out.type = "transfer_out"
         /\ out.op < in.op /\ in.quantity = -out.quantity /\ in.cost = -out.cost
    /\ in.quantity + Quantities(LostWith(x, v, i, in)) = v.lines[i].received

TransferKept(x, v) ==
  \A i \in DOMAIN v.lines :
    /\ v.status \in {"dispatched", "received"} => Left(x, v, i) /\ v.lines[i].dispatched <= v.lines[i].quantity
    /\ v.status = "received" => Came(x, v, i) /\ v.lines[i].received <= v.lines[i].dispatched

StockInv ==
  /\ LedgerInv /\ UnitRows /\ TransferRows
  /\ \A x \in TransferIds : transfers[x] # None => TransferKept(x, transfers[x])

\* The step's own events are added to the ledger.
Appends == audits' = audits + 1 /\ ledger \subseteq ledger' /\ \A e \in ledger' : e \in ledger \/ Appended(e)

\* A step that appends keeps the ledger's operations in order.
LEMMA AppendKeepsLedger ==
  ASSUME LedgerInv, Appends
  PROVE  LedgerInv'
<1>1. audits' \in Nat /\ audits < audits'
  BY DEF LedgerInv, Appends
<1>2. \A e \in ledger' : e.op \in Int /\ e.op < audits' /\ e.op <= audits
  BY DEF LedgerInv, Appends, Appended
<1>3. \A e \in ledger' : e.type = "transfer_out" => e.quantity \in Int
  BY DEF LedgerInv, Appends, Appended
<1> QED BY <1>1, <1>2, <1>3 DEF LedgerInv

\* What was sent and received before stays what it was.
LEMMA AppendKeepsTransfer ==
  ASSUME LedgerInv, Appends, NEW x, NEW v, TransferKept(x, v)
  PROVE  TransferKept(x, v)'
<1>1. ASSUME NEW i \in DOMAIN v.lines, Left(x, v, i) PROVE Left(x, v, i)'
  BY <1>1 DEF Left, Appends
<1>2. ASSUME NEW i \in DOMAIN v.lines, Came(x, v, i) PROVE Came(x, v, i)'
  <2>1. PICK in \in ledger :
          /\ in.site = v.destination /\ in.ingredient = i /\ in.ref = x /\ in.type = "transfer_in"
          /\ \E out \in ledger :
               /\ out.site = v.source /\ out.ingredient = i /\ out.ref = x /\ out.type = "transfer_out"
               /\ out.op < in.op /\ in.quantity = -out.quantity /\ in.cost = -out.cost
          /\ in.quantity + Quantities(LostWith(x, v, i, in)) = v.lines[i].received
    BY <1>2 DEF Came
  <2>2. in.op \in Int /\ in.op < audits /\ audits \in Nat
    BY DEF LedgerInv
  <2>3. LostWith(x, v, i, in)' = LostWith(x, v, i, in)
    BY <2>2 DEF LostWith, Appends, Appended
  <2>4. in \in ledger' /\ ledger \subseteq ledger'
    BY DEF Appends
  <2>5. in.quantity + Quantities(LostWith(x, v, i, in)') = v.lines[i].received
    BY <2>1, <2>3
  <2> QED BY <2>1, <2>4, <2>5 DEF Came
<1> QED BY <1>1, <1>2 DEF TransferKept

\* Steps that only add events, and leave units and transfers alone.
LEMMA AppendKeepsStock ==
  ASSUME StockInv, Appends, UNCHANGED <<units, transfers>>
  PROVE  StockInv'
<1>1. LedgerInv'
  BY AppendKeepsLedger DEF StockInv
<1>2. UnitRows' /\ TransferRows'
  BY DEF StockInv, UnitRows, TransferRows
<1>3. ASSUME NEW x \in TransferIds, transfers'[x] # None PROVE TransferKept(x, transfers[x])'
  <2>1. PICK v : v = transfers[x]
    OBVIOUS
  <2>2. TransferKept(x, v)
    BY <1>3, <2>1 DEF StockInv
  <2>3. TransferKept(x, v)'
    BY <2>2, AppendKeepsTransfer DEF StockInv
  <2> QED BY <2>1, <2>3
<1> QED BY <1>1, <1>2, <1>3 DEF StockInv

\* A known unit converts to a whole quantity of the base unit.
LEMMA FactorWhole ==
  ASSUME UnitRows, NEW u \in UnitIds, Exists(units, u)
  PROVE  Factor(u) \in Nat
<1>1. PICK r : r = units[u]
  OBVIOUS
<1>2. r \in Unit
  BY <1>1 DEF UnitRows, Exists
<1>3. r.num \in Nat /\ r.den \in Nat /\ r.den > 0
  BY <1>2 DEF Unit
<1>4. r.num \div r.den \in Nat
  BY <1>3
<1> QED BY <1>1, <1>4 DEF Factor

\* What a ledger event says.
LEMMA EventFields ==
  ASSUME NEW site, NEW i, NEW type, NEW quantity, NEW cost, NEW ref, NEW reverses, NEW e,
         e = Event(site, i, type, quantity, cost, ref, reverses)
  PROVE  /\ e.op = audits /\ e.site = site /\ e.ingredient = i /\ e.type = type
         /\ e.quantity = quantity /\ e.cost = cost /\ e.ref = ref
BY DEF Event

\* Movements by hand.
LEMMA MovementAppends ==
  ASSUME UnitRows, NEW site, NEW i, NEW type, NEW q \in Int, NEW u \in UnitIds, NEW ref, NEW r,
         handleRecordInventoryEvent(site, [ingredient |-> i, type |-> type, quantity |-> q, unit |-> u,
                                           cost |-> 1, ref |-> ref, reverses |-> r])
  PROVE  Appends /\ UNCHANGED <<graphVars, transfers>> /\ \A e \in ledger' : e \in ledger \/ e.ref = ref
<1>1. PICK v : v = [ingredient |-> i, type |-> type, quantity |-> q, unit |-> u,
                    cost |-> 1, ref |-> ref, reverses |-> r]
  OBVIOUS
<1>2. v.quantity = q /\ v.unit = u /\ v.type = type /\ v.ref = ref
  BY <1>1
<1>3. RecordInventoryEvent(site, v)
  BY <1>1 DEF handleRecordInventoryEvent
<1>4. audits' = audits + 1 /\ UNCHANGED <<graphVars, transfers>> /\ Exists(units, u)
  BY <1>2, <1>3 DEF RecordInventoryEvent, Audited
<1>5. PICK n : n = v.quantity * Factor(v.unit)
  OBVIOUS
<1>6. n \in Int
  BY <1>2, <1>4, <1>5, FactorWhole
<1>7. PICK signed : signed = IF v.type \in Outbound /\ n > 0 THEN -n ELSE n
  OBVIOUS
<1>8. signed \in Int
  BY <1>6, <1>7
<1>9. \E e : ledger' = ledger \cup {e} /\ Appended(e) /\ e.ref = ref
  <2>1. CASE \E w, a, b, c, d : ledger' = ledger \cup {Event(w, a, "reversal", b, c, v.ref, d)}
    <3>1. PICK w, a, b, c, d : ledger' = ledger \cup {Event(w, a, "reversal", b, c, v.ref, d)}
      BY <2>1
    <3>2. PICK e : e = Event(w, a, "reversal", b, c, v.ref, d)
      OBVIOUS
    <3>3. e.op = audits /\ e.type = "reversal" /\ e.ref = v.ref
      BY <3>2, EventFields
    <3> QED BY <1>2, <3>1, <3>2, <3>3 DEF Appended
  <2>2. CASE \E w, a, b, c, d : ledger' = ledger \cup {Event(w, a, b, signed, c, v.ref, d)}
    <3>1. PICK w, a, b, c, d : ledger' = ledger \cup {Event(w, a, b, signed, c, v.ref, d)}
      BY <2>2
    <3>2. PICK e : e = Event(w, a, b, signed, c, v.ref, d)
      OBVIOUS
    <3>3. e.op = audits /\ e.quantity = signed /\ e.ref = v.ref
      BY <3>2, EventFields
    <3> QED BY <1>2, <1>8, <3>1, <3>2, <3>3 DEF Appended
  <2> QED BY <1>3, <1>5, <1>7, <2>1, <2>2 DEF RecordInventoryEvent
<1> QED BY <1>4, <1>9 DEF Appends

\* Counts.
LEMMA CountAppends ==
  ASSUME NEW site, NEW lines, handleRecordInventoryCount(site, lines)
  PROVE  Appends /\ UNCHANGED <<graphVars, transfers>> /\ \A e \in ledger' : e \in ledger \/ e.ref = None
<1>1. RecordInventoryCount(site, lines)
  BY DEF handleRecordInventoryCount
<1>2. audits' = audits + 1 /\ UNCHANGED <<graphVars, transfers>>
  BY <1>1 DEF RecordInventoryCount, Audited
<1>3. ledger \subseteq ledger'
  BY <1>1 DEF RecordInventoryCount
<1>4. ASSUME NEW e \in ledger', e \notin ledger
      PROVE  \E i, n, c : e = Event(site, i, "count_adjustment", n, c, None, None)
  BY <1>1, <1>4 DEF RecordInventoryCount
<1>5. ASSUME NEW e \in ledger', e \notin ledger PROVE Appended(e) /\ e.ref = None
  <2>1. e.op = audits /\ e.type = "count_adjustment" /\ e.ref = None
    BY <1>4, <1>5, EventFields
  <2> QED BY <2>1 DEF Appended
<1> QED BY <1>2, <1>3, <1>5 DEF Appends

\* Batches.
LEMMA BatchAppends ==
  ASSUME NEW site, NEW b \in BatchIds, NEW to, NEW expected, NEW actual,
         handleTransitionProductionBatch(site, b, to, expected, actual)
  PROVE  Appends /\ UNCHANGED <<graphVars, transfers>> /\ \A e \in ledger' : e \in ledger \/ e.ref = b
<1>1. TransitionProductionBatch(site, b, to, expected, actual)
  BY DEF handleTransitionProductionBatch
<1>2. audits' = audits + 1 /\ UNCHANGED <<graphVars, transfers>>
  BY <1>1 DEF TransitionProductionBatch, Audited
<1>3. CASE to # "completed"
  BY <1>1, <1>2, <1>3 DEF TransitionProductionBatch, Appends
<1>4. CASE to = "completed"
  <2>1. PICK consumed : consumed = consumeProductionRecipe(b)
    OBVIOUS
  <2>2. \E i, n, c : ledger' = ledger \cup consumed \cup {Event(site, i, "production", n, c, b, None)}
    BY <1>1, <1>4, <2>1 DEF TransitionProductionBatch
  <2>3. ASSUME NEW e \in consumed PROVE Appended(e) /\ e.ref = b
    <3>1. \E s, i, n, c : e = Event(s, i, "consumption", n, c, b, None)
      BY <2>1 DEF consumeProductionRecipe
    <3>2. e.op = audits /\ e.type = "consumption" /\ e.ref = b
      BY <3>1, EventFields
    <3> QED BY <3>2 DEF Appended
  <2>4. PICK i, n, c : ledger' = ledger \cup consumed \cup {Event(site, i, "production", n, c, b, None)}
    BY <2>2
  <2>5. PICK e : e = Event(site, i, "production", n, c, b, None)
    OBVIOUS
  <2>6. e.op = audits /\ e.type = "production" /\ e.ref = b
    BY <2>5, EventFields
  <2> QED BY <1>2, <2>3, <2>4, <2>5, <2>6 DEF Appends, Appended
<1> QED BY <1>3, <1>4

\* A transfer's row before and after a step of its own.
LEMMA TransferStep ==
  ASSUME StockInv, Appends, UNCHANGED units, NEW x \in TransferIds, NEW w,
         transfers' = [transfers EXCEPT ![x] = w], TransferRow(w), TransferKept(x, w)'
  PROVE  StockInv'
<1>1. LedgerInv'
  BY AppendKeepsLedger DEF StockInv
<1>2. UnitRows'
  BY DEF StockInv, UnitRows
<1>3. DOMAIN transfers' = TransferIds /\ \A y \in TransferIds : transfers'[y] = IF y = x THEN w ELSE transfers[y]
  BY DEF StockInv, TransferRows
<1>4. TransferRows'
  BY <1>3 DEF StockInv, TransferRows
<1>5. ASSUME NEW y \in TransferIds, transfers'[y] # None PROVE TransferKept(y, transfers[y])'
  <2>1. PICK v : v = transfers'[y]
    OBVIOUS
  <2>2. CASE y = x
    BY <1>3, <2>2
  <2>3. CASE y # x
    <3>1. v = transfers[y]
      BY <1>3, <2>1, <2>3
    <3>2. TransferKept(y, v)
      BY <1>5, <2>1, <3>1 DEF StockInv
    <3>3. TransferKept(y, v)'
      BY <3>2, AppendKeepsTransfer DEF StockInv
    <3> QED BY <2>1, <3>3
  <2> QED BY <2>2, <2>3
<1> QED BY <1>1, <1>2, <1>4, <1>5 DEF StockInv

\* A requested transfer has moved nothing (CreateStockTransfer).
LEMMA CreateTransferKeeps ==
  ASSUME StockInv, NEW site, NEW x \in TransferIds, NEW source, NEW destination, NEW lines,
         handleCreateStockTransfer(site, x, source, destination, lines)
  PROVE  StockInv' /\ Appends /\ UNCHANGED <<graphVars, ledger>>
<1>1. PICK w : w = [source |-> source, destination |-> destination, status |-> "requested", version |-> 1,
                    lines |-> [i \in DOMAIN lines |-> [quantity |-> lines[i], dispatched |-> None, received |-> None]]]
  OBVIOUS
<1>2. CreateStockTransfer(x, w)
  BY <1>1 DEF handleCreateStockTransfer
<1>3. transfers' = [transfers EXCEPT ![x] = w] /\ audits' = audits + 1 /\ UNCHANGED <<graphVars, ledger>>
  BY <1>2 DEF CreateStockTransfer, Audited
<1>4. Appends /\ UNCHANGED units
  BY <1>3 DEF Appends, graphVars
<1>5. TransferRow(w)
  BY <1>1 DEF TransferRow, Rebuilt, RebuiltLine
<1>6. w.status = "requested"
  BY <1>1
<1>7. TransferKept(x, w)'
  BY <1>6 DEF TransferKept
<1> QED BY <1>3, <1>4, <1>5, <1>7, TransferStep

\* A row with another status, version and lines.
Advanced(v, status, version, lines) ==
  [source |-> v.source, destination |-> v.destination, status |-> status, version |-> version, lines |-> lines]

\* The fields of a transfer that moves on.
LEMMA TransferAdvances ==
  ASSUME TransferRows, NEW x \in TransferIds, transfers[x] # None, NEW action, NEW version, NEW lines
  PROVE  TransferAt(x, action, version, lines) = [transfers EXCEPT ![x] = Advanced(transfers[x], action, version, lines)]
<1>1. PICK v : v = transfers[x]
  OBVIOUS
<1>2. v = Rebuilt(v)
  BY <1>1 DEF TransferRows, TransferRow
<1>3. PICK a : a = [v EXCEPT !.status = action]
  OBVIOUS
<1>4. PICK b : b = [a EXCEPT !.version = version]
  OBVIOUS
<1>5. PICK c : c = [b EXCEPT !.lines = lines]
  OBVIOUS
<1>6. a = [source |-> v.source, destination |-> v.destination, status |-> action, version |-> v.version, lines |-> v.lines]
  BY <1>2, <1>3 DEF Rebuilt
<1>7. b = [source |-> v.source, destination |-> v.destination, status |-> action, version |-> version, lines |-> v.lines]
  BY <1>4, <1>6
<1>8. c = Advanced(v, action, version, lines)
  BY <1>5, <1>7 DEF Advanced
<1>9. TransferAt(x, action, version, lines) = [transfers EXCEPT ![x] = c]
  BY <1>1, <1>3, <1>4, <1>5 DEF TransferRows, TransferAt
<1> QED BY <1>1, <1>8, <1>9

\* Approving and cancelling move nothing.
LEMMA DecideTransferKeeps ==
  ASSUME StockInv, NEW x \in TransferIds, transfers[x] # None, NEW action \in {"approved", "cancelled"}, NEW expected,
         transfers' = TransferAt(x, action, expected + 1, transfers[x].lines),
         UNCHANGED <<ledger, units>>, audits' = audits + 1
  PROVE  StockInv' /\ Appends
<1>1. Appends
  BY DEF Appends
<1>2. PICK v, w : v = transfers[x] /\ w = Advanced(v, action, expected + 1, v.lines)
  OBVIOUS
<1>3. transfers' = [transfers EXCEPT ![x] = w]
  <2>1. TransferRows
    BY DEF StockInv
  <2>2. transfers' = [transfers EXCEPT ![x] = Advanced(transfers[x], action, expected + 1, transfers[x].lines)]
    BY <2>1, TransferAdvances
  <2> QED BY <1>2, <2>2
<1>4. TransferRow(v)
  BY <1>2 DEF StockInv, TransferRows
<1>5. w.status = action /\ w.lines = v.lines
  BY <1>2 DEF Advanced
<1>6. TransferRow(w)
  BY <1>2, <1>4, <1>5 DEF TransferRow, Rebuilt, Advanced
<1>7. TransferKept(x, w)'
  BY <1>5 DEF TransferKept
<1> QED BY <1>1, <1>3, <1>6, <1>7, TransferStep

\* Dispatching takes the actual quantities from the source.
LEMMA DispatchKeeps ==
  ASSUME StockInv, NEW x \in TransferIds, transfers[x] # None, NEW expected, NEW actual,
         normalizedTransferExecution(actual, [i \in DOMAIN transfers[x].lines |-> transfers[x].lines[i].quantity]),
         \A i \in DOMAIN actual : actual[i] \in Nat,
         dispatchTransferInventory(x, actual),
         transfers' = TransferAt(x, "dispatched", expected + 1,
           [i \in DOMAIN transfers[x].lines |-> [transfers[x].lines[i] EXCEPT !.dispatched = actual[i]]]),
         UNCHANGED units, audits' = audits + 1
  PROVE  StockInv' /\ Appends /\ \A e \in ledger' : e \in ledger \/ e.ref = x
<1>1. PICK v : v = transfers[x]
  OBVIOUS
<1>2. PICK after : after = [i \in DOMAIN v.lines |-> [v.lines[i] EXCEPT !.dispatched = actual[i]]]
  OBVIOUS
<1>3. PICK w : w = Advanced(v, "dispatched", expected + 1, after)
  OBVIOUS
<1>4. transfers' = [transfers EXCEPT ![x] = w]
  <2>1. TransferRows
    BY DEF StockInv
  <2>2. transfers' = TransferAt(x, "dispatched", expected + 1, after)
    BY <1>1, <1>2
  <2>3. transfers' = [transfers EXCEPT ![x] = Advanced(transfers[x], "dispatched", expected + 1, after)]
    BY <2>1, <2>2, TransferAdvances
  <2> QED BY <1>1, <1>3, <2>3
<1>5. TransferRow(v)
  BY <1>1 DEF StockInv, TransferRows
<1>6. /\ DOMAIN actual = DOMAIN v.lines
      /\ \A i \in DOMAIN v.lines : actual[i] <= v.lines[i].quantity
  BY <1>1 DEF normalizedTransferExecution
<1>7. DOMAIN after = DOMAIN v.lines /\ \A i \in DOMAIN v.lines :
        after[i] = [quantity |-> v.lines[i].quantity, dispatched |-> actual[i], received |-> v.lines[i].received]
  <2>1. ASSUME NEW i \in DOMAIN v.lines
        PROVE  [v.lines[i] EXCEPT !.dispatched = actual[i]]
                 = [quantity |-> v.lines[i].quantity, dispatched |-> actual[i], received |-> v.lines[i].received]
    <3>1. PICK l : l = v.lines[i]
      OBVIOUS
    <3>2. l = RebuiltLine(l)
      BY <1>5, <3>1 DEF TransferRow
    <3>3. [l EXCEPT !.dispatched = actual[i]] = [quantity |-> l.quantity, dispatched |-> actual[i], received |-> l.received]
      BY <3>2 DEF RebuiltLine
    <3> QED BY <3>1, <3>3
  <2> QED BY <1>2, <2>1
<1>8. w.source = v.source /\ w.status = "dispatched" /\ w.lines = after
  BY <1>3 DEF Advanced
<1>9. ASSUME NEW i \in DOMAIN v.lines
       PROVE  after[i].dispatched = actual[i] /\ after[i].quantity = v.lines[i].quantity
  <2>1. PICK l : l = [quantity |-> v.lines[i].quantity, dispatched |-> actual[i], received |-> v.lines[i].received]
    OBVIOUS
  <2>2. l.dispatched = actual[i] /\ l.quantity = v.lines[i].quantity
    BY <2>1
  <2> QED BY <1>7, <2>1, <2>2
<1>10. TransferRow(w)
  <2>1. w = Rebuilt(w)
    BY <1>3 DEF Rebuilt, Advanced
  <2>2. \A i \in DOMAIN w.lines : w.lines[i] = RebuiltLine(w.lines[i])
    BY <1>7, <1>8 DEF RebuiltLine
  <2> QED BY <2>1, <2>2 DEF TransferRow
<1>11. ASSUME NEW e \in ledger', e \notin ledger
       PROVE  \E i \in DOMAIN actual : \E c : e = Event(v.source, i, "transfer_out", -actual[i], c, x, None)
  BY <1>1, <1>11 DEF dispatchTransferInventory
<1>12. ASSUME NEW e \in ledger', e \notin ledger PROVE Appended(e) /\ e.ref = x
  <2>0. PICK i \in DOMAIN actual : \E c : e = Event(v.source, i, "transfer_out", -actual[i], c, x, None)
    BY <1>11, <1>12
  <2>1. PICK c : e = Event(v.source, i, "transfer_out", -actual[i], c, x, None)
    BY <2>0
  <2>2. e.op = audits /\ e.quantity = -actual[i] /\ e.ref = x
    BY <2>1, EventFields
  <2> QED BY <2>2 DEF Appended
<1>13. Appends
  BY <1>12 DEF Appends, dispatchTransferInventory
<1>14. ASSUME NEW i \in DOMAIN w.lines PROVE Left(x, w, i)'
  <2>1. i \in DOMAIN actual /\ w.lines[i].dispatched = actual[i]
    BY <1>6, <1>7, <1>8, <1>14, <1>9
  <2>2. \E c : Event(v.source, i, "transfer_out", -actual[i], c, x, None) \in ledger'
    BY <1>1, <2>1 DEF dispatchTransferInventory
  <2>3. PICK c, e : e = Event(v.source, i, "transfer_out", -actual[i], c, x, None) /\ e \in ledger'
    BY <2>2
  <2>4. e.site = v.source /\ e.ingredient = i /\ e.type = "transfer_out" /\ e.quantity = -actual[i] /\ e.ref = x
    BY <2>3, EventFields
  <2> QED BY <1>8, <2>1, <2>3, <2>4 DEF Left
<1>15. TransferKept(x, w)'
  <2>1. \A i \in DOMAIN w.lines : w.lines[i].dispatched <= w.lines[i].quantity
    BY <1>6, <1>7, <1>8, <1>9
  <2> QED BY <1>8, <1>14, <2>1 DEF TransferKept
<1> QED BY <1>4, <1>10, <1>12, <1>13, <1>15, TransferStep

\* Receiving books what was shipped, less what was lost on the way.
LEMMA ReceiveBooks ==
  ASSUME LedgerInv, NEW x, NEW w, NEW i, NEW s \in ledger, NEW n \in Nat, NEW in, NEW lost,
         s.site = w.source, s.ingredient = i, s.type = "transfer_out", s.ref = x, s.quantity \in Int,
         ledger \subseteq ledger', in \in ledger',
         in = Event(w.destination, i, "transfer_in", -s.quantity, -s.cost, x, None),
         -s.quantity - n >= 0,
         LostWith(x, w, i, in)' = IF -s.quantity - n > 0 THEN {lost} ELSE {},
         lost.quantity = -(-s.quantity - n), w.lines[i].received = n
  PROVE  Came(x, w, i)'
<1>1. /\ in.op = audits /\ in.site = w.destination /\ in.ingredient = i /\ in.type = "transfer_in"
      /\ in.quantity = -s.quantity /\ in.cost = -s.cost /\ in.ref = x
  BY EventFields
<1>2. s.op < in.op
  BY <1>1 DEF LedgerInv
<1>3. PICK L : L = LostWith(x, w, i, in)'
  OBVIOUS
<1>4. in.quantity + Quantities(L) = n
  <2>1. PICK f : f = [e \in L |-> e.quantity]
    OBVIOUS
  <2>2. CASE -s.quantity - n > 0
    <3>1. DOMAIN f = {lost} /\ f[lost] = -(-s.quantity - n) /\ f[lost] \in Int
      BY <1>3, <2>1, <2>2
    <3>2. SumOf(f) = f[lost]
      BY <3>1, SumOne
    <3> QED BY <1>1, <2>1, <3>1, <3>2 DEF Quantities
  <2>3. CASE -s.quantity - n = 0
    <3>1. DOMAIN f = {}
      BY <1>3, <2>1, <2>3
    <3>2. SumOf(f) = 0
      BY <3>1, SumEmpty
    <3> QED BY <1>1, <2>1, <2>3, <3>2 DEF Quantities
  <2> QED BY <2>2, <2>3
<1>5. \E out \in ledger' : /\ out.site = w.source /\ out.ingredient = i /\ out.ref = x /\ out.type = "transfer_out"
                           /\ out.op < in.op /\ in.quantity = -out.quantity /\ in.cost = -out.cost
  BY <1>1, <1>2
<1>6. in.quantity + Quantities(LostWith(x, w, i, in)') = w.lines[i].received
  BY <1>3, <1>4
<1> QED BY <1>1, <1>5, <1>6 DEF Came

\* The events that a receipt of n of the shipment s books for an ingredient.
Arrival(x, i, s) == Event(transfers[x].destination, i, "transfer_in", -s.quantity, -s.cost, x, None)
Missing(s, n) == -s.quantity - n
Loss(x, i, s, n) ==
  Event(transfers[x].destination, i, "spoilage", -Missing(s, n),
        -Round((-s.cost) * Missing(s, n), -s.quantity), x, None)

\* The events of a receipt: what arrives, and what is missing as spoilage.
LEMMA ReceiptEvents ==
  ASSUME NEW x, NEW actual, receiveTransferInventory(x, actual)
  PROVE  \E out \in [DOMAIN actual -> ledger] :
           /\ \A i \in DOMAIN actual : out[i] \in Shipments(x, i) /\ actual[i] <= -out[i].quantity
           /\ ledger' = ledger \cup {Arrival(x, i, out[i]) : i \in DOMAIN actual}
                \cup {Loss(x, i, out[i], actual[i]) : i \in {j \in DOMAIN actual : Missing(out[j], actual[j]) > 0}}
BY DEF receiveTransferInventory, Arrival, Loss, Missing

\* A receipt books one shipment of each line and writes off what did not arrive (receiveTransferInventory).
LEMMA ReceiveKeeps ==
  ASSUME StockInv, NEW x \in TransferIds, transfers[x] # None, transfers[x].status = "dispatched",
         NEW expected, NEW actual,
         normalizedTransferExecution(actual, [i \in DOMAIN transfers[x].lines |-> transfers[x].lines[i].dispatched]),
         \A i \in DOMAIN actual : actual[i] \in Nat,
         receiveTransferInventory(x, actual),
         transfers' = TransferAt(x, "received", expected + 1,
           [i \in DOMAIN transfers[x].lines |-> [transfers[x].lines[i] EXCEPT !.received = actual[i]]]),
         UNCHANGED units, audits' = audits + 1
  PROVE  StockInv' /\ Appends /\ \A e \in ledger' : e \in ledger \/ e.ref = x
<1>1. PICK v : v = transfers[x]
  OBVIOUS
<1>2. PICK after : after = [i \in DOMAIN v.lines |-> [v.lines[i] EXCEPT !.received = actual[i]]]
  OBVIOUS
<1>3. PICK w : w = Advanced(v, "received", expected + 1, after)
  OBVIOUS
<1>4. transfers' = [transfers EXCEPT ![x] = w]
  <2>1. TransferRows
    BY DEF StockInv
  <2>2. transfers' = TransferAt(x, "received", expected + 1, after)
    BY <1>1, <1>2
  <2>3. transfers' = [transfers EXCEPT ![x] = Advanced(transfers[x], "received", expected + 1, after)]
    BY <2>1, <2>2, TransferAdvances
  <2> QED BY <1>1, <1>3, <2>3
<1>5. TransferRow(v) /\ TransferKept(x, v) /\ v.status = "dispatched"
  BY <1>1 DEF StockInv, TransferRows
<1>6. /\ DOMAIN actual = DOMAIN v.lines
      /\ \A i \in DOMAIN v.lines : actual[i] <= v.lines[i].dispatched
  BY <1>1 DEF normalizedTransferExecution
<1>7. DOMAIN after = DOMAIN v.lines /\ \A i \in DOMAIN v.lines :
        after[i] = [quantity |-> v.lines[i].quantity, dispatched |-> v.lines[i].dispatched, received |-> actual[i]]
  <2>1. ASSUME NEW i \in DOMAIN v.lines
        PROVE  [v.lines[i] EXCEPT !.received = actual[i]]
                 = [quantity |-> v.lines[i].quantity, dispatched |-> v.lines[i].dispatched, received |-> actual[i]]
    <3>1. PICK l : l = v.lines[i]
      OBVIOUS
    <3>2. l = RebuiltLine(l)
      BY <1>5, <3>1 DEF TransferRow
    <3>3. [l EXCEPT !.received = actual[i]] = [quantity |-> l.quantity, dispatched |-> l.dispatched, received |-> actual[i]]
      BY <3>2 DEF RebuiltLine
    <3> QED BY <3>1, <3>3
  <2> QED BY <1>2, <2>1
<1>8. w.source = v.source /\ w.destination = v.destination /\ w.status = "received" /\ w.lines = after
  BY <1>3 DEF Advanced
<1>9. ASSUME NEW i \in DOMAIN v.lines
      PROVE  /\ after[i].received = actual[i] /\ after[i].dispatched = v.lines[i].dispatched
             /\ after[i].quantity = v.lines[i].quantity
  <2>1. PICK l : l = [quantity |-> v.lines[i].quantity, dispatched |-> v.lines[i].dispatched, received |-> actual[i]]
    OBVIOUS
  <2>2. l.received = actual[i] /\ l.dispatched = v.lines[i].dispatched /\ l.quantity = v.lines[i].quantity
    BY <2>1
  <2> QED BY <1>7, <2>1, <2>2
<1>10. TransferRow(w)
  <2>1. w = Rebuilt(w)
    BY <1>3 DEF Rebuilt, Advanced
  <2>2. \A i \in DOMAIN w.lines : w.lines[i] = RebuiltLine(w.lines[i])
    BY <1>7, <1>8 DEF RebuiltLine
  <2> QED BY <2>1, <2>2 DEF TransferRow
<1>11. ASSUME NEW i \in DOMAIN v.lines PROVE Left(x, v, i) /\ v.lines[i].dispatched <= v.lines[i].quantity
  BY <1>5 DEF TransferKept
<1>12. PICK out \in [DOMAIN actual -> ledger] :
          /\ \A i \in DOMAIN actual : out[i] \in Shipments(x, i) /\ actual[i] <= -out[i].quantity
          /\ ledger' = ledger \cup {Arrival(x, i, out[i]) : i \in DOMAIN actual}
               \cup {Loss(x, i, out[i], actual[i]) : i \in {j \in DOMAIN actual : Missing(out[j], actual[j]) > 0}}
  BY ReceiptEvents
<1>13. ledger' = ledger \cup {Arrival(x, i, out[i]) : i \in DOMAIN actual}
         \cup {Loss(x, i, out[i], actual[i]) : i \in {j \in DOMAIN actual : Missing(out[j], actual[j]) > 0}}
  BY <1>12
<1>14. \A i, s : LET e == Arrival(x, i, s) IN e.op = audits /\ e.type = "transfer_in" /\ e.ref = x
  BY EventFields DEF Arrival
<1>15. \A i, s, n : LET e == Loss(x, i, s, n) IN
         /\ e.op = audits /\ e.type = "spoilage" /\ e.ref = x /\ e.site = v.destination /\ e.ingredient = i
         /\ e.quantity = -Missing(s, n)
  BY <1>1, EventFields DEF Loss
<1>16. ASSUME NEW e \in ledger', e \notin ledger PROVE Appended(e) /\ e.ref = x
  <2>1. (\E i, s : e = Arrival(x, i, s)) \/ (\E i, s, n : e = Loss(x, i, s, n))
    BY <1>13, <1>16
  <2>2. e.op = audits /\ e.type \in {"transfer_in", "spoilage"} /\ e.ref = x
    BY <1>14, <1>15, <2>1
  <2> QED BY <2>2 DEF Appended
<1>17. Appends
  BY <1>13, <1>16 DEF Appends
<1>18. ASSUME NEW i \in DOMAIN w.lines PROVE Left(x, w, i)'
  <2>1. Left(x, v, i)
    BY <1>7, <1>8, <1>11, <1>18
  <2>2. w.lines[i].dispatched = v.lines[i].dispatched
    BY <1>7, <1>8, <1>9, <1>18
  <2> QED BY <1>8, <1>17, <2>1, <2>2 DEF Left, Appends
<1>19. ASSUME NEW i \in DOMAIN w.lines PROVE Came(x, w, i)'
  <2>1. i \in DOMAIN actual /\ i \in DOMAIN v.lines /\ actual[i] \in Nat
    BY <1>6, <1>7, <1>8, <1>19
  <2>2. PICK s : s = out[i]
    OBVIOUS
  <2>3. PICK n, in, lost : n = actual[i] /\ in = Arrival(x, i, s) /\ lost = Loss(x, i, s, actual[i])
    OBVIOUS
  <2>5. /\ s \in ledger /\ s.site = v.source /\ s.ingredient = i /\ s.type = "transfer_out" /\ s.ref = x
        /\ s.quantity \in Int /\ s.op \in Int /\ s.op < audits
    <3>1. s \in Shipments(x, i)
      BY <1>12, <2>1, <2>2
    <3>2. s \in ledger /\ s.site = v.source /\ s.ingredient = i /\ s.type = "transfer_out" /\ s.ref = x
      BY <1>1, <3>1 DEF Shipments, At
    <3> QED BY <3>2 DEF StockInv, LedgerInv
  <2>6. in = Event(w.destination, i, "transfer_in", -s.quantity, -s.cost, x, None) /\ in \in ledger'
    BY <1>1, <1>8, <1>13, <2>1, <2>2, <2>3 DEF Arrival
  <2>7. Missing(s, n) = -s.quantity - n /\ -s.quantity - n >= 0 /\ n \in Nat
    BY <1>12, <2>1, <2>2, <2>3, <2>5 DEF Missing
  <2>8. LostWith(x, w, i, in)' = IF -s.quantity - n > 0 THEN {lost} ELSE {}
    <3>1. in.op = audits
      BY <1>14, <2>3
    <3>2. ASSUME NEW f \in LostWith(x, w, i, in)' PROVE f = lost /\ -s.quantity - n > 0
      <4>1. f \in ledger' /\ f.op = audits /\ f.type = "spoilage" /\ f.ingredient = i
        BY <3>1, <3>2 DEF LostWith
      <4>2. f \notin ledger
        BY <4>1 DEF StockInv, LedgerInv
      <4>3. \A j, u : f # Arrival(x, j, u)
        BY <1>14, <4>1
      <4>4. PICK j \in DOMAIN actual : Missing(out[j], actual[j]) > 0 /\ f = Loss(x, j, out[j], actual[j])
        BY <1>13, <4>1, <4>2, <4>3
      <4>5. j = i
        BY <1>15, <4>1, <4>4
      <4> QED BY <2>2, <2>3, <2>7, <4>4, <4>5
    <3>3. ASSUME -s.quantity - n > 0 PROVE lost \in LostWith(x, w, i, in)'
      <4>1. lost \in ledger'
        BY <1>13, <2>1, <2>2, <2>3, <2>7, <3>3
      <4> QED BY <1>8, <1>15, <2>3, <3>1, <4>1 DEF LostWith
    <3> QED BY <3>2, <3>3
  <2>9. lost.quantity = -(-s.quantity - n)
    BY <1>15, <2>3, <2>7
  <2>10. w.lines[i].received = n
    BY <1>8, <1>9, <2>1, <2>3
  <2>11. LedgerInv /\ ledger \subseteq ledger' /\ s.site = w.source
    BY <1>8, <1>17, <2>5 DEF StockInv, Appends
  <2> QED BY <2>5, <2>6, <2>7, <2>8, <2>9, <2>10, <2>11, ReceiveBooks
<1>20. TransferKept(x, w)'
  <2>1. \A i \in DOMAIN w.lines : /\ w.lines[i].dispatched <= w.lines[i].quantity
                                  /\ w.lines[i].received <= w.lines[i].dispatched
    BY <1>6, <1>7, <1>8, <1>9, <1>11
  <2> QED BY <1>8, <1>18, <1>19, <2>1 DEF TransferKept
<1> QED BY <1>4, <1>10, <1>16, <1>17, <1>20, TransferStep

\* The steps of the transfer itself.
LEMMA TransitionKeeps ==
  ASSUME StockInv, NEW site, NEW x \in TransferIds, NEW action, NEW expected, NEW actual,
         \A i \in DOMAIN actual : actual[i] \in Nat,
         handleStockTransferTransition(site, x, action, expected, actual)
  PROVE  StockInv' /\ Appends /\ UNCHANGED graphVars /\ \A e \in ledger' : e \in ledger \/ e.ref = x
<1>1. TransitionStockTransfer(site, x, action, expected, actual)
  BY DEF handleStockTransferTransition
<1>2. audits' = audits + 1 /\ UNCHANGED graphVars /\ transfers[x] # None
  BY <1>1 DEF TransitionStockTransfer, Audited, Exists
<1>3. UNCHANGED units
  BY <1>2 DEF graphVars
<1>4. CASE action \in {"approved", "cancelled"}
  <2>1. transfers' = TransferAt(x, action, expected + 1, transfers[x].lines) /\ UNCHANGED ledger
    BY <1>1, <1>4 DEF TransitionStockTransfer, transferLinesByIngredient
  <2> QED BY <1>2, <1>3, <1>4, <2>1, DecideTransferKeeps
<1>5. CASE action = "dispatched"
  <2>1. /\ normalizedTransferExecution(actual, [i \in DOMAIN transfers[x].lines |-> transfers[x].lines[i].quantity])
        /\ dispatchTransferInventory(x, actual)
        /\ transfers' = TransferAt(x, "dispatched", expected + 1,
             [i \in DOMAIN transfers[x].lines |-> [transfers[x].lines[i] EXCEPT !.dispatched = actual[i]]])
    BY <1>1, <1>5 DEF TransitionStockTransfer, transferLinesByIngredient
  <2> QED BY <1>2, <1>3, <2>1, DispatchKeeps
<1>6. CASE action = "received"
  <2>1. /\ normalizedTransferExecution(actual, [i \in DOMAIN transfers[x].lines |-> transfers[x].lines[i].dispatched])
        /\ receiveTransferInventory(x, actual)
        /\ transfers' = TransferAt(x, "received", expected + 1,
             [i \in DOMAIN transfers[x].lines |-> [transfers[x].lines[i] EXCEPT !.received = actual[i]]])
    BY <1>1, <1>6 DEF TransitionStockTransfer, transferLinesByIngredient
  <2>2. transfers[x].status = "dispatched"
    BY <1>1, <1>6 DEF TransitionStockTransfer, transferActionAllowed
  <2> QED BY <1>2, <1>3, <2>1, <2>2, ReceiveKeeps
<1>7. action \in {"approved", "cancelled"} \/ action = "dispatched" \/ action = "received"
  BY <1>1 DEF TransitionStockTransfer
<1> QED BY <1>4, <1>5, <1>6, <1>7

\* What no purchase order has to do with.
Elsewhere == \A e \in ledger' : e \in ledger \/ e.ref \notin PurchaseIds

\* Every step of the stock keeps transfers and ledger in agreement, and books nothing for a purchase order.
LEMMA StockSteps ==
  ASSUME StockInv,
         LedgerNext \/ Movement(ManualTypes, UnitIds, TransferIds) \/ TransferNext \/ BatchNext \/ RuleNext
  PROVE  StockInv' /\ Appends /\ UNCHANGED graphVars /\ Elsewhere
<1>1. UnitRows
  BY DEF StockInv
<1>2. ASSUME NEW refs, refs \cap PurchaseIds = {}, Movement(ManualTypes, UnitIds, refs)
      PROVE  StockInv' /\ Appends /\ UNCHANGED graphVars /\ Elsewhere
  <2>1. PICK site \in Sites, i \in IngredientIds, type \in ManualTypes, q \in {-1, 1}, u \in UnitIds,
             ref \in refs, r \in ledger \cup {None} :
          handleRecordInventoryEvent(site, [ingredient |-> i, type |-> type, quantity |-> q, unit |-> u,
                                            cost |-> 1, ref |-> ref, reverses |-> r])
    BY <1>2 DEF Movement
  <2>2. Appends /\ UNCHANGED <<graphVars, transfers>> /\ \A e \in ledger' : e \in ledger \/ e.ref = ref
    BY <1>1, <2>1, MovementAppends
  <2>3. UNCHANGED <<units, transfers>>
    BY <2>2 DEF graphVars
  <2>4. StockInv'
    BY <2>2, <2>3, AppendKeepsStock
  <2> QED BY <1>2, <2>2, <2>4 DEF Elsewhere
<1>3. None \notin PurchaseIds /\ PurchaseIds \cap TransferIds = {} /\ PurchaseIds \cap BatchIds = {}
  BY PurchaseAssumption
<1>4. CASE LedgerNext
  <2>1. CASE Movement(ManualTypes, UnitIds, {None})
    BY <1>2, <1>3, <2>1
  <2>2. CASE \E site \in Sites, S \in SUBSET IngredientIds, u \in UnitIds, q \in 0..MaxQuantity :
               handleRecordInventoryCount(site, [i \in S |-> [quantity |-> q, unit |-> u]])
    <3>1. Appends /\ UNCHANGED <<graphVars, transfers>> /\ \A e \in ledger' : e \in ledger \/ e.ref = None
      BY <2>2, CountAppends
    <3>2. UNCHANGED <<units, transfers>>
      BY <3>1 DEF graphVars
    <3> QED BY <1>3, <3>1, <3>2, AppendKeepsStock DEF Elsewhere
  <2> QED BY <1>4, <2>1, <2>2 DEF LedgerNext
<1>5. CASE Movement(ManualTypes, UnitIds, TransferIds)
  BY <1>2, <1>3, <1>5
<1>6. CASE TransferNext
  <2>1. ASSUME NEW site, NEW x \in TransferIds, NEW source, NEW destination, NEW lines,
               handleCreateStockTransfer(site, x, source, destination, lines)
        PROVE  StockInv' /\ Appends /\ UNCHANGED graphVars /\ Elsewhere
    BY <2>1, CreateTransferKeeps DEF Elsewhere
  <2>2. ASSUME NEW site, NEW x \in TransferIds, NEW action, NEW v, NEW actual,
               \A i \in DOMAIN actual : actual[i] \in Nat, handleStockTransferTransition(site, x, action, v, actual)
        PROVE  StockInv' /\ Appends /\ UNCHANGED graphVars /\ Elsewhere
    <3>1. StockInv' /\ Appends /\ UNCHANGED graphVars /\ \A e \in ledger' : e \in ledger \/ e.ref = x
      BY <2>2, TransitionKeeps
    <3> QED BY <1>3, <3>1 DEF Elsewhere
  <2>3. CASE \E site, source, destination \in Sites, x \in TransferIds, S \in SUBSET IngredientIds, q \in Quantity :
               handleCreateStockTransfer(site, x, source, destination, [i \in S |-> q])
    BY <2>1, <2>3
  <2>4. CASE \E site \in Sites, x \in TransferIds, action \in {"approved", "dispatched", "received", "cancelled"},
                v \in 1..MaxOps, S \in SUBSET IngredientIds, q \in Quantity :
               handleStockTransferTransition(site, x, action, v, [i \in S |-> q])
    <3>1. PICK site \in Sites, x \in TransferIds, action \in {"approved", "dispatched", "received", "cancelled"},
               v \in 1..MaxOps, S \in SUBSET IngredientIds, q \in Quantity :
            handleStockTransferTransition(site, x, action, v, [i \in S |-> q])
      BY <2>4
    <3>2. PICK actual : actual = [i \in S |-> q]
      OBVIOUS
    <3>3. \A i \in DOMAIN actual : actual[i] \in Nat
      BY <3>2 DEF Quantity
    <3>4. handleStockTransferTransition(site, x, action, v, actual)
      BY <3>1, <3>2
    <3> QED BY <2>2, <3>3, <3>4
  <2> QED BY <1>6, <2>3, <2>4, Zenon DEF TransferNext
<1>7. CASE BatchNext
  <2>1. ASSUME NEW b \in BatchIds, NEW v, handleCreateProductionBatch(b, v)
        PROVE  StockInv' /\ Appends /\ UNCHANGED graphVars /\ Elsewhere
    <3>1. audits' = audits + 1 /\ UNCHANGED <<graphVars, ledger, transfers>>
      BY <2>1 DEF handleCreateProductionBatch, CreateProductionBatch, Audited
    <3>2. Appends /\ UNCHANGED <<units, transfers>> /\ Elsewhere
      BY <3>1 DEF Appends, graphVars, Elsewhere
    <3> QED BY <3>1, <3>2, AppendKeepsStock
  <2>2. ASSUME NEW site, NEW b \in BatchIds, NEW to, NEW v, NEW q, handleTransitionProductionBatch(site, b, to, v, q)
        PROVE  StockInv' /\ Appends /\ UNCHANGED graphVars /\ Elsewhere
    <3>1. Appends /\ UNCHANGED <<graphVars, transfers>> /\ \A e \in ledger' : e \in ledger \/ e.ref = b
      BY <2>2, BatchAppends
    <3>2. UNCHANGED <<units, transfers>>
      BY <3>1 DEF graphVars
    <3> QED BY <1>3, <3>1, <3>2, AppendKeepsStock DEF Elsewhere
  <2> QED BY <1>7, <2>1, <2>2 DEF BatchNext
<1>8. CASE RuleNext
  <2>1. ASSUME NEW site, NEW i, NEW v, handleSetReplenishmentRule(site, i, v)
        PROVE  StockInv' /\ Appends /\ UNCHANGED graphVars /\ Elsewhere
    <3>1. audits' = audits + 1 /\ UNCHANGED <<graphVars, ledger, transfers>>
      BY <2>1 DEF handleSetReplenishmentRule, SetReplenishmentRule, Audited
    <3>2. Appends /\ UNCHANGED <<units, transfers>> /\ Elsewhere
      BY <3>1 DEF Appends, graphVars, Elsewhere
    <3> QED BY <3>1, <3>2, AppendKeepsStock
  <2>2. ASSUME NEW site, NEW x \in TransferIds, handleReplenishmentSuggestions(site, x)
        PROVE  StockInv' /\ Appends /\ UNCHANGED graphVars /\ Elsewhere
    <3>1. \E source, lines : handleCreateStockTransfer(site, x, source, site, lines)
      BY <2>2 DEF handleReplenishmentSuggestions
    <3> QED BY <3>1, CreateTransferKeeps DEF Elsewhere
  <2> QED BY <1>8, <2>1, <2>2 DEF RuleNext
<1> QED BY <1>4, <1>5, <1>6, <1>7, <1>8
-----------------------------------------------------------------------------
(* Purchase orders *)

\* The events that refer to a purchase order, for an ingredient at its site.
Booked(p, v, i) == {e \in ledger : e.site = v.site /\ e.ingredient = i /\ e.ref = p}
Costs(S) == SumOf([e \in S |-> e.cost])

LineMatches(p, v, i) ==
  LET B == Booked(p, v, i)
      l == v.lines[i]
  IN /\ IsFiniteSet(B) /\ Exists(units, l.unit)
     /\ Quantities(B) = l.received * Factor(l.unit) /\ Costs(B) = l.received * l.cost
     /\ l.received <= l.ordered

StatusFits(v) ==
  /\ v.status = "received" <=> \A i \in DOMAIN v.lines : v.lines[i].received = v.lines[i].ordered
  /\ v.status \in {"draft", "submitted", "cancelled"} => \A i \in DOMAIN v.lines : v.lines[i].received = 0

OrderMatches(p, v) ==
  v \in PurchaseOrder /\ DOMAIN v.lines # {} /\ (\A i \in DOMAIN v.lines : LineMatches(p, v, i)) /\ StatusFits(v)

PurchaseInv ==
  /\ purchases \in [PurchaseIds -> PurchaseOrder \cup {None}]
  /\ \A e \in ledger : e.ref \in PurchaseIds => e.quantity \in Int /\ e.cost \in Int /\ purchases[e.ref] # None
  /\ \A p \in PurchaseIds : purchases[p] # None => OrderMatches(p, purchases[p])

\* Units that are there stay as they are.
UnitsKept == \A u \in UnitIds : Exists(units, u) => Exists(units, u)' /\ units'[u] = units[u]

\* The lines of a purchase order are rows with quantities.
LEMMA LinesTyped ==
  ASSUME NEW L, L \in UNION {[S -> PurchaseLine] : S \in SUBSET IngredientIds}
  PROVE  DOMAIN L \subseteq IngredientIds /\ L \in [DOMAIN L -> PurchaseLine]
OBVIOUS

\* A purchase order's row is what its fields say.
LEMMA OrderTyped ==
  ASSUME NEW v \in PurchaseOrder
  PROVE  /\ DOMAIN v.lines \subseteq IngredientIds /\ v.lines \in [DOMAIN v.lines -> PurchaseLine]
         /\ \A i \in DOMAIN v.lines : /\ v.lines[i].unit \in UnitIds /\ v.lines[i].ordered \in Nat \ {0}
                                      /\ v.lines[i].cost \in Nat /\ v.lines[i].received \in Nat
<1>1. v.lines \in UNION {[S -> PurchaseLine] : S \in SUBSET IngredientIds}
  BY DEF PurchaseOrder
<1>2. DOMAIN v.lines \subseteq IngredientIds /\ v.lines \in [DOMAIN v.lines -> PurchaseLine]
  BY <1>1, LinesTyped
<1>3. \A l \in PurchaseLine : l.unit \in UnitIds /\ l.ordered \in Nat \ {0} /\ l.cost \in Nat /\ l.received \in Nat
  BY DEF PurchaseLine
<1> QED BY <1>2, <1>3

\* A line keeps matching while nothing is booked for it.
LEMMA LineFrame ==
  ASSUME NEW p, NEW v, NEW i, LineMatches(p, v, i), UnitsKept, v.lines[i].unit \in UnitIds,
         \A e : e \in Booked(p, v, i)' <=> e \in Booked(p, v, i)
  PROVE  LineMatches(p, v, i)'
<1>1. PICK l : l = v.lines[i]
  OBVIOUS
<1>2. Booked(p, v, i)' = Booked(p, v, i)
  OBVIOUS
<1>3. Factor(l.unit)' = Factor(l.unit) /\ Exists(units, l.unit)'
  BY <1>1 DEF UnitsKept, Factor, LineMatches
<1>4. PICK B : B = Booked(p, v, i)
  OBVIOUS
<1>5. /\ IsFiniteSet(B) /\ Quantities(B) = l.received * Factor(l.unit) /\ Costs(B) = l.received * l.cost
      /\ l.received <= l.ordered
  BY <1>1, <1>4 DEF LineMatches
<1>6. /\ IsFiniteSet(Booked(p, v, i)') /\ Quantities(Booked(p, v, i)') = l.received * Factor(l.unit)'
      /\ Costs(Booked(p, v, i)') = l.received * l.cost
  BY <1>2, <1>3, <1>4, <1>5
<1> QED BY <1>1, <1>3, <1>5, <1>6 DEF LineMatches

\* An order whose events stay the same still matches them.
LEMMA OrderFrame ==
  ASSUME NEW p, NEW v, OrderMatches(p, v), UnitsKept, Appends, \A e \in ledger' : e \in ledger \/ e.ref # p
  PROVE  OrderMatches(p, v)'
<1>1. ASSUME NEW i \in DOMAIN v.lines PROVE LineMatches(p, v, i)'
  <2>1. v.lines[i].unit \in UnitIds
    BY OrderTyped DEF OrderMatches
  <2>2. \A e : e \in Booked(p, v, i)' <=> e \in Booked(p, v, i)
    BY DEF Booked, Appends
  <2> QED BY <2>1, <2>2, LineFrame DEF OrderMatches
<1> QED BY <1>1 DEF OrderMatches

\* Steps that book nothing for a purchase order.
LEMMA PurchaseFrame ==
  ASSUME PurchaseInv, UnitsKept, Appends, Elsewhere, UNCHANGED purchases
  PROVE  PurchaseInv'
<1>1. ASSUME NEW p \in PurchaseIds, purchases'[p] # None PROVE OrderMatches(p, purchases[p])'
  <2>1. PICK v : v = purchases[p]
    OBVIOUS
  <2>2. OrderMatches(p, v)
    BY <1>1, <2>1 DEF PurchaseInv
  <2>3. \A e \in ledger' : e \in ledger \/ e.ref # p
    BY DEF Elsewhere
  <2>4. OrderMatches(p, v)'
    BY <2>2, <2>3, OrderFrame
  <2> QED BY <2>1, <2>4
<1>2. \A e \in ledger' : e.ref \in PurchaseIds => e.quantity \in Int /\ e.cost \in Int /\ purchases'[e.ref] # None
  BY DEF PurchaseInv, Elsewhere
<1> QED BY <1>1, <1>2 DEF PurchaseInv

\* A step of one purchase order, which books for it alone.
LEMMA PurchaseStep ==
  ASSUME PurchaseInv, UnitsKept, Appends, NEW p \in PurchaseIds, NEW w,
         purchases' = [purchases EXCEPT ![p] = w], OrderMatches(p, w)',
         \A e \in ledger' : e \in ledger \/ (e.ref = p /\ e.quantity \in Int /\ e.cost \in Int)
  PROVE  PurchaseInv'
<1>1. w \in PurchaseOrder /\ w # None
  BY PurchaseAssumption DEF OrderMatches
<1>2. purchases' \in [PurchaseIds -> PurchaseOrder \cup {None}]
  BY <1>1 DEF PurchaseInv
<1>3. \A q \in PurchaseIds : purchases'[q] = IF q = p THEN w ELSE purchases[q]
  BY DEF PurchaseInv
<1>4. \A e \in ledger' : e.ref \in PurchaseIds => e.quantity \in Int /\ e.cost \in Int /\ purchases'[e.ref] # None
  BY <1>1, <1>3 DEF PurchaseInv
<1>5. ASSUME NEW q \in PurchaseIds, purchases'[q] # None PROVE OrderMatches(q, purchases[q])'
  <2>1. PICK v : v = purchases'[q]
    OBVIOUS
  <2>2. CASE q = p
    BY <1>3, <2>2
  <2>3. CASE q # p
    <3>1. v = purchases[q]
      BY <1>3, <2>1, <2>3
    <3>2. OrderMatches(q, v)
      BY <1>5, <2>1, <3>1 DEF PurchaseInv
    <3>3. \A e \in ledger' : e \in ledger \/ e.ref # q
      BY <2>3
    <3>4. OrderMatches(q, v)'
      BY <3>2, <3>3, OrderFrame
    <3> QED BY <2>1, <3>4
  <2> QED BY <2>2, <2>3
<1> QED BY <1>2, <1>4, <1>5 DEF PurchaseInv

\* A draft has received nothing (CreatePurchaseOrder).
LEMMA CreateOrderKeeps ==
  ASSUME StockInv, PurchaseInv, NEW site \in Sites, NEW p \in PurchaseIds, NEW s \in SupplierIds,
         NEW S \in SUBSET IngredientIds, NEW u \in UnitIds, NEW q \in Quantity,
         handleCreatePO(site, p, s, [i \in S |-> [unit |-> u, ordered |-> q, cost |-> 1]]),
         UNCHANGED units
  PROVE  PurchaseInv' /\ Appends
<1>1. PICK lines : lines = [i \in S |-> [unit |-> u, ordered |-> q, cost |-> 1]]
  OBVIOUS
<1>2. DOMAIN lines = S /\ \A i \in S : lines[i].unit = u /\ lines[i].ordered = q /\ lines[i].cost = 1
  BY <1>1
<1>3. PICK l : l = [unit |-> u, ordered |-> q, cost |-> 1, received |-> 0]
  OBVIOUS
<1>4. l \in PurchaseLine /\ l.unit = u /\ l.ordered = q /\ l.cost = 1 /\ l.received = 0 /\ q \in Nat \ {0}
  BY <1>3 DEF PurchaseLine, Quantity
<1>5. PICK after : after = [i \in DOMAIN lines |-> [unit |-> lines[i].unit, ordered |-> lines[i].ordered,
                                                   cost |-> lines[i].cost, received |-> 0]]
  OBVIOUS
<1>6. DOMAIN after = S /\ \A i \in S : after[i] = l
  BY <1>2, <1>3, <1>5
<1>7. PICK w : w = [site |-> site, supplier |-> s, status |-> "draft", version |-> 1, lines |-> after]
  OBVIOUS
<1>8. CreatePurchaseOrder(p, w) /\ S # {}
  BY <1>1, <1>2, <1>5, <1>7 DEF handleCreatePO, validPurchaseOrder
<1>9. w.site = site /\ w.status = "draft" /\ w.lines = after
  BY <1>7
<1>10. /\ purchases[p] = None /\ purchases' = [purchases EXCEPT ![p] = w] /\ audits' = audits + 1
       /\ ledger' = ledger /\ Exists(units, u)
  <2>1. \A i \in DOMAIN w.lines : Exists(units, w.lines[i].unit)
    BY <1>8 DEF CreatePurchaseOrder
  <2>2. Exists(units, u)
    BY <1>4, <1>6, <1>8, <1>9, <2>1
  <2> QED BY <1>8, <2>2 DEF CreatePurchaseOrder, Audited
<1>11. Appends /\ UnitsKept
  BY <1>10 DEF Appends, UnitsKept, Exists
<1>12. w \in PurchaseOrder
  <2>1. after \in [S -> PurchaseLine]
    BY <1>4, <1>5, <1>6, <1>2
  <2>2. after \in UNION {[T -> PurchaseLine] : T \in SUBSET IngredientIds}
    BY <2>1
  <2> QED BY <1>7, <2>2 DEF PurchaseOrder
<1>13. ASSUME NEW i \in S PROVE LineMatches(p, w, i)'
  <2>1. Booked(p, w, i)' = {}
    BY <1>10 DEF Booked, PurchaseInv
  <2>2. w.lines[i] = l
    BY <1>6, <1>9
  <2>3. Quantities({}) = 0 /\ Costs({}) = 0
    BY SumEmpty DEF Quantities, Costs
  <2>4. Factor(u)' \in Nat /\ Exists(units, u)'
    BY <1>10, FactorWhole DEF StockInv, Factor, Exists
  <2>5. IsFiniteSet({})
    BY FS_EmptySet
  <2>6. 0 * Factor(u)' = 0 /\ 0 * 1 = 0 /\ 0 <= q
    BY <1>4, <2>4
  <2> QED BY <1>4, <2>1, <2>2, <2>3, <2>4, <2>5, <2>6 DEF LineMatches
<1>14. StatusFits(w)
  BY <1>4, <1>6, <1>8, <1>9 DEF StatusFits
<1>15. OrderMatches(p, w)'
  BY <1>6, <1>8, <1>9, <1>12, <1>13, <1>14 DEF OrderMatches
<1> QED BY <1>10, <1>11, <1>15, PurchaseStep

\* A purchase order's row with another status, version and lines.
OrderAs(v, status, version, lines) ==
  [site |-> v.site, supplier |-> v.supplier, status |-> status, version |-> version, lines |-> lines]

\* A purchase order that moves on is still a row.
LEMMA OrderAsTyped ==
  ASSUME NEW v \in PurchaseOrder, NEW status \in {"submitted", "partially_received", "received", "cancelled"},
         NEW version \in Nat, NEW lines \in [DOMAIN v.lines -> PurchaseLine]
  PROVE  /\ OrderAs(v, status, version, lines) \in PurchaseOrder
         /\ OrderAs(v, status, version, lines).site = v.site /\ OrderAs(v, status, version, lines).status = status
         /\ OrderAs(v, status, version, lines).lines = lines
<1>1. DOMAIN v.lines \subseteq IngredientIds
  BY OrderTyped
<1>2. lines \in UNION {[S -> PurchaseLine] : S \in SUBSET IngredientIds}
  BY <1>1
<1>3. v.site \in Sites /\ v.supplier \in SupplierIds
  BY DEF PurchaseOrder
<1> QED BY <1>2, <1>3 DEF OrderAs, PurchaseOrder

\* Submitting, approving or cancelling receives nothing (TransitionPurchaseOrder).
LEMMA TransitionOrderKeeps ==
  ASSUME StockInv, PurchaseInv, NEW site, NEW p \in PurchaseIds, NEW status, NEW expected \in Nat,
         handlePOTransition(site, p, status, expected), UNCHANGED units
  PROVE  PurchaseInv' /\ Appends
<1>1. /\ purchases[p] # None /\ status \in {"submitted", "cancelled"}
      /\ purchases[p].status \in {"draft", "submitted"}
      /\ purchases' = [purchases EXCEPT ![p].status = status, ![p].version = expected + 1]
      /\ audits' = audits + 1 /\ ledger' = ledger
  BY DEF handlePOTransition, TransitionPurchaseOrder, Exists, Audited
<1>2. Appends /\ UnitsKept
  BY <1>1 DEF Appends, UnitsKept, Exists
<1>3. PICK v : v = purchases[p]
  OBVIOUS
<1>4. OrderMatches(p, v) /\ v \in PurchaseOrder
  BY <1>1, <1>3 DEF PurchaseInv, OrderMatches
<1>5. PICK w : w = OrderAs(v, status, expected + 1, v.lines)
  OBVIOUS
<1>6. purchases' = [purchases EXCEPT ![p] = w]
  <2>1. PICK a : a = [v EXCEPT !.status = status]
    OBVIOUS
  <2>2. PICK b : b = [a EXCEPT !.version = expected + 1]
    OBVIOUS
  <2>3. a = [site |-> v.site, supplier |-> v.supplier, status |-> status, version |-> v.version, lines |-> v.lines]
    BY <1>4, <2>1 DEF PurchaseOrder
  <2>4. b = w
    BY <1>5, <2>2, <2>3 DEF OrderAs
  <2>5. purchases' = [purchases EXCEPT ![p] = b]
    BY <1>1, <1>3, <2>1, <2>2 DEF PurchaseInv
  <2> QED BY <2>4, <2>5
<1>7. w \in PurchaseOrder /\ w.site = v.site /\ w.status = status /\ w.lines = v.lines
  <2>1. v.lines \in [DOMAIN v.lines -> PurchaseLine] /\ expected + 1 \in Nat
    BY <1>4, OrderTyped
  <2> QED BY <1>1, <1>4, <1>5, <2>1, OrderAsTyped
<1>8. ASSUME NEW i \in DOMAIN v.lines PROVE LineMatches(p, w, i)'
  <2>1. v.lines[i].unit \in UnitIds
    BY <1>4, OrderTyped
  <2>2. LineMatches(p, w, i)
    BY <1>4, <1>7 DEF OrderMatches, LineMatches, Booked
  <2>3. \A e : e \in Booked(p, w, i)' <=> e \in Booked(p, w, i)
    BY <1>1 DEF Booked
  <2> QED BY <1>2, <1>7, <2>1, <2>2, <2>3, LineFrame
<1>9. StatusFits(w)
  <2>1. \A i \in DOMAIN v.lines : v.lines[i].received = 0
    BY <1>1, <1>3, <1>4 DEF OrderMatches, StatusFits
  <2>2. PICK i \in DOMAIN v.lines : v.lines[i].ordered # 0
    BY <1>4, OrderTyped DEF OrderMatches
  <2> QED BY <1>1, <1>7, <2>1, <2>2 DEF StatusFits
<1>10. OrderMatches(p, w)'
  BY <1>4, <1>7, <1>8, <1>9 DEF OrderMatches
<1> QED BY <1>1, <1>2, <1>6, <1>10, PurchaseStep

\* One more event is booked for a line.
LEMMA LineBooks ==
  ASSUME NEW p, NEW v, NEW w, NEW i, LineMatches(p, v, i), NEW e, NEW n \in Nat, UnitsKept, UnitRows,
         v.lines[i].unit \in UnitIds, v.lines[i].received \in Nat, v.lines[i].cost \in Nat,
         \A f \in Booked(p, v, i) : f.quantity \in Int /\ f.cost \in Int,
         e \notin Booked(p, v, i), Booked(p, w, i)' = Booked(p, v, i) \cup {e},
         e.quantity = n * Factor(v.lines[i].unit), e.cost = n * v.lines[i].cost,
         w.lines[i].unit = v.lines[i].unit, w.lines[i].cost = v.lines[i].cost,
         w.lines[i].received = v.lines[i].received + n, w.lines[i].received <= w.lines[i].ordered
  PROVE  LineMatches(p, w, i)'
<1>1. PICK l, m : l = v.lines[i] /\ m = w.lines[i]
  OBVIOUS
<1>2. PICK B, C : B = Booked(p, v, i) /\ C = B \cup {e}
  OBVIOUS
<1>3. PICK k : k = Factor(l.unit)
  OBVIOUS
<1>4. k \in Nat /\ Exists(units, l.unit)' /\ Factor(l.unit)' = k
  <2>1. Exists(units, l.unit)
    BY <1>1 DEF LineMatches
  <2>2. units'[l.unit] = units[l.unit] /\ Exists(units, l.unit)'
    BY <1>1, <2>1 DEF UnitsKept
  <2>3. Factor(l.unit)' = k
    BY <1>3, <2>2 DEF Factor
  <2> QED BY <1>1, <1>3, <2>1, <2>2, <2>3, FactorWhole
<1>5. IsFiniteSet(B) /\ Quantities(B) = l.received * k /\ Costs(B) = l.received * l.cost
  BY <1>1, <1>2, <1>3 DEF LineMatches
<1>6. /\ l.received \in Nat /\ l.cost \in Nat /\ e.quantity = n * k /\ e.cost = n * l.cost
      /\ e.quantity \in Int /\ e.cost \in Int
  BY <1>1, <1>3, <1>4
<1>7. IsFiniteSet(C)
  BY <1>2, <1>5, FS_AddElement
<1>8. Quantities(C) = Quantities(B) + n * k
  <2>1. PICK f, h : f = [x \in B |-> x.quantity] /\ h = [x \in C |-> x.quantity]
    OBVIOUS
  <2>2. Amounted(f)
    BY <1>2, <1>5, <2>1 DEF Amounted
  <2>3. e \notin DOMAIN f /\ DOMAIN h = DOMAIN f \cup {e} /\ (\A y \in DOMAIN f : h[y] = f[y]) /\ h[e] = e.quantity
    BY <1>2, <2>1
  <2>4. SumOf(h) = SumOf(f) + h[e]
    BY <1>6, <2>2, <2>3, SumAdd
  <2> QED BY <1>6, <2>1, <2>3, <2>4 DEF Quantities
<1>9. Costs(C) = Costs(B) + n * l.cost
  <2>1. PICK f, h : f = [x \in B |-> x.cost] /\ h = [x \in C |-> x.cost]
    OBVIOUS
  <2>2. Amounted(f)
    BY <1>2, <1>5, <2>1 DEF Amounted
  <2>3. e \notin DOMAIN f /\ DOMAIN h = DOMAIN f \cup {e} /\ (\A y \in DOMAIN f : h[y] = f[y]) /\ h[e] = e.cost
    BY <1>2, <2>1
  <2>4. SumOf(h) = SumOf(f) + h[e]
    BY <1>6, <2>2, <2>3, SumAdd
  <2> QED BY <1>6, <2>1, <2>3, <2>4 DEF Costs
<1>10. \A a, b, c \in Nat : (a + b) * c = a * c + b * c
  OBVIOUS
<1>11. Quantities(C) = (l.received + n) * k /\ Costs(C) = (l.received + n) * l.cost
  BY <1>4, <1>5, <1>6, <1>8, <1>9, <1>10
<1>12. m.unit = l.unit /\ m.cost = l.cost /\ m.received = l.received + n /\ m.received <= m.ordered
  BY <1>1
<1>13. Booked(p, w, i)' = C
  BY <1>2
<1>14. /\ IsFiniteSet(Booked(p, w, i)') /\ Exists(units, m.unit)'
       /\ Quantities(Booked(p, w, i)') = m.received * Factor(m.unit)'
       /\ Costs(Booked(p, w, i)') = m.received * m.cost
  BY <1>4, <1>7, <1>11, <1>12, <1>13
<1> QED BY <1>1, <1>12, <1>14 DEF LineMatches

\* What a receipt books for an ingredient.
Receipt(site, p, i, n, l) == Event(site, i, "receipt", n * Factor(l.unit), n * l.cost, p, None)

\* A delivery books on the ledger what it adds to the lines received (ReceivePurchaseOrder).
LEMMA ReceiveOrderKeeps ==
  ASSUME StockInv, PurchaseInv, NEW site, NEW p \in PurchaseIds, NEW expected \in Nat,
         NEW S \in SUBSET IngredientIds, NEW u \in UnitIds, NEW q \in Quantity, NEW lines,
         lines = [i \in S |-> [unit |-> u, quantity |-> q]],
         handleReceivePO(site, p, expected, lines), UNCHANGED units
  PROVE  PurchaseInv' /\ Appends
<1>1. lines = [i \in S |-> [unit |-> u, quantity |-> q]]
  OBVIOUS
<1>2. DOMAIN lines = S /\ \A i \in S : lines[i].unit = u /\ lines[i].quantity = q
  BY <1>1
<1>3. ReceivePurchaseOrder(site, p, expected, lines)
  BY <1>1 DEF handleReceivePO
<1>4. PICK v : v = purchases[p]
  OBVIOUS
<1>5. v # None /\ v.site = site /\ v.status \in {"submitted", "partially_received"} /\ audits' = audits + 1
  BY <1>3, <1>4 DEF ReceivePurchaseOrder, Exists, Audited
<1>6. OrderMatches(p, v) /\ v \in PurchaseOrder /\ DOMAIN v.lines # {} /\ v.lines \in [DOMAIN v.lines -> PurchaseLine]
  BY <1>4, <1>5, OrderTyped DEF PurchaseInv, OrderMatches
<1>7. PICK after : after = ReceivedLines(v.lines, lines)
  OBVIOUS
<1>8. \A i \in S : i \in DOMAIN v.lines /\ v.lines[i].unit = u /\ after[i].received <= v.lines[i].ordered
  BY <1>2, <1>3, <1>4, <1>7 DEF ReceivePurchaseOrder
<1>9. q \in Nat \ {0}
  BY DEF Quantity
<1>10. ASSUME NEW i \in DOMAIN v.lines
       PROVE  /\ v.lines[i].unit \in UnitIds /\ v.lines[i].ordered \in Nat \ {0} /\ v.lines[i].cost \in Nat
              /\ v.lines[i].received \in Nat
  BY <1>6, OrderTyped
<1>11. ASSUME NEW i \in DOMAIN v.lines, i \notin S PROVE after[i] = v.lines[i]
  BY <1>2, <1>7, <1>11 DEF ReceivedLines
<1>12. ASSUME NEW i \in S
       PROVE  /\ after[i] \in PurchaseLine /\ after[i].unit = v.lines[i].unit /\ after[i].cost = v.lines[i].cost
              /\ after[i].ordered = v.lines[i].ordered /\ after[i].received = v.lines[i].received + q
  <2>1. PICK l : l = v.lines[i]
    OBVIOUS
  <2>2. l \in PurchaseLine
    BY <1>6, <1>8, <1>12, <2>1
  <2>3. after[i] = [l EXCEPT !.received = l.received + q]
    BY <1>2, <1>7, <1>8, <1>12, <2>1 DEF ReceivedLines
  <2>4. after[i] = [unit |-> l.unit, ordered |-> l.ordered, cost |-> l.cost, received |-> l.received + q]
    BY <2>2, <2>3 DEF PurchaseLine
  <2>5. l.unit \in UnitIds /\ l.ordered \in Nat \ {0} /\ l.cost \in Nat /\ l.received + q \in Nat
    BY <1>8, <1>9, <1>10, <1>12, <2>1
  <2>6. after[i] \in PurchaseLine
    BY <2>4, <2>5 DEF PurchaseLine
  <2> QED BY <2>1, <2>4, <2>6
<1>13. after \in [DOMAIN v.lines -> PurchaseLine]
  <2>1. DOMAIN after = DOMAIN v.lines /\ after = [i \in DOMAIN v.lines |-> after[i]]
    BY <1>7 DEF ReceivedLines
  <2>2. \A i \in DOMAIN v.lines : after[i] \in PurchaseLine
    BY <1>6, <1>11, <1>12
  <2> QED BY <2>1, <2>2
<1>14. PICK status : status = IF \E i \in DOMAIN after : after[i].received < after[i].ordered
                              THEN "partially_received" ELSE "received"
  OBVIOUS
<1>15. purchases' = [purchases EXCEPT ![p].lines = after, ![p].version = expected + 1, ![p].status = status]
  BY <1>3, <1>4, <1>7, <1>14 DEF ReceivePurchaseOrder
<1>16. PICK w : w = OrderAs(v, status, expected + 1, after)
  OBVIOUS
<1>17. purchases' = [purchases EXCEPT ![p] = w]
  <2>1. PICK a : a = [v EXCEPT !.lines = after]
    OBVIOUS
  <2>2. PICK b : b = [a EXCEPT !.version = expected + 1]
    OBVIOUS
  <2>3. PICK c : c = [b EXCEPT !.status = status]
    OBVIOUS
  <2>4. a = [site |-> v.site, supplier |-> v.supplier, status |-> v.status, version |-> v.version, lines |-> after]
    BY <1>6, <2>1 DEF PurchaseOrder
  <2>5. b = [site |-> v.site, supplier |-> v.supplier, status |-> v.status, version |-> expected + 1, lines |-> after]
    BY <2>2, <2>4
  <2>6. c = w
    BY <1>16, <2>3, <2>5 DEF OrderAs
  <2>7. purchases' = [purchases EXCEPT ![p] = c]
    BY <1>4, <1>15, <2>1, <2>2, <2>3 DEF PurchaseInv
  <2> QED BY <2>6, <2>7
<1>18. w \in PurchaseOrder /\ w.site = v.site /\ w.status = status /\ w.lines = after
  <2>1. expected + 1 \in Nat /\ status \in {"partially_received", "received"}
    BY <1>14
  <2> QED BY <1>6, <1>13, <1>16, <2>1, OrderAsTyped
<1>19. ledger' = ledger \cup {Receipt(site, p, i, q, v.lines[i]) : i \in S}
  <2>1. ledger' = ledger \cup {Event(site, i, "receipt", lines[i].quantity * Factor(lines[i].unit),
                                     lines[i].quantity * v.lines[i].cost, p, None) : i \in DOMAIN lines}
    BY <1>3, <1>4 DEF ReceivePurchaseOrder
  <2>2. \A i \in S : Event(site, i, "receipt", lines[i].quantity * Factor(lines[i].unit),
                           lines[i].quantity * v.lines[i].cost, p, None) = Receipt(site, p, i, q, v.lines[i])
    BY <1>2, <1>8 DEF Receipt
  <2> QED BY <1>2, <2>1, <2>2
<1>20. \A i : LET e == Receipt(site, p, i, q, v.lines[i]) IN
         /\ e.op = audits /\ e.site = site /\ e.ingredient = i /\ e.type = "receipt" /\ e.ref = p
         /\ e.quantity = q * Factor(v.lines[i].unit) /\ e.cost = q * v.lines[i].cost
  BY EventFields DEF Receipt
<1>21. ASSUME NEW e \in ledger', e \notin ledger
       PROVE  Appended(e) /\ e.ref = p /\ e.quantity \in Int /\ e.cost \in Int
  <2>1. PICK i \in S : e = Receipt(site, p, i, q, v.lines[i])
    BY <1>19, <1>21
  <2>2. /\ e.op = audits /\ e.type = "receipt" /\ e.ref = p
        /\ e.quantity = q * Factor(v.lines[i].unit) /\ e.cost = q * v.lines[i].cost
    BY <1>20, <2>1
  <2>3. Exists(units, v.lines[i].unit) /\ v.lines[i].unit \in UnitIds /\ v.lines[i].cost \in Nat
    BY <1>6, <1>8, <1>10 DEF OrderMatches, LineMatches
  <2>4. Factor(v.lines[i].unit) \in Nat
    BY <2>3, FactorWhole DEF StockInv
  <2> QED BY <1>9, <2>2, <2>3, <2>4 DEF Appended
<1>22. Appends
  BY <1>5, <1>19, <1>21 DEF Appends
<1>23. UnitsKept /\ UnitRows
  BY DEF UnitsKept, Exists, StockInv
<1>24. ASSUME NEW i \in DOMAIN v.lines PROVE LineMatches(p, w, i)'
  <2>1. LineMatches(p, v, i)
    BY <1>6 DEF OrderMatches
  <2>2. CASE i \notin S
    <3>1. LineMatches(p, w, i)
      BY <1>11, <1>18, <2>1, <2>2 DEF LineMatches, Booked
    <3>2. \A e : e \in Booked(p, w, i)' <=> e \in Booked(p, w, i)
      BY <1>19, <1>20, <2>2 DEF Booked
    <3>3. w.lines[i].unit \in UnitIds
      BY <1>10, <1>11, <1>18, <2>2
    <3> QED BY <1>23, <3>1, <3>2, <3>3, LineFrame
  <2>3. CASE i \in S
    <3>1. PICK e : e = Receipt(site, p, i, q, v.lines[i])
      OBVIOUS
    <3>2. e.quantity = q * Factor(v.lines[i].unit) /\ e.cost = q * v.lines[i].cost /\ e.op = audits
      BY <1>20, <3>1
    <3>3. \A f \in Booked(p, v, i) : f.quantity \in Int /\ f.cost \in Int
      BY DEF Booked, PurchaseInv
    <3>4. e \notin Booked(p, v, i)
      BY <3>2 DEF Booked, StockInv, LedgerInv
    <3>5. Booked(p, w, i)' = Booked(p, v, i) \cup {e}
      <4>1. e \in Booked(p, w, i)'
        BY <1>5, <1>18, <1>19, <1>20, <2>3, <3>1 DEF Booked
      <4>2. ASSUME NEW f \in Booked(p, w, i)', f \notin ledger PROVE f = e
        BY <1>19, <1>20, <3>1, <4>2 DEF Booked
      <4> QED BY <1>18, <1>19, <4>1, <4>2 DEF Booked
    <3>6. /\ w.lines[i].unit = v.lines[i].unit /\ w.lines[i].cost = v.lines[i].cost
          /\ w.lines[i].received = v.lines[i].received + q /\ w.lines[i].received <= w.lines[i].ordered
      BY <1>8, <1>12, <1>18, <2>3
    <3> QED BY <1>9, <1>10, <1>23, <2>1, <3>2, <3>3, <3>4, <3>5, <3>6, LineBooks
  <2> QED BY <2>2, <2>3
<1>25. StatusFits(w)
  <2>1. ASSUME NEW i \in DOMAIN v.lines
        PROVE  after[i].received \in Nat /\ after[i].ordered \in Nat /\ after[i].received <= after[i].ordered
    <3>1. CASE i \in S
      BY <1>8, <1>9, <1>10, <1>12, <3>1
    <3>2. CASE i \notin S
      BY <1>6, <1>10, <1>11, <3>2 DEF OrderMatches, LineMatches
    <3> QED BY <3>1, <3>2
  <2>2. DOMAIN after = DOMAIN v.lines
    BY <1>13
  <2> QED BY <1>14, <1>18, <2>1, <2>2 DEF StatusFits
<1>26. OrderMatches(p, w)'
  BY <1>6, <1>13, <1>18, <1>24, <1>25 DEF OrderMatches
<1> QED BY <1>17, <1>21, <1>22, <1>23, <1>26, PurchaseStep

\* Steps of the kitchen graph.
LEMMA GraphSteps ==
  ASSUME StockInv, GraphNext, UNCHANGED stockVars
  PROVE  StockInv' /\ Appends /\ UnitsKept /\ Elsewhere
<1>1. audits' = audits + 1 /\ UNCHANGED <<ledger, transfers>>
  <2>1. audits' = audits + 1
    BY DEF GraphNext, handleCreateUnit, CreateUnit, handleCreateIngredient, CreateIngredient, handleCreateRecipe,
         CreateRecipe, handleAddRecipeVersion, AddRecipeVersion, handleCreateMenuItem, CreateMenuItem, Audited
  <2> QED BY <2>1 DEF stockVars
<1>2. Appends /\ Elsewhere
  BY <1>1 DEF Appends, Elsewhere
<1>3. CASE UNCHANGED units
  <2>1. StockInv'
    BY <1>1, <1>2, <1>3, AppendKeepsStock
  <2> QED BY <1>2, <1>3, <2>1 DEF UnitsKept, Exists
<1>4. CASE \E u \in UnitIds, dim \in {"mass", "count"}, num \in {1, 2} :
             handleCreateUnit(u, [dim |-> dim, num |-> num, den |-> 1])
  <2>1. PICK u \in UnitIds, dim \in {"mass", "count"}, num \in {1, 2} :
          handleCreateUnit(u, [dim |-> dim, num |-> num, den |-> 1])
    BY <1>4
  <2>2. PICK r : r = [dim |-> dim, num |-> num, den |-> 1]
    OBVIOUS
  <2>3. r \in Unit
    BY <2>2 DEF Unit
  <2>4. units[u] = None /\ units' = [units EXCEPT ![u] = r]
    BY <2>1, <2>2 DEF handleCreateUnit, CreateUnit
  <2>5. units \in [UnitIds -> Unit \cup {None}]
    BY DEF StockInv, UnitRows
  <2>6. UnitRows'
    BY <2>3, <2>4, <2>5 DEF UnitRows
  <2>7. UnitsKept
    BY <2>4, <2>5 DEF UnitsKept, Exists
  <2>8. LedgerInv'
    BY <1>2, AppendKeepsLedger DEF StockInv
  <2>9. TransferRows'
    BY <1>1 DEF StockInv, TransferRows
  <2>10. ASSUME NEW x \in TransferIds, transfers'[x] # None PROVE TransferKept(x, transfers[x])'
    <3>1. PICK v : v = transfers[x]
      OBVIOUS
    <3>2. TransferKept(x, v)
      BY <1>1, <2>10, <3>1 DEF StockInv
    <3>3. TransferKept(x, v)'
      BY <1>2, <3>2, AppendKeepsTransfer DEF StockInv
    <3> QED BY <1>1, <3>1, <3>3
  <2> QED BY <1>2, <2>6, <2>7, <2>8, <2>9, <2>10 DEF StockInv
<1>5. UNCHANGED units \/ \E u \in UnitIds, dim \in {"mass", "count"}, num \in {1, 2} :
                           handleCreateUnit(u, [dim |-> dim, num |-> num, den |-> 1])
  BY DEF GraphNext, handleCreateIngredient, CreateIngredient, handleCreateRecipe,
       CreateRecipe, handleAddRecipeVersion, AddRecipeVersion, handleCreateMenuItem, CreateMenuItem
<1> QED BY <1>3, <1>4, <1>5

\* Steps of the day that have nothing to do with purchases.
LEMMA FloorSteps ==
  ASSUME FloorNext
  PROVE  audits' = audits + 1 /\ UNCHANGED <<ledger, purchases>>
<1>1. ASSUME NEW v, handleRecordTemperature(v) PROVE audits' = audits + 1 /\ UNCHANGED <<ledger, purchases>>
  BY <1>1 DEF handleRecordTemperature, RecordTemperature, Audited
<1>2. ASSUME NEW c, NEW type, NEW items, handleCreateChecklist(c, type, items)
      PROVE  audits' = audits + 1 /\ UNCHANGED <<ledger, purchases>>
  BY <1>2 DEF handleCreateChecklist, CreateChecklist, Audited
<1>3. ASSUME NEW c, NEW i, NEW v, handleCompleteChecklistItem(c, i, v)
      PROVE  audits' = audits + 1 /\ UNCHANGED <<ledger, purchases>>
  BY <1>3 DEF handleCompleteChecklistItem, CompleteChecklistItem, Audited
<1>4. ASSUME NEW m, handleCreateStaff(m) PROVE audits' = audits + 1 /\ UNCHANGED <<ledger, purchases>>
  BY <1>4 DEF handleCreateStaff, CreateStaffMember, Audited
<1>5. ASSUME NEW s, NEW m, NEW a, NEW b, handleCreateShift(s, m, a, b)
      PROVE  audits' = audits + 1 /\ UNCHANGED <<ledger, purchases>>
  BY <1>5 DEF handleCreateShift, CreateShift, Audited
<1>6. ASSUME NEW t, NEW m, NEW pr, handleCreateTask(t, m, pr)
      PROVE  audits' = audits + 1 /\ UNCHANGED <<ledger, purchases>>
  BY <1>6 DEF handleCreateTask, CreateTask, Audited
<1>7. ASSUME NEW kind, NEW id, NEW status, NEW v, simpleDailyTransition(kind, id, status, v)
      PROVE  audits' = audits + 1 /\ UNCHANGED <<ledger, purchases>>
  BY <1>7 DEF simpleDailyTransition, TransitionShift, TransitionTask, Audited
<1> QED BY <1>1, <1>2, <1>3, <1>4, <1>5, <1>6, <1>7, Zenon DEF FloorNext

\* Every step of purchasing keeps orders and ledger in agreement.
LEMMA PurchaseSteps ==
  ASSUME StockInv, PurchaseInv, PurchaseNext, UNCHANGED units
  PROVE  PurchaseInv' /\ Appends
<1>1. ASSUME NEW s, handleCreateSupplier(s) PROVE PurchaseInv' /\ Appends
  <2>1. audits' = audits + 1 /\ UNCHANGED <<ledger, purchases>>
    BY <1>1 DEF handleCreateSupplier, CreateSupplier, Audited
  <2>2. Appends /\ Elsewhere /\ UnitsKept
    BY <2>1 DEF Appends, Elsewhere, UnitsKept, Exists
  <2> QED BY <2>1, <2>2, PurchaseFrame
<1>2. CASE \E s \in SupplierIds : handleCreateSupplier(s)
  BY <1>1, <1>2
<1>3. CASE \E site \in Sites, p \in PurchaseIds, s \in SupplierIds, S \in SUBSET IngredientIds, u \in UnitIds, q \in Quantity :
             handleCreatePO(site, p, s, [i \in S |-> [unit |-> u, ordered |-> q, cost |-> 1]])
  <2>1. PICK site \in Sites, p \in PurchaseIds, s \in SupplierIds, S \in SUBSET IngredientIds, u \in UnitIds, q \in Quantity :
          handleCreatePO(site, p, s, [i \in S |-> [unit |-> u, ordered |-> q, cost |-> 1]])
    BY <1>3
  <2> QED BY <2>1, CreateOrderKeeps, Zenon
<1>4. CASE \E site \in Sites, p \in PurchaseIds, status \in {"submitted", "cancelled"}, v \in 1..MaxOps :
             handlePOTransition(site, p, status, v)
  <2>1. PICK site \in Sites, p \in PurchaseIds, status \in {"submitted", "cancelled"}, v \in 1..MaxOps :
          handlePOTransition(site, p, status, v)
    BY <1>4
  <2>2. v \in Nat
    OBVIOUS
  <2> QED BY <2>1, <2>2, TransitionOrderKeeps
<1>5. CASE \E site \in Sites, p \in PurchaseIds, v \in 1..MaxOps, S \in SUBSET IngredientIds, u \in UnitIds, q \in Quantity :
             handleReceivePO(site, p, v, [i \in S |-> [unit |-> u, quantity |-> q]])
  <2>1. PICK site \in Sites, p \in PurchaseIds, v \in 1..MaxOps, S \in SUBSET IngredientIds, u \in UnitIds, q \in Quantity :
          handleReceivePO(site, p, v, [i \in S |-> [unit |-> u, quantity |-> q]])
    BY <1>5
  <2>2. v \in Nat
    OBVIOUS
  <2>3. PICK lines : lines = [i \in S |-> [unit |-> u, quantity |-> q]]
    OBVIOUS
  <2>4. handleReceivePO(site, p, v, lines)
    BY <2>1, <2>3
  <2> QED BY <2>2, <2>3, <2>4, ReceiveOrderKeeps
<1> QED BY <1>2, <1>3, <1>4, <1>5, Zenon DEF PurchaseNext

PantryInv == StockInv /\ PurchaseInv

\* The opening ledger holds no transfer and no purchase.
LEMMA PantryStart ==
  ASSUME GraphInit, StockInit, DailyInit, audits = 0
  PROVE  PantryInv
<1>1. \A e \in ledger : e.op = -1 /\ e.type = "receipt" /\ e.ref = None
  BY DEF StockInit
<1>2. LedgerInv
  BY <1>1 DEF LedgerInv
<1>3. UnitRows
  BY GraphAssumption DEF GraphInit, UnitRows
<1>4. DOMAIN transfers = TransferIds /\ \A x \in TransferIds : transfers[x] = None
  BY DEF StockInit
<1>5. StockInv
  BY <1>2, <1>3, <1>4 DEF StockInv, TransferRows
<1>6. purchases = [p \in PurchaseIds |-> None]
  BY DEF DailyInit
<1>7. PurchaseInv
  BY <1>1, <1>6, PurchaseAssumption DEF PurchaseInv
<1> QED BY <1>5, <1>7 DEF PantryInv

\* Stock, purchasing, recipes and the floor together keep the documents and the ledger in agreement.
LEMMA PantryKeeps == PantryInv /\ [PantryNext]_<<audits, graphVars, stockVars, dailyVars>> => PantryInv'
<1> SUFFICES ASSUME PantryInv, [PantryNext]_<<audits, graphVars, stockVars, dailyVars>> PROVE PantryInv'
  OBVIOUS
<1>1. StockInv /\ PurchaseInv
  BY DEF PantryInv
<1>2. CASE UNCHANGED <<audits, graphVars, stockVars, dailyVars>>
  <2>1. UNCHANGED <<audits, ledger, units, transfers, purchases>>
    BY <1>2 DEF graphVars, stockVars, dailyVars
  <2>2. StockInv'
    <3>1. LedgerInv' /\ UnitRows' /\ TransferRows'
      BY <1>1, <2>1 DEF StockInv, LedgerInv, UnitRows, TransferRows
    <3>2. ASSUME NEW x \in TransferIds, transfers'[x] # None PROVE TransferKept(x, transfers[x])'
      BY <1>1, <2>1, <3>2 DEF StockInv, TransferKept, Left, Came, LostWith
    <3> QED BY <3>1, <3>2 DEF StockInv
  <2>3. PurchaseInv'
    <3>1. ASSUME NEW p \in PurchaseIds, purchases'[p] # None PROVE OrderMatches(p, purchases[p])'
      BY <1>1, <2>1, <3>1 DEF PurchaseInv, OrderMatches, LineMatches, Booked, Factor, Exists, StatusFits
    <3> QED BY <1>1, <2>1, <3>1 DEF PurchaseInv
  <2> QED BY <2>2, <2>3 DEF PantryInv
<1>3. CASE GraphNext /\ UNCHANGED <<stockVars, dailyVars>>
  <2>1. UNCHANGED purchases
    BY <1>3 DEF dailyVars
  <2>2. StockInv' /\ Appends /\ UnitsKept /\ Elsewhere
    BY <1>1, <1>3, GraphSteps
  <2>3. PurchaseInv'
    BY <1>1, <2>1, <2>2, PurchaseFrame
  <2> QED BY <2>2, <2>3 DEF PantryInv
<1>4. CASE /\ LedgerNext \/ Movement(ManualTypes, UnitIds, TransferIds) \/ TransferNext \/ BatchNext \/ RuleNext
           /\ UNCHANGED dailyVars
  <2>1. UNCHANGED purchases
    BY <1>4 DEF dailyVars
  <2>2. StockInv' /\ Appends /\ UNCHANGED graphVars /\ Elsewhere
    BY <1>1, <1>4, StockSteps
  <2>3. UnitsKept
    BY <2>2 DEF UnitsKept, Exists, graphVars
  <2>4. PurchaseInv'
    BY <1>1, <2>1, <2>2, <2>3, PurchaseFrame
  <2> QED BY <2>2, <2>4 DEF PantryInv
<1>5. CASE (PurchaseNext \/ FloorNext) /\ UNCHANGED <<graphVars, counts, transfers, batches, rules>>
  <2>1. UNCHANGED <<units, transfers>>
    BY <1>5 DEF graphVars
  <2>2. PurchaseInv' /\ Appends
    <3>1. CASE PurchaseNext
      BY <1>1, <2>1, <3>1, PurchaseSteps
    <3>2. CASE FloorNext
      <4>1. audits' = audits + 1 /\ UNCHANGED <<ledger, purchases>>
        BY <3>2, FloorSteps
      <4>2. Appends /\ Elsewhere /\ UnitsKept
        BY <2>1, <4>1 DEF Appends, Elsewhere, UnitsKept, Exists
      <4> QED BY <1>1, <4>1, <4>2, PurchaseFrame
    <3> QED BY <1>5, <3>1, <3>2
  <2>3. StockInv'
    BY <1>1, <2>1, <2>2, AppendKeepsStock
  <2> QED BY <2>2, <2>3 DEF PantryInv
<1> QED BY <1>2, <1>3, <1>4, <1>5 DEF PantryNext

\* Documents and ledger agree in every state.
LEMMA PantryAlways == PantrySpec => []PantryInv
<1>1. GraphInit /\ StockInit /\ DailyInit /\ audits = 0 => PantryInv
  BY PantryStart
<1> QED BY <1>1, PantryKeeps, PTL DEF PantrySpec

\* For all sites, ingredients and transfers: what a received transfer brought in is what some earlier
\* shipment took out, in quantity and cost, what is missing was written off with it, and no line was
\* dispatched beyond what was asked or received beyond what was dispatched, although counts, batches,
\* deliveries and movements by hand are booked in between (dispatchTransferInventory, receiveTransferInventory).
THEOREM TransfersConserve == PantrySpec => []TransferConserves
<1>1. ASSUME PantryInv PROVE TransferConserves
  <2> SUFFICES ASSUME NEW x \in TransferIds, Exists(transfers, x), NEW i \in DOMAIN transfers[x].lines
               PROVE  LET v == transfers[x]
                          by(site, j, type) == {e \in At(site, j) : e.ref = x /\ e.type = type}
                          sum(S) == SumOf([e \in S |-> e.quantity])
                      IN
                      /\ v.status \in {"dispatched", "received"} =>
                           \E e \in by(v.source, i, "transfer_out") :
                             e.quantity = -v.lines[i].dispatched /\ v.lines[i].dispatched <= v.lines[i].quantity
                      /\ v.status = "received" =>
                           \E in \in by(v.destination, i, "transfer_in") :
                             LET lost == {e \in by(v.destination, i, "spoilage") : e.op = in.op} IN
                             /\ \E out \in by(v.source, i, "transfer_out") :
                                  out.op < in.op /\ in.quantity = -out.quantity /\ in.cost = -out.cost
                             /\ in.quantity + sum(lost) = v.lines[i].received
                             /\ v.lines[i].received <= v.lines[i].dispatched
    BY Zenon DEF TransferConserves
  <2>1. PICK v : v = transfers[x]
    OBVIOUS
  <2>2. TransferKept(x, v)
    BY <1>1, <2>1 DEF PantryInv, StockInv, Exists
  <2>3. ASSUME v.status \in {"dispatched", "received"}
        PROVE  \E e \in {f \in At(v.source, i) : f.ref = x /\ f.type = "transfer_out"} :
                 e.quantity = -v.lines[i].dispatched /\ v.lines[i].dispatched <= v.lines[i].quantity
    BY <2>1, <2>2, <2>3 DEF TransferKept, Left, At
  <2>4. ASSUME v.status = "received"
        PROVE  \E in \in {f \in At(v.destination, i) : f.ref = x /\ f.type = "transfer_in"} :
                 /\ \E out \in {f \in At(v.source, i) : f.ref = x /\ f.type = "transfer_out"} :
                      out.op < in.op /\ in.quantity = -out.quantity /\ in.cost = -out.cost
                 /\ in.quantity + Quantities({e \in {f \in At(v.destination, i) : f.ref = x /\ f.type = "spoilage"} :
                                                e.op = in.op}) = v.lines[i].received
                 /\ v.lines[i].received <= v.lines[i].dispatched
    <3>1. Came(x, v, i) /\ v.lines[i].received <= v.lines[i].dispatched
      BY <2>1, <2>2, <2>4 DEF TransferKept
    <3>2. \A in : LostWith(x, v, i, in)
                    = {e \in {f \in At(v.destination, i) : f.ref = x /\ f.type = "spoilage"} : e.op = in.op}
      BY DEF LostWith, At
    <3>3. PICK in \in ledger :
            /\ in.site = v.destination /\ in.ingredient = i /\ in.ref = x /\ in.type = "transfer_in"
            /\ \E out \in ledger :
                 /\ out.site = v.source /\ out.ingredient = i /\ out.ref = x /\ out.type = "transfer_out"
                 /\ out.op < in.op /\ in.quantity = -out.quantity /\ in.cost = -out.cost
            /\ in.quantity + Quantities(LostWith(x, v, i, in)) = v.lines[i].received
      BY <3>1 DEF Came
    <3>4. in \in {f \in At(v.destination, i) : f.ref = x /\ f.type = "transfer_in"}
      BY <3>3 DEF At
    <3>5. \E out \in {f \in At(v.source, i) : f.ref = x /\ f.type = "transfer_out"} :
            out.op < in.op /\ in.quantity = -out.quantity /\ in.cost = -out.cost
      BY <3>3 DEF At
    <3>6. in.quantity + Quantities({e \in {f \in At(v.destination, i) : f.ref = x /\ f.type = "spoilage"} : e.op = in.op})
            = v.lines[i].received
      BY <3>2, <3>3
    <3> QED BY <3>1, <3>4, <3>5, <3>6, Zenon
  <2> QED BY <2>1, <2>3, <2>4, Zenon DEF Quantities
<1> QED BY <1>1, PantryAlways, PTL

\* For all purchase orders: after any number of partial deliveries what the lines say was received is
\* what the ledger has for the order, in quantity and cost, nothing was received beyond what was ordered,
\* and the order is received exactly when all of it is (ReceivePurchaseOrder).
THEOREM ReceiptsAlwaysMatch == PantrySpec => []ReceiptsMatchOrder
<1>1. ASSUME PantryInv PROVE ReceiptsMatchOrder
  <2>1. ASSUME NEW p \in PurchaseIds, Exists(purchases, p), NEW v, v = purchases[p]
        PROVE  /\ \A i \in DOMAIN v.lines :
                    /\ Quantities({e \in At(v.site, i) : e.ref = p}) = v.lines[i].received * Factor(v.lines[i].unit)
                    /\ Costs({e \in At(v.site, i) : e.ref = p}) = v.lines[i].received * v.lines[i].cost
                    /\ v.lines[i].received <= v.lines[i].ordered
               /\ (v.status = "received") = (\A i \in DOMAIN v.lines : v.lines[i].received = v.lines[i].ordered)
               /\ v.status \in {"draft", "submitted", "cancelled"} => \A i \in DOMAIN v.lines : v.lines[i].received = 0
    <3>1. OrderMatches(p, v)
      BY <1>1, <2>1 DEF PantryInv, PurchaseInv, Exists
    <3>2. \A i : Booked(p, v, i) = {e \in At(v.site, i) : e.ref = p}
      BY DEF Booked, At
    <3>3. StatusFits(v) /\ \A i \in DOMAIN v.lines : LineMatches(p, v, i)
      BY <3>1 DEF OrderMatches
    <3> QED BY <3>2, <3>3 DEF StatusFits, LineMatches
  <2> QED BY <2>1, Zenon DEF ReceiptsMatchOrder, Quantities, Costs
<1> QED BY <1>1, PantryAlways, PTL
=============================================================================
