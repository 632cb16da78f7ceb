----------------------------- MODULE Operations -----------------------------
(***************************************************************************)
(* Operational control of an outlet: published configuration snapshots,    *)
(* the life of a reconciliation case, incidents, backup evidence           *)
(* (store/postgres_operations.go behind api/operations.go, tables of       *)
(* migrations/000009).                                                     *)
(*                                                                         *)
(* Cases are opened by CoreSync for operations it refuses; here they exist *)
(* from the start.  A case row is locked (FOR UPDATE) before its version   *)
(* is compared and a snapshot's sequence is chosen under an advisory lock, *)
(* so each transaction is one step.  Titles and details are left out.      *)
(***************************************************************************)
EXTENDS AuditTrail

CONSTANTS
  CaseIds,         \* reconciliation cases that CoreSync has opened
  Assignees, Resolutions,
  SnapshotIds, IncidentIds, ManifestIds, DrillIds

VARIABLES
  snapshots,       \* configuration_snapshots: id -> sequence
  cases, caseActions,
  incidents, incidentEvents,
  manifests, drills

opsVars == <<snapshots, cases, caseActions, incidents, incidentEvents, manifests, drills>>

-----------------------------------------------------------------------------
(* Configuration snapshots *)

\* COALESCE(MAX(sequence), 0) + 1 under the outlet's advisory lock.
PublishSnapshot(s) ==
  /\ snapshots[s] = None
  /\ LET sequences == Rows(snapshots) \cup {0}
     IN snapshots' = [snapshots EXCEPT ![s] = 1 + (CHOOSE n \in sequences : \A m \in sequences : m <= n)]
  /\ Audited /\ UNCHANGED <<cases, caseActions, incidents, incidentEvents, manifests, drills>>

\* Content is signed when a signing key is configured; without one nothing is published.
handlePublishSnapshot(s, signing) == signing /\ PublishSnapshot(s)
-----------------------------------------------------------------------------
(* Reconciliation cases *)

Active == {"open", "in_progress"}
Closed == {"resolved", "dismissed"}
CaseStep ==
  [assign  |-> [from |-> Active, to |-> "in_progress"],
   retry   |-> [from |-> Active, to |-> "open"],
   reopen  |-> [from |-> Closed, to |-> "open"],
   resolve |-> [from |-> Active, to |-> "resolved"],
   dismiss |-> [from |-> Active, to |-> "dismissed"]]

\* The row after an action: only assign sets the assignee, only a closing
\* action the resolution, and assign alone leaves the time of resolution.
CaseAfter(row, action, notes, assignee) ==
  LET to == CaseStep[action].to IN
  [status     |-> to,
   assignee   |-> IF action = "assign" THEN assignee ELSE row.assignee,
   resolution |-> IF to \in Closed THEN notes ELSE row.resolution,
   resolvedAt |-> IF to \in Closed THEN audits ELSE IF action = "assign" THEN row.resolvedAt ELSE None,
   version    |-> row.version + 1]

\* Faulty: the version the operator decided on is not compared.
ActOnReconciliationCaseAnyVersion(c, action, notes, assignee, expected) ==
  /\ Exists(cases, c) /\ cases[c].status \in CaseStep[action].from
  /\ cases' = [cases EXCEPT ![c] = CaseAfter(@, action, notes, assignee)]
  /\ caseActions' = caseActions \cup
       {[op |-> audits, case |-> c, action |-> action, notes |-> notes, previous |-> cases[c].status,
         resulting |-> cases'[c].status, expected |-> expected]}
  /\ Audited /\ UNCHANGED <<snapshots, incidents, incidentEvents, manifests, drills>>

ActOnReconciliationCase(c, action, notes, assignee, expected) ==
  /\ Exists(cases, c) /\ cases[c].version = expected /\ cases[c].status \in CaseStep[action].from
  /\ cases' = [cases EXCEPT ![c] = CaseAfter(@, action, notes, assignee)]
  /\ caseActions' = caseActions \cup
       {[op |-> audits, case |-> c, action |-> action, notes |-> notes, previous |-> cases[c].status,
         resulting |-> cases'[c].status, expected |-> expected]}
  /\ Audited /\ UNCHANGED <<snapshots, incidents, incidentEvents, manifests, drills>>

handleCaseAction(c, action, notes, assignee, expected) ==
  /\ action \in DOMAIN CaseStep /\ expected >= 1
  /\ ActOnReconciliationCase(c, action, notes, assignee, expected)
-----------------------------------------------------------------------------
(* Incidents *)

IncidentEvent(i, type) == incidentEvents' = incidentEvents \cup {[op |-> audits, incident |-> i, type |-> type]}

CreateIncident(i) ==
  /\ incidents[i] = None
  /\ incidents' = [incidents EXCEPT ![i] = [status |-> "open", version |-> 1, resolvedAt |-> None]]
  /\ IncidentEvent(i, "opened")
  /\ Audited /\ UNCHANGED <<snapshots, cases, caseActions, manifests, drills>>

handleCreateIncident(i) == CreateIncident(i)

\* An incident is reopened only from resolved; monitoring may repeat.
TransitionIncident(i, status, expected) ==
  /\ Exists(incidents, i) /\ incidents[i].version = expected
  /\ incidents[i].status \in (IF status = "open" THEN {"resolved"} ELSE {"open", "monitoring"})
  /\ incidents' = [incidents EXCEPT ![i] =
       [status |-> status, version |-> expected + 1,
        resolvedAt |-> IF status = "resolved" THEN audits ELSE IF status = "open" THEN None ELSE @.resolvedAt]]
  /\ IncidentEvent(i, IF status = "open" THEN "reopened" ELSE status)
  /\ Audited /\ UNCHANGED <<snapshots, cases, caseActions, manifests, drills>>

handleIncidentAction(i, status, expected) ==
  /\ status \in {"open", "monitoring", "resolved"} /\ expected >= 1
  /\ TransitionIncident(i, status, expected)
-----------------------------------------------------------------------------
(* Backup evidence *)

RecordBackupManifest(m, v) ==
  /\ manifests[m] = None
  /\ manifests' = [manifests EXCEPT ![m] = v]
  /\ Audited /\ UNCHANGED <<snapshots, cases, caseActions, incidents, incidentEvents, drills>>

validBackup(v) == v.type \in {"full", "incremental", "edge"} /\ v.size >= 1

handleRecordBackup(m, v) == validBackup(v) /\ RecordBackupManifest(m, v)

RecordRestoreDrill(d, v) ==
  /\ drills[d] = None /\ Exists(manifests, v.manifest)
  /\ drills' = [drills EXCEPT ![d] = v]
  /\ Audited /\ UNCHANGED <<snapshots, cases, caseActions, incidents, incidentEvents, manifests>>

handleRecordDrill(d, v) == v.status \in {"passed", "failed"} /\ RecordRestoreDrill(d, v)
-----------------------------------------------------------------------------
OperationsInit ==
  /\ snapshots = [s \in SnapshotIds |-> None]
  /\ cases = [c \in CaseIds |->
       [status |-> "open", assignee |-> None, resolution |-> None, resolvedAt |-> None, version |-> 1]]
  /\ incidents = [i \in IncidentIds |-> None]
  /\ manifests = [m \in ManifestIds |-> None] /\ drills = [d \in DrillIds |-> None]
  /\ caseActions = {} /\ incidentEvents = {}

CaseNext ==
  \E c \in CaseIds, action \in DOMAIN CaseStep, notes \in Resolutions, assignee \in Assignees, v \in 1..MaxOps :
    /\ CaseStep[action].to \notin Closed => notes = CHOOSE n \in Resolutions : TRUE
    /\ action # "assign" => assignee = CHOOSE a \in Assignees : TRUE
    /\ handleCaseAction(c, action, notes, assignee, v)

ControlNext ==
  \/ \E s \in SnapshotIds, signing \in BOOLEAN : handlePublishSnapshot(s, signing)
  \/ \E i \in IncidentIds : handleCreateIncident(i)
  \/ \E i \in IncidentIds, status \in {"open", "monitoring", "resolved"}, v \in 1..MaxOps :
       handleIncidentAction(i, status, v)
  \/ \E m \in ManifestIds, type \in {"full", "edge"}, size \in {0, 1} :
       handleRecordBackup(m, [type |-> type, size |-> size])
  \/ \E d \in DrillIds, m \in ManifestIds, status \in {"passed", "failed"} :
       handleRecordDrill(d, [manifest |-> m, status |-> status])

OperationsSpec ==
  OperationsInit /\ audits = 0 /\ [][CaseNext \/ ControlNext]_<<audits, opsVars>>
-----------------------------------------------------------------------------
(* Properties *)

\* A case reads as its actions tell it, also when operators act on the same
\* version: the actions follow each other version by version, each starts at the
\* status the one before it left, the row is at the last one's status, and it is closed
\* exactly when it carries a time of resolution, which is that of the last closing
\* action together with its notes (ActOnReconciliationCase).
CasesReplay ==
  \A c \in CaseIds :
    LET acts == {a \in caseActions : a.case = c}
        at(v) == {a \in acts : a.expected = v}
        row == cases[c]
    IN
    /\ Cardinality(acts) = row.version - 1
    /\ \A v \in 1..(row.version - 1) : Cardinality(at(v)) = 1
    /\ \A a \in acts : a.previous = IF a.expected = 1 THEN "open"
                                    ELSE (CHOOSE b \in at(a.expected - 1) : TRUE).resulting
    /\ \A a \in at(row.version - 1) : row.status = a.resulting
    /\ row.status \in Closed <=> row.resolvedAt # None
    /\ row.status \in Closed => \E a \in at(row.version - 1) :
         a.op = row.resolvedAt /\ a.notes = row.resolution
=============================================================================
