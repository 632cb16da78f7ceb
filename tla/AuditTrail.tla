----------------------------- MODULE AuditTrail -----------------------------
(***************************************************************************)
(* What the back-office modules share: tables of rows by id, and the rule  *)
(* that a mutation is one transaction that ends by inserting its audit     *)
(* event (insertAudit, appendAuditLocked).  A refused mutation rolls back  *)
(* and changes nothing, so it is no step.  Operation ids are fresh here;   *)
(* Idempotency is about repeated ones.                                     *)
(***************************************************************************)
EXTENDS Integers, FiniteSets, Sums

CONSTANTS
  None,
  MaxOps           \* bound: mutations in a behaviour

ASSUME NoneNumber == None \notin Nat

VARIABLE audits    \* audit events written

Audited == audits' = audits + 1

Rows(table) == {table[id] : id \in {i \in DOMAIN table : table[i] # None}}
Exists(table, id) == id \in DOMAIN table /\ table[id] # None

\* The number after COALESCE(MAX(version), 0).
NextNumber(n, numbers) == n - 1 \in numbers \cup {0} /\ \A m \in numbers : m < n

\* Ids are chosen by clients; the smallest unused number stands for a new one.
Fresh(table) ==
  {id \in DOMAIN table : table[id] = None /\ \A j \in DOMAIN table : table[j] = None => id <= j}
=============================================================================
