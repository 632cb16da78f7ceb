--------------------------- MODULE MCIdempotency ----------------------------
(* TLC instance of Idempotency: two tenants' users, an edge device and the  *)
(* platform operator, with retries, reused keys and reused operation ids.   *)
EXTENDS Idempotency

CONSTANTS t1, t2, out1

Token(tenant, actor, roles, outlets) ==
  [type |-> "token", signed |-> TRUE, ours |-> TRUE, tenant |-> tenant, actor |-> actor,
   roles |-> roles, outlets |-> outlets, now |-> 10, expires |-> 10, notBefore |-> 10]

owner   == Token(t1, "ana", {"owner"}, {})
cashier == Token(t1, "ben", {"cashier"}, {out1})
expired == [owner EXCEPT !.expires = 8]
admin   == Token(t2, "ops", {"platform_admin"}, {})
edge    == [type |-> "certificate", tenant |-> t1, edge |-> "edge1", outlet |-> out1,
            fingerprint |-> "active"]
revoked == [edge EXCEPT !.fingerprint = "revoked"]

Call(credential, path, tenant, actor, outlet, key, op) ==
  [credential |-> credential, origin |-> "own", shape |-> "good",
   route |-> [method |-> "POST", path |-> path], tenant |-> tenant, actor |-> actor,
   outlet |-> outlet, key |-> key, headerKey |-> key, op |-> op, payload |-> op]

create == Call(owner, "orders", t1, "ana", out1, "k1", 1)

MCCalls == {
  create,
  \* the same key with another body, the same operation id under another key
  Call(owner, "orders", t1, "ana", out1, "k1", 2),
  Call(owner, "orders", t1, "ana", out1, "k2", 1) }

\* Calls that are refused before they reach the store, and the batch of an
\* active device, which is not executeMutation's.
MCRefused == {
  Call(cashier, "orders", t1, "ana", out1, "k1", 1),
  Call(admin, "orders", t1, "ops", out1, "k1", 1),
  Call(revoked, "sync", t1, "edge1", out1, "k1", 7),
  Call(edge, "sync", t1, "edge1", out1, "k1", 7),
  [create EXCEPT !.credential = expired] }

MCAllCalls == MCCalls \cup MCRefused
=============================================================================
