------------------------------- MODULE Access -------------------------------
(***************************************************************************)
(* Who may do what at core: the principal that a token or a device         *)
(* certificate stands for (services/core/internal/auth/auth.go), the       *)
(* routes a role may use and the checks that a mutation passes before it   *)
(* reaches the idempotency store (services/core/internal/api/server.go).   *)
(*                                                                         *)
(* A call is a record: the credential presented, the route, the well-      *)
(* formedness of the body (shape), and the envelope's tenant, actor,       *)
(* outlet, idempotency key, key header, payload and operation id.          *)
(***************************************************************************)
EXTENDS Integers

CONSTANTS
  None,
  ClockSkew,      \* tolerated difference of clocks
  ActiveDevices   \* fingerprints of the registered devices that are not revoked

HasRole(p, role) == role \in p.roles

IsPlatformAdmin(p) == HasRole(p, "platform_admin")

\* A mutation without an outlet needs an owner or a manager.
AllowsOutlet(p, outlet) ==
  IF outlet = None THEN HasRole(p, "owner") \/ HasRole(p, "manager")
  ELSE HasRole(p, "owner") \/ "*" \in p.outlets \/ outlet \in p.outlets

\* A bearer token with a good signature, for this audience, in its window.
OIDCAuthenticate(token) ==
  IF /\ token.signed /\ token.ours /\ token.tenant # None /\ token.actor # None
     /\ token.now <= token.expires + ClockSkew
     /\ token.now + ClockSkew >= token.notBefore
  THEN [tenant |-> token.tenant, actor |-> token.actor, roles |-> token.roles,
        outlets |-> token.outlets, kind |-> "user"]
  ELSE None

\* The principal of an edge is its registered certificate.
CertificateAuthenticate(cert) ==
  IF cert.tenant # None /\ cert.fingerprint \in ActiveDevices
  THEN [tenant |-> cert.tenant, actor |-> cert.edge, roles |-> {"edge"},
        outlets |-> {cert.outlet}, kind |-> "device"]
  ELSE None

\* Only the synchronization route takes device certificates.
Authenticate(c) ==
  IF c.route.path = "sync"
  THEN IF c.credential.type = "certificate" THEN CertificateAuthenticate(c.credential) ELSE None
  ELSE IF c.credential.type = "token" THEN OIDCAuthenticate(c.credential) ELSE None

routeAuthorized(p, route) ==
  IF p.kind = "device" THEN route = [method |-> "POST", path |-> "sync"]
  ELSE IF IsPlatformAdmin(p) THEN route.path = "platform"
  ELSE IF HasRole(p, "owner") \/ HasRole(p, "manager") THEN TRUE
  ELSE IF HasRole(p, "cashier")
  THEN \/ route = [method |-> "POST", path |-> "orders"]
       \/ route.method = "GET" /\ route.path = "orders" /\ AllowsOutlet(p, route.outlet)
  ELSE /\ HasRole(p, "chef")
       /\ \/ route.method = "POST" /\ route.path \in {"ticketTransition", "batchTransition"}
          \/ /\ route.method = "GET" /\ route.path \in {"orders", "tickets", "batches"}
             /\ AllowsOutlet(p, route.outlet)

\* Faulty: the envelope's tenant and actor are taken at their word.
ingressStatusUnscoped(p, c) == IF AllowsOutlet(p, c.outlet) THEN None ELSE 403

\* The status of the first check of executeMutation that fails, None when
\* every check passes.
ingressStatus(p, c) ==
  IF c.shape = "media" THEN 415
  ELSE IF c.shape = "large" THEN 413
  ELSE IF c.shape \in {"unreadable", "malformed", "empty"} THEN 400
  ELSE IF c.shape = "metadata" THEN 422
  ELSE IF c.actor # p.actor \/ (~IsPlatformAdmin(p) /\ c.tenant # p.tenant) THEN 403
  ELSE IF ~IsPlatformAdmin(p) /\ ~AllowsOutlet(p, c.outlet) THEN 403
  ELSE IF c.headerKey # c.key \/ c.shape = "correlation" THEN 400
  ELSE None

\* A platform command is deduplicated in the operator's own tenant.
scopeOf(p, c) ==
  [tenant |-> IF IsPlatformAdmin(p) THEN p.tenant ELSE c.tenant,
   actor |-> c.actor, route |-> c.route, key |-> c.key]

\* The fingerprint covers the method, the path and the whole body.
fingerprint(c) == <<c.route, c.tenant, c.actor, c.outlet, c.key, c.op, c.payload>>

\* A browser of another origin is turned away before authentication.
applyCORS(c) == c.origin # "foreign"

\* The status ServeHTTP refuses a call with, None when its handler is run.
ServeHTTP(c) ==
  LET p == Authenticate(c) IN
  IF ~applyCORS(c) THEN 403
  ELSE IF p = None THEN 401
  ELSE IF ~routeAuthorized(p, c.route) THEN 403
  ELSE None
=============================================================================
