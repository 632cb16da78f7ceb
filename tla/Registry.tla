------------------------------ MODULE Registry ------------------------------
(***************************************************************************)
(* The tenant's registry at core: organizations, outlets, brands and their *)
(* assignment to outlets, stations, orders, kitchen tickets and edge       *)
(* devices, behind the handlers of services/core/internal/api/handlers.go  *)
(* and platform.go.  Two repositories implement it: process memory, whose  *)
(* mutex makes each call a step (store/memory.go), and PostgreSQL, whose   *)
(* constraints do the checking (store/postgres_repository.go and           *)
(* migrations/000001, 000004 and 000020).                                  *)
(***************************************************************************)
EXTENDS KitchenRules, AuditTrail

CONSTANTS
  Tenants,         \* tenant ids; an organization's id comes from the same set
  SeededTenants,   \* tenants that exist in PostgreSQL before any request
  Outlets, Brands, Stations, TicketIds, Devices,
  OrderIds,        \* order ids, numbered in the order that ORDER BY id gives them
  Lines,           \* order line ids
  PageLimit        \* the page size a reader asks for

\* The rows of the tables; a code, an edge's name and a source stand for the ones clients choose.
Code == {"A", "B", "HOT"}
Edge == {"edge"}
Source == {"pos", None}
OrganizationRow == [tenant : Tenants]
OutletRow == [tenant : Tenants, org : Tenants, code : Code]
BrandRow == OutletRow
AssignmentRow == [tenant : Tenants, active : BOOLEAN, version : Nat]
StationRow == [tenant : Tenants, outlet : Outlets, code : Code]
DeviceRow == [tenant : Tenants, outlet : Outlets, edge : Edge, status : {"active", "revoked"}]
OrderRow == [tenant : Tenants, outlet : Outlets, brand : Brands \cup {None},
             source : Source, lines : SUBSET Lines, status : OrderStatus,
             version : Nat, created : Nat]
TicketRow == [tenant : Tenants, outlet : Outlets, order : OrderIds, station : Stations,
              lines : SUBSET Lines, status : TicketStatus, version : Nat]

ASSUME RegistryAssumption ==
  /\ MaxOps \in Nat /\ PageLimit \in Nat \ {0}
  /\ IsFiniteSet(OrderIds) /\ OrderIds \subseteq Nat /\ None \notin Outlets
  /\ None \notin OrganizationRow \cup OutletRow \cup AssignmentRow \cup StationRow
                 \cup DeviceRow \cup OrderRow \cup TicketRow

VARIABLES
  repo,            \* the configured repository, "memory" or "postgres"
  tenants,         \* rows of tenants (PostgreSQL)
  organizations, outlets, brands, assignments, stations, devices,
  orders, tickets, \* each: id -> row, or None
  consumed,        \* orders whose recipes were taken from the inventory (PostgreSQL)
  reader           \* a client paging through the orders of its tenant

registryVars == <<repo, tenants, organizations, outlets, brands, assignments, stations,
                  devices, orders, tickets, consumed, reader>>

inMemory == repo = "memory"
OfTenant(table, id, t) == Exists(table, id) /\ table[id].tenant = t

\* A handler reads the clock before the transactions that commit first.
ClockReadings == {audits, IF audits = 0 THEN 0 ELSE audits - 1}
-----------------------------------------------------------------------------
(* The tenant's hierarchy *)

MemoryCreateOrganization(id, t) ==
  /\ inMemory /\ organizations[id] = None
  /\ organizations' = [organizations EXCEPT ![id] = [tenant |-> t]]
  /\ Audited

PostgresCreateOrganization(id, t) ==
  /\ ~inMemory /\ organizations[id] = None /\ t \in tenants
  /\ organizations' = [organizations EXCEPT ![id] = [tenant |-> t]]
  /\ Audited

\* A tenant has one organization, whose id is the tenant's.
handleCreateOrganization(t, id) ==
  /\ id = t
  /\ MemoryCreateOrganization(id, t) \/ PostgresCreateOrganization(id, t)
  /\ UNCHANGED <<repo, tenants, outlets, brands, assignments, stations, devices, orders, tickets, consumed, reader>>

MemoryCreateOutlet(o, v) ==
  /\ inMemory /\ outlets[o] = None
  /\ OfTenant(organizations, v.org, v.tenant)
  /\ outlets' = [outlets EXCEPT ![o] = v]
  /\ Audited

PostgresCreateOutlet(o, v) ==
  /\ ~inMemory /\ outlets[o] = None
  /\ OfTenant(organizations, v.org, v.tenant)
  /\ \A row \in Rows(outlets) : <<row.tenant, row.code>> # <<v.tenant, v.code>>
  /\ outlets' = [outlets EXCEPT ![o] = v]
  /\ Audited

handleCreateOutlet(t, o, org, code) ==
  LET v == [tenant |-> t, org |-> org, code |-> code] IN
  /\ MemoryCreateOutlet(o, v) \/ PostgresCreateOutlet(o, v)
  /\ UNCHANGED <<repo, tenants, organizations, brands, assignments, stations, devices, orders, tickets, consumed, reader>>

MemoryCreateBrand(b, v) ==
  /\ inMemory /\ brands[b] = None
  /\ OfTenant(organizations, v.org, v.tenant)
  /\ brands' = [brands EXCEPT ![b] = v]
  /\ Audited

PostgresCreateBrand(b, v) ==
  /\ ~inMemory /\ brands[b] = None
  /\ OfTenant(organizations, v.org, v.tenant)
  /\ \A row \in Rows(brands) : <<row.tenant, row.code>> # <<v.tenant, v.code>>
  /\ brands' = [brands EXCEPT ![b] = v]
  /\ Audited

handleCreateBrand(t, b, org, code) ==
  LET v == [tenant |-> t, org |-> org, code |-> code] IN
  /\ MemoryCreateBrand(b, v) \/ PostgresCreateBrand(b, v)
  /\ UNCHANGED <<repo, tenants, organizations, outlets, assignments, stations, devices, orders, tickets, consumed, reader>>

\* expected = 0 creates the assignment, any other value updates that version.
MemorySetBrandOutletAssignment(t, b, o, active, expected) ==
  LET row == assignments[<<b, o>>] IN
  /\ inMemory
  /\ OfTenant(brands, b, t) /\ OfTenant(outlets, o, t) /\ brands[b].org = outlets[o].org
  /\ IF row = None THEN expected = 0 ELSE expected # 0 /\ row.version = expected
  /\ assignments' = [assignments EXCEPT ![<<b, o>>] =
       [tenant |-> t, active |-> active, version |-> expected + 1]]
  /\ Audited

PostgresSetBrandOutletAssignment(t, b, o, active, expected) ==
  LET row == assignments[<<b, o>>] IN
  /\ ~inMemory
  /\ OfTenant(brands, b, t) /\ OfTenant(outlets, o, t)
  /\ IF expected = 0 THEN row = None ELSE row # None /\ row.version = expected
  /\ assignments' = [assignments EXCEPT ![<<b, o>>] =
       [tenant |-> t, active |-> active, version |-> expected + 1]]
  /\ Audited

handleSetBrandOutletAssignment(t, b, o, active, expected) ==
  /\ \/ MemorySetBrandOutletAssignment(t, b, o, active, expected)
     \/ PostgresSetBrandOutletAssignment(t, b, o, active, expected)
  /\ UNCHANGED <<repo, tenants, organizations, outlets, brands, stations, devices, orders, tickets, consumed, reader>>

MemoryCreateStation(s, v) ==
  /\ inMemory /\ stations[s] = None
  /\ OfTenant(outlets, v.outlet, v.tenant)
  /\ stations' = [stations EXCEPT ![s] = v]
  /\ Audited

PostgresCreateStation(s, v) ==
  /\ ~inMemory /\ stations[s] = None
  /\ OfTenant(outlets, v.outlet, v.tenant)
  /\ \A row \in Rows(stations) : <<row.outlet, row.code>> # <<v.outlet, v.code>>
  /\ stations' = [stations EXCEPT ![s] = v]
  /\ Audited

handleCreateStation(t, s, o, code) ==
  LET v == [tenant |-> t, outlet |-> o, code |-> code] IN
  /\ MemoryCreateStation(s, v) \/ PostgresCreateStation(s, v)
  /\ UNCHANGED <<repo, tenants, organizations, outlets, brands, assignments, devices, orders, tickets, consumed, reader>>

\* One template station stands for the template's stations.
provisionStations(t, o) == [tenant |-> t, outlet |-> o, code |-> "HOT"]

ProvisionRows(t, o, b, s) ==
  /\ organizations[t] = None /\ outlets[o] = None /\ brands[b] = None /\ stations[s] = None
  /\ organizations' = [organizations EXCEPT ![t] = [tenant |-> t]]
  /\ outlets' = [outlets EXCEPT ![o] = [tenant |-> t, org |-> t, code |-> "A"]]
  /\ brands' = [brands EXCEPT ![b] = [tenant |-> t, org |-> t, code |-> "A"]]
  /\ assignments' = [assignments EXCEPT ![<<b, o>>] = [tenant |-> t, active |-> TRUE, version |-> 1]]
  /\ stations' = [stations EXCEPT ![s] = provisionStations(t, o)]
  /\ Audited

MemoryProvisionTenant(t, o, b, s) ==
  inMemory /\ ProvisionRows(t, o, b, s) /\ UNCHANGED tenants

\* The tenant row is new: a seeded or provisioned tenant is refused.
PostgresProvisionTenant(t, o, b, s) ==
  /\ ~inMemory /\ t \notin tenants
  /\ tenants' = tenants \cup {t}
  /\ ProvisionRows(t, o, b, s)

handleProvisionTenant(t, o, b, s) ==
  /\ MemoryProvisionTenant(t, o, b, s) \/ PostgresProvisionTenant(t, o, b, s)
  /\ UNCHANGED <<repo, devices, orders, tickets, consumed, reader>>
-----------------------------------------------------------------------------
(* Orders and kitchen tickets *)

MemoryCreateOrder(id, v) ==
  /\ inMemory /\ orders[id] = None
  /\ OfTenant(outlets, v.outlet, v.tenant)
  /\ v.brand # None => OfTenant(brands, v.brand, v.tenant)
                       /\ brands[v.brand].org = outlets[v.outlet].org
  /\ v.source # None => \A row \in Rows(orders) : <<row.tenant, row.source>> # <<v.tenant, v.source>>
  /\ orders' = [orders EXCEPT ![id] = v]
  /\ Audited

PostgresCreateOrder(id, v) ==
  /\ ~inMemory /\ orders[id] = None
  /\ OfTenant(outlets, v.outlet, v.tenant)
  /\ v.brand # None => OfTenant(brands, v.brand, v.tenant)
  /\ v.source # None => \A row \in Rows(orders) : <<row.tenant, row.source>> # <<v.tenant, v.source>>
  /\ orders' = [orders EXCEPT ![id] = v]
  /\ Audited

handleCreateOrder(t, id, o, b, source, created) ==
  LET v == [tenant |-> t, outlet |-> o, brand |-> b, source |-> source, lines |-> Lines,
            status |-> "received", version |-> 1, created |-> created]
  IN
  /\ MemoryCreateOrder(id, v) \/ PostgresCreateOrder(id, v)
  /\ UNCHANGED <<repo, tenants, organizations, outlets, brands, assignments, stations, devices, tickets, consumed, reader>>

orderContainsLines(order, lines) == lines \subseteq order.lines

MemoryCreateKitchenTicket(id, v) ==
  /\ inMemory /\ tickets[id] = None
  /\ OfTenant(orders, v.order, v.tenant) /\ orders[v.order].outlet = v.outlet
  /\ OfTenant(stations, v.station, v.tenant) /\ stations[v.station].outlet = v.outlet
  /\ orderContainsLines(orders[v.order], v.lines)
  /\ tickets' = [tickets EXCEPT ![id] = v]
  /\ Audited

\* Faulty: the station is only looked up in the tenant.
PostgresCreateKitchenTicketAnyOutlet(id, v) ==
  /\ ~inMemory /\ tickets[id] = None
  /\ OfTenant(orders, v.order, v.tenant) /\ orders[v.order].outlet = v.outlet
  /\ OfTenant(stations, v.station, v.tenant)
  /\ v.lines \subseteq orders[v.order].lines
  /\ tickets' = [tickets EXCEPT ![id] = v]
  /\ Audited

\* Composite foreign keys tie order, station and lines to the ticket's outlet.
PostgresCreateKitchenTicket(id, v) ==
  /\ ~inMemory /\ tickets[id] = None
  /\ OfTenant(orders, v.order, v.tenant) /\ orders[v.order].outlet = v.outlet
  /\ OfTenant(stations, v.station, v.tenant) /\ stations[v.station].outlet = v.outlet
  /\ v.lines \subseteq orders[v.order].lines
  /\ tickets' = [tickets EXCEPT ![id] = v]
  /\ Audited

handleCreateKitchenTicket(t, id, o, order, s, lines) ==
  LET v == [tenant |-> t, outlet |-> o, order |-> order, station |-> s, lines |-> lines,
            status |-> "queued", version |-> 1]
  IN
  /\ lines # {}
  /\ MemoryCreateKitchenTicket(id, v) \/ PostgresCreateKitchenTicket(id, v)
  /\ UNCHANGED <<repo, tenants, organizations, outlets, brands, assignments, stations, devices, orders, consumed, reader>>

\* Core's status machines are the outlet's.
CanTransitionOrderStatus(from, to) == CanTransitionOrder(from, to)
CanTransitionTicketStatus(from, to) == CanTransitionTicket(from, to)

MemoryTransitionOrder(t, o, id, to, expected) ==
  /\ inMemory /\ OfTenant(orders, id, t) /\ orders[id].outlet = o
  /\ orders[id].version = expected /\ CanTransitionOrderStatus(orders[id].status, to)
  /\ orders' = [orders EXCEPT ![id].status = to, ![id].version = expected + 1]
  /\ Audited /\ UNCHANGED consumed

\* The row is locked; completing posts the consumption of the order's recipes.
PostgresTransitionOrder(t, o, id, to, expected) ==
  /\ ~inMemory /\ OfTenant(orders, id, t) /\ orders[id].outlet = o
  /\ orders[id].version = expected /\ CanTransitionOrderStatus(orders[id].status, to)
  /\ orders' = [orders EXCEPT ![id].status = to, ![id].version = expected + 1]
  /\ consumed' = IF to = "completed" THEN consumed \cup {id} ELSE consumed
  /\ Audited

handleTransitionOrder(t, o, id, to, expected) ==
  /\ MemoryTransitionOrder(t, o, id, to, expected) \/ PostgresTransitionOrder(t, o, id, to, expected)
  /\ UNCHANGED <<repo, tenants, organizations, outlets, brands, assignments, stations, devices, tickets, reader>>

MemoryTransitionKitchenTicket(t, o, id, to, expected) ==
  /\ inMemory /\ OfTenant(tickets, id, t) /\ tickets[id].outlet = o
  /\ tickets[id].version = expected /\ CanTransitionTicketStatus(tickets[id].status, to)
  /\ tickets' = [tickets EXCEPT ![id].status = to, ![id].version = expected + 1]
  /\ Audited

PostgresTransitionKitchenTicket(t, o, id, to, expected) ==
  /\ ~inMemory /\ OfTenant(tickets, id, t) /\ tickets[id].outlet = o
  /\ tickets[id].version = expected /\ CanTransitionTicketStatus(tickets[id].status, to)
  /\ tickets' = [tickets EXCEPT ![id].status = to, ![id].version = expected + 1]
  /\ Audited

handleTransitionKitchenTicket(t, o, id, to, expected) ==
  /\ \/ MemoryTransitionKitchenTicket(t, o, id, to, expected)
     \/ PostgresTransitionKitchenTicket(t, o, id, to, expected)
  /\ UNCHANGED <<repo, tenants, organizations, outlets, brands, assignments, stations, devices, orders, consumed, reader>>
-----------------------------------------------------------------------------
(* Edge devices, which only PostgreSQL keeps *)

RegisterDevice(d, v) ==
  /\ devices[d] = None /\ OfTenant(outlets, v.outlet, v.tenant)
  /\ \A row \in Rows(devices) : <<row.tenant, row.edge>> # <<v.tenant, v.edge>>
  /\ devices' = [devices EXCEPT ![d] = v]
  /\ Audited

handleRegisterDevice(t, d, o, edge) ==
  /\ ~inMemory
  /\ RegisterDevice(d, [tenant |-> t, outlet |-> o, edge |-> edge, status |-> "active"])
  /\ UNCHANGED <<repo, tenants, organizations, outlets, brands, assignments, stations, orders, tickets, consumed, reader>>

RevokeDevice(t, d) ==
  /\ OfTenant(devices, d, t) /\ devices[d].status = "active"
  /\ devices' = [devices EXCEPT ![d].status = "revoked"]
  /\ Audited

handleRevokeDevice(t, d) ==
  /\ ~inMemory /\ RevokeDevice(t, d)
  /\ UNCHANGED <<repo, tenants, organizations, outlets, brands, assignments, stations, orders, tickets, consumed, reader>>
-----------------------------------------------------------------------------
(* Paging through the orders of an outlet *)

Before(x, y) ==
  \/ orders[x].created < orders[y].created
  \/ orders[x].created = orders[y].created /\ x < y

\* The orders of the outlet, which ORDER BY created_at, id lists.
Orders(t, o) == {id \in OrderIds : OfTenant(orders, id, t) /\ orders[id].outlet = o}

\* How many of the rows come before one of them.
Place(rows, id) == Cardinality({x \in rows : Before(x, id)})

\* The first rows and the cursor of the next page; it points at the page's last row.
Page(rows, limit) ==
  [values |-> {id \in rows : Place(rows, id) < limit},
   next |-> IF Cardinality(rows) > limit THEN CHOOSE id \in rows : Place(rows, id) = limit - 1 ELSE None]

\* Faulty: the cursor points at the row that was fetched only to look ahead.
PageOrdersLooksAhead(t, o, after, limit) ==
  LET rest == {id \in Orders(t, o) : after = None \/ Before(after, id)}
  IN [values |-> {id \in rest : Place(rest, id) < limit},
      next |-> IF Cardinality(rest) > limit THEN CHOOSE id \in rest : Place(rest, id) = limit ELSE None]

\* PostgreSQL continues after the cursor's (created_at, id).
PageOrders(t, o, after, limit) ==
  Page({id \in Orders(t, o) : after = None \/ Before(after, id)}, limit)

\* Memory finds the cursor's row in the list again and continues behind it.
writePaginated(t, o, after, limit) ==
  LET read == IF after = None THEN {} ELSE {id \in Orders(t, o) : id = after \/ Before(id, after)}
  IN Page(Orders(t, o) \ read, limit)

\* A client reads the next page of an outlet, from the first one to the last.
handleOrders(t, o) ==
  /\ ~reader.finished
  /\ reader.outlet \in {None, o} /\ OfTenant(outlets, o, t)
  /\ inMemory => reader.after \in Orders(t, o) \cup {None}
  /\ LET page == IF inMemory THEN writePaginated(t, o, reader.after, PageLimit)
                 ELSE PageOrders(t, o, reader.after, PageLimit)
     IN reader' = [outlet |-> o, after |-> page.next, finished |-> page.next = None,
                   got |-> reader.got \cup page.values, again |-> reader.again \cup (reader.got \cap page.values),
                   base |-> IF reader.outlet = None THEN Orders(t, o) ELSE reader.base]
  /\ UNCHANGED <<repo, tenants, organizations, outlets, brands, assignments, stations, devices,
                 orders, tickets, consumed, audits>>
-----------------------------------------------------------------------------
RegistryInit ==
  /\ repo \in {"memory", "postgres"}
  /\ tenants = SeededTenants
  /\ organizations = [t \in Tenants |-> None]
  /\ outlets = [o \in Outlets |-> None]
  /\ brands = [b \in Brands |-> None]
  /\ assignments = [p \in Brands \X Outlets |-> None]
  /\ stations = [s \in Stations |-> None]
  /\ devices = [d \in Devices |-> None]
  /\ orders = [id \in OrderIds |-> None]
  /\ tickets = [id \in TicketIds |-> None]
  /\ consumed = {}
  /\ reader = [outlet |-> None, after |-> None, finished |-> FALSE, got |-> {}, again |-> {}, base |-> {}]

SetupNext ==
  \E t \in Tenants :
    \/ \E id \in Tenants : handleCreateOrganization(t, id)
    \/ \E o \in Outlets, org \in Tenants, code \in {"A", "B"} : handleCreateOutlet(t, o, org, code)
    \/ \E b \in Brands, org \in Tenants : handleCreateBrand(t, b, org, "A")
    \/ \E b \in Brands, o \in Outlets, active \in BOOLEAN, expected \in 0..MaxOps :
         handleSetBrandOutletAssignment(t, b, o, active, expected)
    \/ \E s \in Stations, o \in Outlets : handleCreateStation(t, s, o, "A")
    \/ \E d \in Devices, o \in Outlets : handleRegisterDevice(t, d, o, "edge")
    \/ \E d \in Devices : handleRevokeDevice(t, d)

ProvisionNext ==
  \E t \in Tenants, o \in Outlets, b \in Brands, s \in Stations : handleProvisionTenant(t, o, b, s)

ServiceNext ==
  \E t \in Tenants, o \in Outlets :
    \/ \E id \in OrderIds, b \in Brands \cup {None}, source \in Source,
          created \in ClockReadings : handleCreateOrder(t, id, o, b, source, created)
    \/ \E id \in TicketIds, order \in OrderIds, s \in Stations, lines \in SUBSET Lines :
         handleCreateKitchenTicket(t, id, o, order, s, lines)
    \/ \E id \in OrderIds, to \in OrderStatus, expected \in 1..MaxOps :
         handleTransitionOrder(t, o, id, to, expected)
    \/ \E id \in TicketIds, to \in TicketStatus, expected \in 1..MaxOps :
         handleTransitionKitchenTicket(t, o, id, to, expected)

PagingNext == \E t \in Tenants, o \in Outlets : handleOrders(t, o)

RegistryNext == SetupNext \/ ProvisionNext \/ ServiceNext \/ PagingNext
RegistrySpec == RegistryInit /\ audits = 0 /\ [][RegistryNext]_<<audits, registryVars>>
-----------------------------------------------------------------------------
(* Properties *)

\* Whichever repository keeps it, the registry is closed: whatever a row
\* names exists in the row's tenant, a ticket stays within its order and its
\* outlet, and an assignment never crosses organizations, which PostgreSQL
\* does not check (brand_outlet_assignments has no such constraint).
HierarchyClosed ==
  /\ \A v \in Rows(outlets) \cup Rows(brands) : OfTenant(organizations, v.org, v.tenant)
  /\ \A v \in Rows(stations) \cup Rows(devices) : OfTenant(outlets, v.outlet, v.tenant)
  /\ \A p \in DOMAIN assignments : assignments[p] # None =>
       /\ OfTenant(brands, p[1], assignments[p].tenant) /\ OfTenant(outlets, p[2], assignments[p].tenant)
       /\ brands[p[1]].org = outlets[p[2]].org
  /\ \A v \in Rows(orders) :
       /\ OfTenant(outlets, v.outlet, v.tenant)
       /\ v.brand # None => OfTenant(brands, v.brand, v.tenant) /\ brands[v.brand].org = outlets[v.outlet].org
  /\ \A v \in Rows(tickets) :
       /\ OfTenant(orders, v.order, v.tenant) /\ orders[v.order].outlet = v.outlet
       /\ OfTenant(stations, v.station, v.tenant) /\ stations[v.station].outlet = v.outlet
       /\ v.lines \subseteq orders[v.order].lines

\* A client that follows the cursors to the end has seen every order that
\* was there when it began, and none twice, although orders are created, with
\* older timestamps too, between its pages (PageOrders, writePaginated).
PagesComplete ==
  /\ reader.again = {}
  /\ reader.finished => reader.base \subseteq reader.got
=============================================================================
