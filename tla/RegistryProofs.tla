--------------------------- MODULE RegistryProofs ---------------------------
(***************************************************************************)
(* The registry is closed: whatever a row names exists in the row's        *)
(* tenant.  That no assignment and no order crosses organizations, which   *)
(* PostgreSQL does not check, rests on a tenant having one organization.   *)
(* And paging is complete: up to its cursor a reader has seen what was     *)
(* there when it began, since rows keep their place in the list (PageInv). *)
(***************************************************************************)
EXTENDS Registry, FiniteSetTheorems, FunctionTheorems, TLAPS

OutletFits(orgs, v) == v.org = v.tenant /\ Exists(orgs, v.org)
StationFits(outs, v) == OfTenant(outs, v.outlet, v.tenant)
AssignmentFits(brs, outs, p, v) == OfTenant(brs, p[1], v.tenant) /\ OfTenant(outs, p[2], v.tenant)
OrderFits(outs, brs, v) ==
  /\ OfTenant(outs, v.outlet, v.tenant)
  /\ v.brand # None => OfTenant(brs, v.brand, v.tenant)
TicketFits(ords, stats, v) ==
  /\ OfTenant(ords, v.order, v.tenant) /\ ords[v.order].outlet = v.outlet
  /\ OfTenant(stats, v.station, v.tenant) /\ stats[v.station].outlet = v.outlet
  /\ v.lines \subseteq ords[v.order].lines

RegistryTypes ==
  /\ organizations \in [Tenants -> OrganizationRow \cup {None}]
  /\ outlets \in [Outlets -> OutletRow \cup {None}]
  /\ brands \in [Brands -> BrandRow \cup {None}]
  /\ assignments \in [Brands \X Outlets -> AssignmentRow \cup {None}]
  /\ stations \in [Stations -> StationRow \cup {None}]
  /\ devices \in [Devices -> DeviceRow \cup {None}]
  /\ orders \in [OrderIds -> OrderRow \cup {None}]
  /\ tickets \in [TicketIds -> TicketRow \cup {None}]

\* A tenant's organization has the tenant's id.
OneOrganization == \A t \in Tenants : organizations[t] # None => organizations[t].tenant = t
OutletsFit == \A o \in Outlets : outlets[o] # None => OutletFits(organizations, outlets[o])
BrandsFit == \A b \in Brands : brands[b] # None => OutletFits(organizations, brands[b])
AssignmentsFit == \A p \in Brands \X Outlets : assignments[p] # None => AssignmentFits(brands, outlets, p, assignments[p])
StationsFit == \A s \in Stations : stations[s] # None => StationFits(outlets, stations[s])
DevicesFit == \A d \in Devices : devices[d] # None => StationFits(outlets, devices[d])
OrdersFit == \A id \in OrderIds : orders[id] # None => OrderFits(outlets, brands, orders[id])
TicketsFit == \A id \in TicketIds : tickets[id] # None => TicketFits(orders, stations, tickets[id])

RegistryInv ==
  /\ RegistryTypes /\ audits \in Nat
  /\ OneOrganization /\ OutletsFit /\ BrandsFit /\ AssignmentsFit /\ StationsFit /\ DevicesFit
  /\ OrdersFit /\ TicketsFit

\* The rows of T are rows of U.
Kept(T, U) == \A id \in DOMAIN T : T[id] # None => id \in DOMAIN U /\ U[id] = T[id]
\* An order moves from status to status; what else it says stays.
OrdersKept(T, U) ==
  \A id \in DOMAIN T : T[id] # None =>
    /\ id \in DOMAIN U /\ U[id] # None
    /\ U[id].tenant = T[id].tenant /\ U[id].outlet = T[id].outlet /\ U[id].brand = T[id].brand
    /\ U[id].lines = T[id].lines /\ U[id].created = T[id].created

\* A row that is kept still has the tenant it had.
LEMMA KeptReferences ==
  ASSUME NEW T, NEW U, Kept(T, U), NEW id, NEW t, OfTenant(T, id, t)
  PROVE  OfTenant(U, id, t) /\ U[id] = T[id]
BY DEF Kept, OfTenant, Exists

\* What fits still fits when rows are added.
LEMMA FitsLater ==
  ASSUME NEW orgs, NEW outs, NEW brs, NEW ords, NEW stats,
         NEW orgs1, NEW outs1, NEW brs1, NEW ords1, NEW stats1,
         Kept(orgs, orgs1), Kept(outs, outs1), Kept(brs, brs1), Kept(stats, stats1),
         OrdersKept(ords, ords1)
  PROVE  /\ \A v : OutletFits(orgs, v) => OutletFits(orgs1, v)
         /\ \A v : StationFits(outs, v) => StationFits(outs1, v)
         /\ \A p, v : AssignmentFits(brs, outs, p, v) => AssignmentFits(brs1, outs1, p, v)
         /\ \A v : OrderFits(outs, brs, v) => OrderFits(outs1, brs1, v)
         /\ \A v : TicketFits(ords, stats, v) => TicketFits(ords1, stats1, v)
<1>1. \A v : OutletFits(orgs, v) => OutletFits(orgs1, v)
  BY DEF OutletFits, Kept, Exists
<1>2. \A id, t : OfTenant(outs, id, t) => OfTenant(outs1, id, t)
  BY KeptReferences
<1>3. \A id, t : OfTenant(brs, id, t) => OfTenant(brs1, id, t)
  BY KeptReferences
<1>4. \A id, t : OfTenant(stats, id, t) => OfTenant(stats1, id, t) /\ stats1[id] = stats[id]
  BY KeptReferences
<1>5. \A id, t : OfTenant(ords, id, t) =>
        OfTenant(ords1, id, t) /\ ords1[id].outlet = ords[id].outlet /\ ords1[id].lines = ords[id].lines
  BY DEF OrdersKept, OfTenant, Exists
<1>6. \A v : TicketFits(ords, stats, v) => TicketFits(ords1, stats1, v)
  BY <1>4, <1>5 DEF TicketFits
<1> QED
  BY <1>1, <1>2, <1>3, <1>6 DEF StationFits, AssignmentFits, OrderFits

HierarchyKept ==
  /\ Kept(organizations, organizations') /\ Kept(outlets, outlets') /\ Kept(brands, brands')
  /\ Kept(stations, stations') /\ OrdersKept(orders, orders')

\* What every step of the registry does.
NewRowsFit ==
  /\ \A t \in Tenants : organizations'[t] \in {organizations[t], None} \/ organizations'[t].tenant = t
  /\ \A o \in Outlets : outlets'[o] \in {outlets[o], None} \/ OutletFits(organizations', outlets'[o])
  /\ \A b \in Brands : brands'[b] \in {brands[b], None} \/ OutletFits(organizations', brands'[b])
  /\ \A p \in Brands \X Outlets : assignments'[p] \in {assignments[p], None} \/ AssignmentFits(brands', outlets', p, assignments'[p])
  /\ \A s \in Stations : stations'[s] \in {stations[s], None} \/ StationFits(outlets', stations'[s])
  /\ \A d \in Devices : devices'[d] \in {devices[d], None} \/ StationFits(outlets', devices'[d])
  /\ \A id \in OrderIds : orders'[id] \in {orders[id], None} \/ OrderFits(outlets', brands', orders'[id])
  /\ \A id \in TicketIds : tickets'[id] \in {tickets[id], None} \/ TicketFits(orders', stations', tickets'[id])

\* Rows are added one at a time, and the rows before keep what they refer to.
LEMMA RegistryGrows ==
  ASSUME RegistryInv, RegistryTypes', audits' \in Nat, HierarchyKept, NewRowsFit
  PROVE  RegistryInv'
<1>1. /\ \A v : OutletFits(organizations, v) => OutletFits(organizations', v)
      /\ \A v : StationFits(outlets, v) => StationFits(outlets', v)
      /\ \A p, v : AssignmentFits(brands, outlets, p, v) => AssignmentFits(brands', outlets', p, v)
      /\ \A v : OrderFits(outlets, brands, v) => OrderFits(outlets', brands', v)
      /\ \A v : TicketFits(orders, stations, v) => TicketFits(orders', stations', v)
  BY FitsLater DEF HierarchyKept
<1>2. OneOrganization'
  BY DEF RegistryInv, OneOrganization, NewRowsFit
<1>3. OutletsFit' /\ BrandsFit'
  BY <1>1 DEF RegistryInv, OutletsFit, BrandsFit, NewRowsFit
<1>4. AssignmentsFit'
  BY <1>1 DEF RegistryInv, AssignmentsFit, NewRowsFit
<1>5. StationsFit' /\ DevicesFit'
  BY <1>1 DEF RegistryInv, StationsFit, DevicesFit, NewRowsFit
<1>6. OrdersFit'
  BY <1>1 DEF RegistryInv, OrdersFit, NewRowsFit
<1>7. TicketsFit'
  BY <1>1 DEF RegistryInv, TicketsFit, NewRowsFit
<1> QED
  BY <1>2, <1>3, <1>4, <1>5, <1>6, <1>7 DEF RegistryInv

\* Unchanged tables.
LEMMA SameRows ==
  /\ \A T : Kept(T, T) /\ OrdersKept(T, T)
  /\ \A T, U : U = T => Kept(T, U) /\ OrdersKept(T, U)
BY DEF Kept, OrdersKept

\* A new organization has its tenant's id.
LEMMA OrganizationKeeps ==
  ASSUME RegistryInv, NEW t \in Tenants, NEW id \in Tenants, handleCreateOrganization(t, id)
  PROVE  RegistryInv' /\ HierarchyKept
<1> PICK v : v = [tenant |-> t]
  OBVIOUS
<1>1. /\ id = t /\ organizations[t] = None /\ organizations' = [organizations EXCEPT ![t] = v]
      /\ audits' = audits + 1
      /\ UNCHANGED <<outlets, brands, assignments, stations, devices, orders, tickets>>
  BY DEF handleCreateOrganization, MemoryCreateOrganization, PostgresCreateOrganization, Audited
<1>2. v \in OrganizationRow
  BY DEF OrganizationRow
<1>3. RegistryTypes /\ organizations \in [Tenants -> OrganizationRow \cup {None}]
  BY DEF RegistryInv, RegistryTypes
<1>4. /\ organizations' \in [Tenants -> OrganizationRow \cup {None}] /\ Kept(organizations, organizations')
      /\ organizations'[t] = v /\ \A j \in Tenants : j # t => organizations'[j] = organizations[j]
  BY <1>1, <1>2, <1>3 DEF Kept
<1>5. RegistryTypes' /\ audits' \in Nat
  BY <1>1, <1>3, <1>4 DEF RegistryTypes, RegistryInv
<1>6. HierarchyKept
  BY <1>1, <1>4, SameRows DEF HierarchyKept
<1>7. NewRowsFit
  BY <1>1, <1>4 DEF NewRowsFit
<1> QED
  BY <1>5, <1>6, <1>7, RegistryGrows

\* The organization an outlet or a brand names is the tenant's own.
LEMMA OwnOrganization ==
  ASSUME RegistryInv, NEW v \in OutletRow, OfTenant(organizations, v.org, v.tenant)
  PROVE  OutletFits(organizations, v)
<1>1. v.org \in Tenants /\ organizations[v.org] # None /\ organizations[v.org].tenant = v.tenant
  BY DEF RegistryInv, RegistryTypes, OfTenant, Exists
<1>2. organizations[v.org].tenant = v.org
  BY <1>1 DEF RegistryInv, OneOrganization
<1> QED
  BY <1>1, <1>2 DEF OutletFits, OfTenant

\* A new outlet belongs to the tenant's organization.
LEMMA OutletKeeps ==
  ASSUME RegistryInv, NEW t \in Tenants, NEW o \in Outlets, NEW org \in Tenants, NEW code \in Code,
         handleCreateOutlet(t, o, org, code)
  PROVE  RegistryInv' /\ HierarchyKept
<1> PICK v : v = [tenant |-> t, org |-> org, code |-> code]
  OBVIOUS
<1>1. /\ outlets[o] = None /\ outlets' = [outlets EXCEPT ![o] = v]
      /\ OfTenant(organizations, v.org, v.tenant) /\ audits' = audits + 1
      /\ UNCHANGED <<organizations, brands, assignments, stations, devices, orders, tickets>>
  BY DEF handleCreateOutlet, MemoryCreateOutlet, PostgresCreateOutlet, Audited
<1>2. v \in OutletRow
  BY DEF OutletRow
<1>3. RegistryTypes /\ outlets \in [Outlets -> OutletRow \cup {None}]
  BY DEF RegistryInv, RegistryTypes
<1>4. /\ outlets' \in [Outlets -> OutletRow \cup {None}] /\ Kept(outlets, outlets')
      /\ outlets'[o] = v /\ \A j \in Outlets : j # o => outlets'[j] = outlets[j]
  BY <1>1, <1>2, <1>3 DEF Kept
<1>5. RegistryTypes' /\ audits' \in Nat
  BY <1>1, <1>3, <1>4 DEF RegistryTypes, RegistryInv
<1>6. HierarchyKept
  BY <1>1, <1>4, SameRows DEF HierarchyKept
<1>7. OutletFits(organizations', v)
  BY <1>1, <1>2, OwnOrganization
<1>8. NewRowsFit
  BY <1>1, <1>4, <1>7 DEF NewRowsFit
<1> QED
  BY <1>5, <1>6, <1>8, RegistryGrows

\* A new brand belongs to the tenant's organization.
LEMMA BrandKeeps ==
  ASSUME RegistryInv, NEW t \in Tenants, NEW b \in Brands, NEW org \in Tenants, NEW code \in Code,
         handleCreateBrand(t, b, org, code)
  PROVE  RegistryInv' /\ HierarchyKept
<1> PICK v : v = [tenant |-> t, org |-> org, code |-> code]
  OBVIOUS
<1>1. /\ brands[b] = None /\ brands' = [brands EXCEPT ![b] = v]
      /\ OfTenant(organizations, v.org, v.tenant) /\ audits' = audits + 1
      /\ UNCHANGED <<organizations, outlets, assignments, stations, devices, orders, tickets>>
  BY DEF handleCreateBrand, MemoryCreateBrand, PostgresCreateBrand, Audited
<1>2. v \in OutletRow
  BY DEF OutletRow
<1>3. RegistryTypes /\ brands \in [Brands -> OutletRow \cup {None}]
  BY DEF RegistryInv, RegistryTypes, BrandRow
<1>4. /\ brands' \in [Brands -> BrandRow \cup {None}] /\ Kept(brands, brands')
      /\ brands'[b] = v /\ \A j \in Brands : j # b => brands'[j] = brands[j]
  BY <1>1, <1>2, <1>3 DEF BrandRow, Kept
<1>5. RegistryTypes' /\ audits' \in Nat
  BY <1>1, <1>3, <1>4 DEF RegistryTypes, RegistryInv
<1>6. HierarchyKept
  BY <1>1, <1>4, SameRows DEF HierarchyKept
<1>7. OutletFits(organizations', v)
  BY <1>1, <1>2, OwnOrganization
<1>8. NewRowsFit
  BY <1>1, <1>4, <1>7 DEF NewRowsFit
<1> QED
  BY <1>5, <1>6, <1>8, RegistryGrows

\* Brand and outlet of an assignment have the same tenant, hence the same organization.
LEMMA AssignmentKeeps ==
  ASSUME RegistryInv, NEW t \in Tenants, NEW b \in Brands, NEW o \in Outlets, NEW active \in BOOLEAN,
         NEW expected \in Nat, handleSetBrandOutletAssignment(t, b, o, active, expected)
  PROVE  RegistryInv' /\ HierarchyKept
<1> PICK v : v = [tenant |-> t, active |-> active, version |-> expected + 1]
  OBVIOUS
<1> PICK p : p = <<b, o>>
  OBVIOUS
<1>1. /\ OfTenant(brands, b, t) /\ OfTenant(outlets, o, t)
      /\ assignments' = [assignments EXCEPT ![p] = v] /\ audits' = audits + 1
      /\ UNCHANGED <<organizations, outlets, brands, stations, devices, orders, tickets>>
  BY DEF handleSetBrandOutletAssignment, MemorySetBrandOutletAssignment, PostgresSetBrandOutletAssignment, Audited
<1>2. v \in AssignmentRow /\ v.tenant = t /\ p \in Brands \X Outlets /\ p[1] = b /\ p[2] = o
  BY DEF AssignmentRow
<1>3. RegistryTypes /\ assignments \in [Brands \X Outlets -> AssignmentRow \cup {None}]
  BY DEF RegistryInv, RegistryTypes
<1>4. /\ assignments' \in [Brands \X Outlets -> AssignmentRow \cup {None}]
      /\ assignments'[p] = v /\ \A q \in Brands \X Outlets : q # p => assignments'[q] = assignments[q]
  BY <1>1, <1>2, <1>3
<1>5. RegistryTypes' /\ audits' \in Nat
  BY <1>1, <1>3, <1>4 DEF RegistryTypes, RegistryInv
<1>6. HierarchyKept
  BY <1>1, SameRows DEF HierarchyKept
<1>7. AssignmentFits(brands', outlets', p, v)
  BY <1>1, <1>2 DEF AssignmentFits
<1>8. NewRowsFit
  BY <1>1, <1>4, <1>7 DEF NewRowsFit
<1> QED
  BY <1>5, <1>6, <1>8, RegistryGrows

\* A station is at an outlet of its tenant.
LEMMA StationKeeps ==
  ASSUME RegistryInv, NEW t \in Tenants, NEW s \in Stations, NEW o \in Outlets, NEW code \in Code,
         handleCreateStation(t, s, o, code)
  PROVE  RegistryInv' /\ HierarchyKept
<1> PICK v : v = [tenant |-> t, outlet |-> o, code |-> code]
  OBVIOUS
<1>1. /\ stations[s] = None /\ stations' = [stations EXCEPT ![s] = v]
      /\ OfTenant(outlets, v.outlet, v.tenant) /\ audits' = audits + 1
      /\ UNCHANGED <<organizations, outlets, brands, assignments, devices, orders, tickets>>
  BY DEF handleCreateStation, MemoryCreateStation, PostgresCreateStation, Audited
<1>2. v \in StationRow
  BY DEF StationRow
<1>3. RegistryTypes /\ stations \in [Stations -> StationRow \cup {None}]
  BY DEF RegistryInv, RegistryTypes
<1>4. /\ stations' \in [Stations -> StationRow \cup {None}] /\ Kept(stations, stations')
      /\ stations'[s] = v /\ \A j \in Stations : j # s => stations'[j] = stations[j]
  BY <1>1, <1>2, <1>3 DEF Kept
<1>5. RegistryTypes' /\ audits' \in Nat
  BY <1>1, <1>3, <1>4 DEF RegistryTypes, RegistryInv
<1>6. HierarchyKept
  BY <1>1, <1>4, SameRows DEF HierarchyKept
<1>7. StationFits(outlets', v)
  BY <1>1 DEF StationFits
<1>8. NewRowsFit
  BY <1>1, <1>4, <1>7 DEF NewRowsFit
<1> QED
  BY <1>5, <1>6, <1>8, RegistryGrows

\* A device is enrolled at an outlet of its tenant.
LEMMA RegisterKeeps ==
  ASSUME RegistryInv, NEW t \in Tenants, NEW d \in Devices, NEW o \in Outlets, NEW edge \in Edge,
         handleRegisterDevice(t, d, o, edge)
  PROVE  RegistryInv' /\ HierarchyKept
<1> PICK v : v = [tenant |-> t, outlet |-> o, edge |-> edge, status |-> "active"]
  OBVIOUS
<1>1. /\ devices[d] = None /\ devices' = [devices EXCEPT ![d] = v]
      /\ OfTenant(outlets, v.outlet, v.tenant) /\ audits' = audits + 1
      /\ UNCHANGED <<organizations, outlets, brands, assignments, stations, orders, tickets>>
  BY DEF handleRegisterDevice, RegisterDevice, Audited
<1>2. v \in DeviceRow
  BY DEF DeviceRow
<1>3. RegistryTypes /\ devices \in [Devices -> DeviceRow \cup {None}]
  BY DEF RegistryInv, RegistryTypes
<1>4. /\ devices' \in [Devices -> DeviceRow \cup {None}]
      /\ devices'[d] = v /\ \A j \in Devices : j # d => devices'[j] = devices[j]
  BY <1>1, <1>2, <1>3
<1>5. RegistryTypes' /\ audits' \in Nat
  BY <1>1, <1>3, <1>4 DEF RegistryTypes, RegistryInv
<1>6. HierarchyKept
  BY <1>1, SameRows DEF HierarchyKept
<1>7. StationFits(outlets', v)
  BY <1>1 DEF StationFits
<1>8. NewRowsFit
  BY <1>1, <1>4, <1>7 DEF NewRowsFit
<1> QED
  BY <1>5, <1>6, <1>8, RegistryGrows

\* A revoked device stays where it is.
LEMMA RevokeKeeps ==
  ASSUME RegistryInv, NEW t \in Tenants, NEW d \in Devices, handleRevokeDevice(t, d)
  PROVE  RegistryInv' /\ HierarchyKept
<1>1. RegistryTypes /\ devices \in [Devices -> DeviceRow \cup {None}]
  BY DEF RegistryInv, RegistryTypes
<1>2. /\ devices[d] # None /\ devices' = [devices EXCEPT ![d] = [devices[d] EXCEPT !.status = "revoked"]]
      /\ audits' = audits + 1
      /\ UNCHANGED <<organizations, outlets, brands, assignments, stations, orders, tickets>>
  BY <1>1 DEF handleRevokeDevice, RevokeDevice, OfTenant, Exists, Audited
<1> PICK x \in DeviceRow : x = devices[d]
  BY <1>1, <1>2
<1> PICK v : v = [x EXCEPT !.status = "revoked"]
  OBVIOUS
<1>3. v \in DeviceRow /\ v.tenant = x.tenant /\ v.outlet = x.outlet
  BY DEF DeviceRow
<1>4. /\ devices' \in [Devices -> DeviceRow \cup {None}]
      /\ devices'[d] = v /\ \A j \in Devices : j # d => devices'[j] = devices[j]
  BY <1>1, <1>2, <1>3
<1>5. RegistryTypes' /\ audits' \in Nat
  BY <1>1, <1>2, <1>4 DEF RegistryTypes, RegistryInv
<1>6. HierarchyKept
  BY <1>2, SameRows DEF HierarchyKept
<1>7. StationFits(outlets', v)
  BY <1>2, <1>3 DEF StationFits, RegistryInv, DevicesFit
<1>8. NewRowsFit
  BY <1>2, <1>4, <1>7 DEF NewRowsFit
<1> QED
  BY <1>5, <1>6, <1>8, RegistryGrows

\* A new tenant is set up in one transaction.
LEMMA ProvisionKeeps ==
  ASSUME RegistryInv, NEW t \in Tenants, NEW o \in Outlets, NEW b \in Brands, NEW s \in Stations,
         handleProvisionTenant(t, o, b, s)
  PROVE  RegistryInv' /\ HierarchyKept
<1> PICK org : org = [tenant |-> t]
  OBVIOUS
<1> PICK v : v = [tenant |-> t, org |-> t, code |-> "A"]
  OBVIOUS
<1> PICK a : a = [tenant |-> t, active |-> TRUE, version |-> 1]
  OBVIOUS
<1> PICK p : p = <<b, o>>
  OBVIOUS
<1> PICK x : x = [tenant |-> t, outlet |-> o, code |-> "HOT"]
  OBVIOUS
<1>1. /\ organizations[t] = None /\ outlets[o] = None /\ brands[b] = None /\ stations[s] = None
      /\ organizations' = [organizations EXCEPT ![t] = org]
      /\ outlets' = [outlets EXCEPT ![o] = v] /\ brands' = [brands EXCEPT ![b] = v]
      /\ assignments' = [assignments EXCEPT ![p] = a]
      /\ stations' = [stations EXCEPT ![s] = x]
      /\ audits' = audits + 1 /\ UNCHANGED <<devices, orders, tickets>>
  BY DEF handleProvisionTenant, MemoryProvisionTenant, PostgresProvisionTenant, ProvisionRows,
         provisionStations, Audited
<1>2. /\ org \in OrganizationRow /\ v \in OutletRow /\ a \in AssignmentRow /\ x \in StationRow
      /\ org.tenant = t /\ v.tenant = t /\ v.org = t /\ a.tenant = t /\ x.tenant = t /\ x.outlet = o
      /\ p \in Brands \X Outlets /\ p[1] = b /\ p[2] = o
  <2>1. org \in OrganizationRow /\ org.tenant = t
    BY DEF OrganizationRow
  <2>2. v \in OutletRow /\ v.tenant = t /\ v.org = t
    BY DEF OutletRow, Code
  <2>3. a \in AssignmentRow /\ a.tenant = t
    BY DEF AssignmentRow
  <2>4. x \in StationRow /\ x.tenant = t /\ x.outlet = o
    BY DEF StationRow, Code
  <2>5. p \in Brands \X Outlets /\ p[1] = b /\ p[2] = o
    OBVIOUS
  <2> QED
    BY <2>1, <2>2, <2>3, <2>4, <2>5
<1>3. /\ RegistryTypes /\ organizations \in [Tenants -> OrganizationRow \cup {None}]
      /\ outlets \in [Outlets -> OutletRow \cup {None}] /\ brands \in [Brands -> OutletRow \cup {None}]
      /\ assignments \in [Brands \X Outlets -> AssignmentRow \cup {None}]
      /\ stations \in [Stations -> StationRow \cup {None}]
  BY DEF RegistryInv, RegistryTypes, BrandRow
<1>4. /\ organizations' \in [Tenants -> OrganizationRow \cup {None}] /\ Kept(organizations, organizations')
      /\ organizations'[t] = org /\ \A j \in Tenants : j # t => organizations'[j] = organizations[j]
  BY <1>1, <1>2, <1>3 DEF Kept
<1>5. /\ outlets' \in [Outlets -> OutletRow \cup {None}] /\ Kept(outlets, outlets')
      /\ outlets'[o] = v /\ \A j \in Outlets : j # o => outlets'[j] = outlets[j]
  BY <1>1, <1>2, <1>3 DEF Kept
<1>6. /\ brands' \in [Brands -> BrandRow \cup {None}] /\ Kept(brands, brands')
      /\ brands'[b] = v /\ \A j \in Brands : j # b => brands'[j] = brands[j]
  BY <1>1, <1>2, <1>3 DEF Kept, BrandRow
<1>7. /\ assignments' \in [Brands \X Outlets -> AssignmentRow \cup {None}]
      /\ assignments'[p] = a /\ \A q \in Brands \X Outlets : q # p => assignments'[q] = assignments[q]
  BY <1>1, <1>2, <1>3
<1>8. /\ stations' \in [Stations -> StationRow \cup {None}] /\ Kept(stations, stations')
      /\ stations'[s] = x /\ \A j \in Stations : j # s => stations'[j] = stations[j]
  BY <1>1, <1>2, <1>3 DEF Kept
<1>9. RegistryTypes' /\ audits' \in Nat
  BY <1>1, <1>3, <1>4, <1>5, <1>6, <1>7, <1>8 DEF RegistryTypes, RegistryInv
<1>10. HierarchyKept
  BY <1>1, <1>4, <1>5, <1>6, <1>8, SameRows DEF HierarchyKept
<1>11. org # None /\ v # None /\ organizations' \in [Tenants -> OrganizationRow \cup {None}]
       /\ outlets' \in [Outlets -> OutletRow \cup {None}] /\ brands' \in [Brands -> OutletRow \cup {None}]
  BY <1>2, <1>4, <1>5, <1>6, RegistryAssumption DEF BrandRow
<1>12. /\ OutletFits(organizations', v) /\ AssignmentFits(brands', outlets', p, a)
       /\ StationFits(outlets', x)
  BY <1>2, <1>4, <1>5, <1>6, <1>11 DEF OutletFits, AssignmentFits, StationFits, OfTenant, Exists
<1>13. NewRowsFit
  <2>1. \A j \in Tenants : organizations'[j] \in {organizations[j], None} \/ organizations'[j].tenant = j
    BY <1>2, <1>4
  <2>2. \A j \in Outlets : outlets'[j] \in {outlets[j], None} \/ OutletFits(organizations', outlets'[j])
    BY <1>5, <1>12
  <2>3. \A j \in Brands : brands'[j] \in {brands[j], None} \/ OutletFits(organizations', brands'[j])
    BY <1>6, <1>12
  <2>4. \A q \in Brands \X Outlets :
          assignments'[q] \in {assignments[q], None} \/ AssignmentFits(brands', outlets', q, assignments'[q])
    BY <1>7, <1>12
  <2>5. \A j \in Stations : stations'[j] \in {stations[j], None} \/ StationFits(outlets', stations'[j])
    BY <1>8, <1>12
  <2>6. devices' = devices /\ orders' = orders /\ tickets' = tickets
    BY <1>1
  <2> QED
    BY <2>1, <2>2, <2>3, <2>4, <2>5, <2>6 DEF NewRowsFit
<1> QED
  BY <1>9, <1>10, <1>13, RegistryGrows

\* An order names an outlet and a brand of its tenant.
LEMMA OrderKeeps ==
  ASSUME RegistryInv, NEW t \in Tenants, NEW id \in OrderIds, NEW o \in Outlets, NEW b \in Brands \cup {None},
         NEW source \in Source, NEW created \in Nat, handleCreateOrder(t, id, o, b, source, created)
  PROVE  RegistryInv' /\ HierarchyKept
<1> PICK v : v = [tenant |-> t, outlet |-> o, brand |-> b, source |-> source, lines |-> Lines,
                  status |-> "received", version |-> 1, created |-> created]
  OBVIOUS
<1>1. /\ orders[id] = None /\ orders' = [orders EXCEPT ![id] = v] /\ audits' = audits + 1
      /\ OfTenant(outlets, v.outlet, v.tenant)
      /\ v.brand # None => OfTenant(brands, v.brand, v.tenant)
      /\ UNCHANGED <<organizations, outlets, brands, assignments, stations, devices, tickets>>
  BY DEF handleCreateOrder, MemoryCreateOrder, PostgresCreateOrder, Audited
<1>2. v \in OrderRow
  BY DEF OrderRow, OrderStatus
<1>3. RegistryTypes /\ orders \in [OrderIds -> OrderRow \cup {None}]
  BY DEF RegistryInv, RegistryTypes
<1>4. /\ orders' \in [OrderIds -> OrderRow \cup {None}] /\ OrdersKept(orders, orders')
      /\ orders'[id] = v /\ \A j \in OrderIds : j # id => orders'[j] = orders[j]
  BY <1>1, <1>2, <1>3 DEF OrdersKept
<1>5. RegistryTypes' /\ audits' \in Nat
  BY <1>1, <1>3, <1>4 DEF RegistryTypes, RegistryInv
<1>6. HierarchyKept
  BY <1>1, <1>4, SameRows DEF HierarchyKept
<1>7. OrderFits(outlets', brands', v)
  BY <1>1 DEF OrderFits
<1>8. NewRowsFit
  BY <1>1, <1>4, <1>7 DEF NewRowsFit
<1> QED
  BY <1>5, <1>6, <1>8, RegistryGrows

\* A ticket is at the outlet of its order and of its station.
LEMMA TicketKeeps ==
  ASSUME RegistryInv, NEW t \in Tenants, NEW id \in TicketIds, NEW o \in Outlets, NEW order \in OrderIds,
         NEW s \in Stations, NEW lines \in SUBSET Lines, handleCreateKitchenTicket(t, id, o, order, s, lines)
  PROVE  RegistryInv' /\ HierarchyKept
<1> PICK v : v = [tenant |-> t, outlet |-> o, order |-> order, station |-> s, lines |-> lines,
                  status |-> "queued", version |-> 1]
  OBVIOUS
<1>1. /\ tickets[id] = None /\ tickets' = [tickets EXCEPT ![id] = v] /\ audits' = audits + 1
      /\ OfTenant(orders, v.order, v.tenant) /\ orders[v.order].outlet = v.outlet
      /\ OfTenant(stations, v.station, v.tenant) /\ stations[v.station].outlet = v.outlet
      /\ v.lines \subseteq orders[v.order].lines
      /\ UNCHANGED <<organizations, outlets, brands, assignments, stations, devices, orders>>
  BY DEF handleCreateKitchenTicket, MemoryCreateKitchenTicket, PostgresCreateKitchenTicket, orderContainsLines, Audited
<1>2. v \in TicketRow
  BY DEF TicketRow, TicketStatus
<1>3. RegistryTypes /\ tickets \in [TicketIds -> TicketRow \cup {None}]
  BY DEF RegistryInv, RegistryTypes
<1>4. /\ tickets' \in [TicketIds -> TicketRow \cup {None}]
      /\ tickets'[id] = v /\ \A j \in TicketIds : j # id => tickets'[j] = tickets[j]
  BY <1>1, <1>2, <1>3
<1>5. RegistryTypes' /\ audits' \in Nat
  BY <1>1, <1>3, <1>4 DEF RegistryTypes, RegistryInv
<1>6. HierarchyKept
  BY <1>1, SameRows DEF HierarchyKept
<1>7. TicketFits(orders', stations', v)
  BY <1>1 DEF TicketFits
<1>8. NewRowsFit
  BY <1>1, <1>4, <1>7 DEF NewRowsFit
<1> QED
  BY <1>5, <1>6, <1>8, RegistryGrows

\* An order that moves on keeps its references.
LEMMA OrderMoveKeeps ==
  ASSUME RegistryInv, NEW t \in Tenants, NEW o \in Outlets, NEW id \in OrderIds, NEW to \in OrderStatus,
         NEW expected \in Nat, handleTransitionOrder(t, o, id, to, expected)
  PROVE  RegistryInv' /\ HierarchyKept
<1>1. RegistryTypes /\ orders \in [OrderIds -> OrderRow \cup {None}]
  BY DEF RegistryInv, RegistryTypes
<1>2. /\ orders[id] # None /\ orders' = [orders EXCEPT ![id].status = to, ![id].version = expected + 1]
      /\ audits' = audits + 1
      /\ UNCHANGED <<organizations, outlets, brands, assignments, stations, devices, tickets>>
  BY <1>1 DEF handleTransitionOrder, MemoryTransitionOrder, PostgresTransitionOrder, OfTenant, Exists, Audited
<1> PICK x \in OrderRow : x = orders[id]
  BY <1>1, <1>2
<1>3. PICK y : /\ y = [x EXCEPT !.status = to] /\ y \in OrderRow
               /\ y.tenant = x.tenant /\ y.outlet = x.outlet /\ y.brand = x.brand /\ y.lines = x.lines
               /\ y.created = x.created
  <2>1. [x EXCEPT !.status = to] \in OrderRow
    BY DEF OrderRow
  <2>2. /\ [x EXCEPT !.status = to].tenant = x.tenant
        /\ [x EXCEPT !.status = to].outlet = x.outlet
        /\ [x EXCEPT !.status = to].brand = x.brand
        /\ [x EXCEPT !.status = to].lines = x.lines
        /\ [x EXCEPT !.status = to].created = x.created
    BY DEF OrderRow
  <2> QED
    BY <2>1, <2>2
<1>4. PICK v : v = [y EXCEPT !.version = expected + 1]
  OBVIOUS
<1>5. /\ v \in OrderRow /\ v.tenant = x.tenant /\ v.outlet = x.outlet /\ v.brand = x.brand
      /\ v.lines = x.lines /\ v.created = x.created
  <2>1. /\ y \in OrderRow /\ y.tenant = x.tenant /\ y.outlet = x.outlet /\ y.brand = x.brand
        /\ y.lines = x.lines /\ y.created = x.created
    BY <1>3
  <2>2. /\ v \in OrderRow /\ v.tenant = y.tenant /\ v.outlet = y.outlet /\ v.brand = y.brand
        /\ v.lines = y.lines /\ v.created = y.created
    BY <1>4, <2>1 DEF OrderRow
  <2> QED
    BY <2>1, <2>2
<1>6. /\ orders' \in [OrderIds -> OrderRow \cup {None}]
      /\ orders'[id] = v /\ \A j \in OrderIds : j # id => orders'[j] = orders[j]
  <2>1. orders' = [orders EXCEPT ![id] = v]
    BY <1>1, <1>2, <1>3, <1>4
  <2> QED
    BY <1>1, <1>5, <2>1
<1>7. OrdersKept(orders, orders')
  <2>1. v # None
    BY <1>5, RegistryAssumption
  <2> QED
    BY <1>1, <1>5, <1>6, <2>1 DEF OrdersKept
<1>8. RegistryTypes' /\ audits' \in Nat
  BY <1>1, <1>2, <1>6 DEF RegistryTypes, RegistryInv
<1>9. HierarchyKept
  BY <1>2, <1>7, SameRows DEF HierarchyKept
<1>10. OrderFits(outlets', brands', v)
  <2>1. OrderFits(outlets, brands, x)
    BY <1>2 DEF RegistryInv, OrdersFit
  <2> QED
    BY <1>2, <1>5, <2>1 DEF OrderFits
<1>11. NewRowsFit
  BY <1>2, <1>6, <1>10 DEF NewRowsFit
<1> QED
  BY <1>8, <1>9, <1>11, RegistryGrows

\* A ticket that moves on keeps its references.
LEMMA TicketMoveKeeps ==
  ASSUME RegistryInv, NEW t \in Tenants, NEW o \in Outlets, NEW id \in TicketIds, NEW to \in TicketStatus,
         NEW expected \in Nat, handleTransitionKitchenTicket(t, o, id, to, expected)
  PROVE  RegistryInv' /\ HierarchyKept
<1>1. RegistryTypes /\ tickets \in [TicketIds -> TicketRow \cup {None}]
  BY DEF RegistryInv, RegistryTypes
<1>2. /\ tickets[id] # None /\ tickets' = [tickets EXCEPT ![id].status = to, ![id].version = expected + 1]
      /\ audits' = audits + 1
      /\ UNCHANGED <<organizations, outlets, brands, assignments, stations, devices, orders>>
  BY <1>1 DEF handleTransitionKitchenTicket, MemoryTransitionKitchenTicket, PostgresTransitionKitchenTicket,
              OfTenant, Exists, Audited
<1> PICK x \in TicketRow : x = tickets[id]
  BY <1>1, <1>2
<1>3. PICK y : /\ y = [x EXCEPT !.status = to] /\ y \in TicketRow
               /\ y.tenant = x.tenant /\ y.outlet = x.outlet /\ y.order = x.order
               /\ y.station = x.station /\ y.lines = x.lines
  <2>1. [x EXCEPT !.status = to] \in TicketRow
    BY DEF TicketRow
  <2>2. /\ [x EXCEPT !.status = to].tenant = x.tenant
        /\ [x EXCEPT !.status = to].outlet = x.outlet
        /\ [x EXCEPT !.status = to].order = x.order
        /\ [x EXCEPT !.status = to].station = x.station
        /\ [x EXCEPT !.status = to].lines = x.lines
    BY DEF TicketRow
  <2> QED
    BY <2>1, <2>2
<1>4. PICK v : v = [y EXCEPT !.version = expected + 1]
  OBVIOUS
<1>5. /\ v \in TicketRow /\ v.tenant = x.tenant /\ v.outlet = x.outlet /\ v.order = x.order
      /\ v.station = x.station /\ v.lines = x.lines
  <2>1. /\ y \in TicketRow /\ y.tenant = x.tenant /\ y.outlet = x.outlet /\ y.order = x.order
        /\ y.station = x.station /\ y.lines = x.lines
    BY <1>3
  <2>2. /\ v \in TicketRow /\ v.tenant = y.tenant /\ v.outlet = y.outlet /\ v.order = y.order
        /\ v.station = y.station /\ v.lines = y.lines
    BY <1>4, <2>1 DEF TicketRow
  <2> QED
    BY <2>1, <2>2
<1>6. /\ tickets' \in [TicketIds -> TicketRow \cup {None}]
      /\ tickets'[id] = v /\ \A j \in TicketIds : j # id => tickets'[j] = tickets[j]
  <2>1. tickets' = [tickets EXCEPT ![id] = v]
    BY <1>1, <1>2, <1>3, <1>4
  <2> QED
    BY <1>1, <1>5, <2>1
<1>7. RegistryTypes' /\ audits' \in Nat
  BY <1>1, <1>2, <1>6 DEF RegistryTypes, RegistryInv
<1>8. HierarchyKept
  BY <1>2, SameRows DEF HierarchyKept
<1>9. TicketFits(orders', stations', v)
  <2>1. TicketFits(orders, stations, x)
    BY <1>2 DEF RegistryInv, TicketsFit
  <2> QED
    BY <1>2, <1>5, <2>1 DEF TicketFits
<1>10. NewRowsFit
  BY <1>2, <1>6, <1>9 DEF NewRowsFit
<1> QED
  BY <1>7, <1>8, <1>10, RegistryGrows

\* Paging reads only; its reader is no part of the invariant.
LEMMA RegistryFrame ==
  ASSUME RegistryInv,
         UNCHANGED <<audits, organizations, outlets, brands, assignments, stations, devices, orders, tickets>>
  PROVE  RegistryInv' /\ HierarchyKept
<1>1. RegistryTypes' /\ audits' \in Nat
  BY DEF RegistryInv, RegistryTypes
<1>2. HierarchyKept /\ NewRowsFit
  BY SameRows DEF HierarchyKept, NewRowsFit
<1> QED
  BY <1>1, <1>2, RegistryGrows

\* A request that writes keeps the registry together, and the rows before it.
LEMMA RegistryStep ==
  ASSUME RegistryInv, SetupNext \/ ProvisionNext \/ ServiceNext
  PROVE  RegistryInv' /\ HierarchyKept
<1>1. CASE SetupNext
  <2> PICK t \in Tenants :
        \/ \E id \in Tenants : handleCreateOrganization(t, id)
        \/ \E o \in Outlets, org \in Tenants, code \in {"A", "B"} : handleCreateOutlet(t, o, org, code)
        \/ \E b \in Brands, org \in Tenants : handleCreateBrand(t, b, org, "A")
        \/ \E b \in Brands, o \in Outlets, active \in BOOLEAN, expected \in 0..MaxOps :
             handleSetBrandOutletAssignment(t, b, o, active, expected)
        \/ \E s \in Stations, o \in Outlets : handleCreateStation(t, s, o, "A")
        \/ \E d \in Devices, o \in Outlets : handleRegisterDevice(t, d, o, "edge")
        \/ \E d \in Devices : handleRevokeDevice(t, d)
    BY <1>1, Zenon DEF SetupNext
  <2>1. {"A", "B"} \subseteq Code /\ "A" \in Code /\ "edge" \in Edge /\ 0..MaxOps \subseteq Nat
    BY RegistryAssumption DEF Code, Edge
  <2>2. ASSUME NEW o \in Outlets, NEW org \in Tenants, NEW code \in {"A", "B"}, handleCreateOutlet(t, o, org, code)
        PROVE  RegistryInv' /\ HierarchyKept
    BY <2>1, <2>2, OutletKeeps
  <2>3. ASSUME NEW b \in Brands, NEW org \in Tenants, handleCreateBrand(t, b, org, "A") PROVE RegistryInv' /\ HierarchyKept
    BY <2>1, <2>3, BrandKeeps
  <2>4. ASSUME NEW b \in Brands, NEW o \in Outlets, NEW active \in BOOLEAN, NEW expected \in 0..MaxOps,
               handleSetBrandOutletAssignment(t, b, o, active, expected)
        PROVE  RegistryInv' /\ HierarchyKept
    BY <2>1, <2>4, AssignmentKeeps
  <2>5. ASSUME NEW s \in Stations, NEW o \in Outlets, handleCreateStation(t, s, o, "A") PROVE RegistryInv' /\ HierarchyKept
    BY <2>1, <2>5, StationKeeps
  <2>6. ASSUME NEW d \in Devices, NEW o \in Outlets, handleRegisterDevice(t, d, o, "edge") PROVE RegistryInv' /\ HierarchyKept
    BY <2>1, <2>6, RegisterKeeps
  <2> QED
    BY <2>2, <2>3, <2>4, <2>5, <2>6, OrganizationKeeps, RevokeKeeps, Zenon
<1>2. CASE ProvisionNext
  BY <1>2, ProvisionKeeps DEF ProvisionNext
<1>3. CASE ServiceNext
  <2> PICK t \in Tenants, o \in Outlets :
        \/ \E id \in OrderIds, b \in Brands \cup {None}, source \in Source, created \in ClockReadings :
             handleCreateOrder(t, id, o, b, source, created)
        \/ \E id \in TicketIds, order \in OrderIds, s \in Stations, lines \in SUBSET Lines :
             handleCreateKitchenTicket(t, id, o, order, s, lines)
        \/ \E id \in OrderIds, to \in OrderStatus, expected \in 1..MaxOps :
             handleTransitionOrder(t, o, id, to, expected)
        \/ \E id \in TicketIds, to \in TicketStatus, expected \in 1..MaxOps :
             handleTransitionKitchenTicket(t, o, id, to, expected)
    BY <1>3, Zenon DEF ServiceNext
  <2>1. 1..MaxOps \subseteq Nat /\ ClockReadings \subseteq Nat
    BY RegistryAssumption DEF ClockReadings, RegistryInv
  <2>2. ASSUME NEW id \in OrderIds, NEW b \in Brands \cup {None}, NEW source \in Source,
               NEW created \in ClockReadings, handleCreateOrder(t, id, o, b, source, created)
        PROVE  RegistryInv' /\ HierarchyKept
    BY <2>1, <2>2, OrderKeeps
  <2>3. ASSUME NEW id \in OrderIds, NEW to \in OrderStatus, NEW expected \in 1..MaxOps,
               handleTransitionOrder(t, o, id, to, expected)
        PROVE  RegistryInv' /\ HierarchyKept
    BY <2>1, <2>3, OrderMoveKeeps
  <2>4. ASSUME NEW id \in TicketIds, NEW to \in TicketStatus, NEW expected \in 1..MaxOps,
               handleTransitionKitchenTicket(t, o, id, to, expected)
        PROVE  RegistryInv' /\ HierarchyKept
    BY <2>1, <2>4, TicketMoveKeeps
  <2>5. ASSUME NEW id \in TicketIds, NEW order \in OrderIds, NEW s \in Stations, NEW lines \in SUBSET Lines,
               handleCreateKitchenTicket(t, id, o, order, s, lines)
        PROVE  RegistryInv' /\ HierarchyKept
    BY <2>5, TicketKeeps
  <2> QED
    BY <2>2, <2>3, <2>4, <2>5, Zenon
<1> QED
  BY <1>1, <1>2, <1>3

\* The registry fits together in every state.
LEMMA RegistryAlways == RegistrySpec => []RegistryInv
<1>1. ASSUME RegistryInit, audits = 0 PROVE RegistryInv
  <2>1. RegistryTypes
    BY <1>1 DEF RegistryInit, RegistryTypes
  <2>2. OneOrganization /\ OutletsFit /\ BrandsFit /\ StationsFit /\ DevicesFit
    BY <1>1 DEF RegistryInit, OneOrganization, OutletsFit, BrandsFit, StationsFit, DevicesFit
  <2>3. AssignmentsFit /\ OrdersFit /\ TicketsFit
    BY <1>1 DEF RegistryInit, AssignmentsFit, OrdersFit, TicketsFit
  <2> QED
    BY <1>1, <2>1, <2>2, <2>3 DEF RegistryInv
<1>2. ASSUME RegistryInv, [RegistryNext]_<<audits, registryVars>> PROVE RegistryInv'
  <2>1. CASE SetupNext \/ ProvisionNext \/ ServiceNext
    BY <1>2, <2>1, RegistryStep
  <2>2. CASE PagingNext
    BY <1>2, <2>2, RegistryFrame DEF PagingNext, handleOrders
  <2>3. CASE UNCHANGED <<audits, registryVars>>
    BY <1>2, <2>3, RegistryFrame DEF registryVars
  <2> QED
    BY <1>2, <2>1, <2>2, <2>3 DEF RegistryNext
<1> QED
  BY <1>1, <1>2, PTL DEF RegistrySpec

\* For all tenants and ids, in memory and in PostgreSQL: what a row names exists in the row's
\* tenant, a ticket stays within its order and outlet, and assignments and orders do not cross
\* organizations although PostgreSQL does not compare them (SetBrandOutletAssignment, CreateOrder).
THEOREM HierarchyIsClosed == RegistrySpec => []HierarchyClosed
<1>1. ASSUME RegistryInv PROVE HierarchyClosed
  <2>1. /\ DOMAIN organizations = Tenants /\ DOMAIN outlets = Outlets /\ DOMAIN brands = Brands
        /\ DOMAIN assignments = Brands \X Outlets /\ DOMAIN stations = Stations /\ DOMAIN devices = Devices
        /\ DOMAIN orders = OrderIds /\ DOMAIN tickets = TicketIds
    BY <1>1 DEF RegistryInv, RegistryTypes
  <2>2. \A v : OutletFits(organizations, v) => OfTenant(organizations, v.org, v.tenant)
    BY <1>1, <2>1 DEF OutletFits, OfTenant, Exists, RegistryInv, OneOrganization
  <2>3. \A v \in Rows(outlets) \cup Rows(brands) : OfTenant(organizations, v.org, v.tenant)
    BY <1>1, <2>1, <2>2 DEF Rows, RegistryInv, OutletsFit, BrandsFit
  <2>4. \A v \in Rows(stations) \cup Rows(devices) : OfTenant(outlets, v.outlet, v.tenant)
    BY <1>1, <2>1 DEF Rows, RegistryInv, StationsFit, DevicesFit, StationFits
  \* Within a tenant there is one organization.
  <2>5. \A b, o, t : OfTenant(brands, b, t) /\ OfTenant(outlets, o, t) => brands[b].org = outlets[o].org
    BY <1>1, <2>1 DEF OfTenant, Exists, RegistryInv, OutletsFit, BrandsFit, OutletFits
  <2>6. \A p \in DOMAIN assignments : assignments[p] # None =>
          /\ OfTenant(brands, p[1], assignments[p].tenant) /\ OfTenant(outlets, p[2], assignments[p].tenant)
          /\ brands[p[1]].org = outlets[p[2]].org
    BY <1>1, <2>1, <2>5 DEF RegistryInv, AssignmentsFit, AssignmentFits
  <2>7. \A v \in Rows(orders) :
          /\ OfTenant(outlets, v.outlet, v.tenant)
          /\ v.brand # None => OfTenant(brands, v.brand, v.tenant) /\ brands[v.brand].org = outlets[v.outlet].org
    BY <1>1, <2>1, <2>5 DEF Rows, RegistryInv, OrdersFit, OrderFits
  <2>8. \A v \in Rows(tickets) : TicketFits(orders, stations, v)
    BY <1>1, <2>1 DEF Rows, RegistryInv, TicketsFit
  <2> QED
    BY <2>3, <2>4, <2>6, <2>7, <2>8 DEF HierarchyClosed, TicketFits
<1> QED
  BY <1>1, RegistryAlways, PTL

-----------------------------------------------------------------------------
(* Paging through the orders of an outlet *)

\* Orders that were placed.
Placed == {id \in OrderIds : orders[id] # None}

\* The times and ids of orders put them in a row.
LEMMA OrdersInARow ==
  ASSUME RegistryTypes
  PROVE  /\ \A x \in Placed : ~Before(x, x)
         /\ \A x, y, z \in Placed : Before(x, y) /\ Before(y, z) => Before(x, z)
         /\ \A x, y \in Placed : x = y \/ Before(x, y) \/ Before(y, x)
<1>1. \A x \in Placed : x \in Nat /\ orders[x].created \in Nat
  <2>1. \A r \in OrderRow : r.created \in Nat
    BY DEF OrderRow
  <2>2. \A x \in Placed : orders[x] \in OrderRow
    BY DEF Placed, RegistryTypes
  <2> QED BY <2>1, <2>2, RegistryAssumption DEF Placed
<1> QED BY <1>1 DEF Before

\* Places are below the number of rows and follow the order of the list.
LEMMA PlaceGrows ==
  ASSUME RegistryTypes, NEW rows, rows \subseteq Placed, IsFiniteSet(rows)
  PROVE  /\ \A x \in rows : Place(rows, x) \in Nat /\ Place(rows, x) < Cardinality(rows)
         /\ \A x, y \in rows : Before(x, y) => Place(rows, x) < Place(rows, y)
<1>1. Cardinality(rows) \in Nat
  BY FS_CardinalityType
<1>2. ASSUME NEW x \in rows
      PROVE  /\ IsFiniteSet({z \in rows : Before(z, x)}) /\ Place(rows, x) \in Nat
             /\ Place(rows, x) < Cardinality(rows)
  <2>1. PICK A : A = {z \in rows : Before(z, x)}
    OBVIOUS
  <2>2. A \subseteq rows /\ A # rows
    BY <2>1, OrdersInARow
  <2>3. IsFiniteSet(A) /\ Cardinality(A) <= Cardinality(rows) /\ (Cardinality(rows) = Cardinality(A) => rows = A)
    BY <2>2, FS_Subset
  <2>4. Cardinality(A) \in Nat
    BY <2>3, FS_CardinalityType
  <2> QED BY <1>1, <2>1, <2>2, <2>3, <2>4 DEF Place
<1>3. ASSUME NEW x \in rows, NEW y \in rows, Before(x, y) PROVE Place(rows, x) < Place(rows, y)
  <2>1. PICK A, B : A = {z \in rows : Before(z, x)} /\ B = {z \in rows : Before(z, y)}
    OBVIOUS
  <2>2. A \subseteq B /\ A # B
    BY <1>3, <2>1, OrdersInARow
  <2>3. IsFiniteSet(B)
    BY <1>2, <2>1
  <2>4. Cardinality(A) <= Cardinality(B) /\ (Cardinality(B) = Cardinality(A) => B = A)
    BY <2>2, <2>3, FS_Subset
  <2>5. Cardinality(A) \in Nat /\ Cardinality(B) \in Nat
    BY <1>2, <2>1 DEF Place
  <2> QED BY <2>1, <2>2, <2>4, <2>5 DEF Place
<1> QED BY <1>2, <1>3

\* Every place is taken.
LEMMA PlacesTaken ==
  ASSUME RegistryTypes, NEW rows, rows \subseteq Placed, IsFiniteSet(rows),
         NEW n \in Nat, n < Cardinality(rows)
  PROVE  \E id \in rows : Place(rows, id) = n
<1>1. PICK c : c = Cardinality(rows)
  OBVIOUS
<1>2. c \in Nat
  BY <1>1, FS_CardinalityType
<1>3. PICK f : f = [id \in rows |-> Place(rows, id)]
  OBVIOUS
<1>4. f \in [rows -> 0..(c - 1)]
  BY <1>1, <1>2, <1>3, PlaceGrows
<1>5. \A x, y \in rows : f[x] = f[y] => x = y
  BY <1>3, PlaceGrows, OrdersInARow
<1>6. f \in Injection(rows, 0..(c - 1))
  BY <1>4, <1>5, Fun_IsInj
<1>7. IsFiniteSet(0..(c - 1)) /\ Cardinality(0..(c - 1)) = c
  BY <1>2, FS_Interval
<1>8. f \in Surjection(rows, 0..(c - 1))
  BY <1>1, <1>6, <1>7, FS_Injection
<1>9. \A k \in 0..(c - 1) : \E id \in rows : f[id] = k
  <2>1. PICK places : places = 0..(c - 1)
    OBVIOUS
  <2>2. f \in Surjection(rows, places)
    BY <1>8, <2>1
  <2>3. \A k \in places : \E id \in rows : f[id] = k
    BY ONLY <2>2, Fun_SurjectionProperties, Zenon
  <2> QED
    BY <2>1, <2>3
<1>10. n \in 0..(c - 1)
  BY <1>1, <1>2
<1>11. \E id \in rows : f[id] = n
  BY <1>9, <1>10
<1> QED BY <1>3, <1>11

\* A page is all there is, or what comes up to its cursor.
LEMMA PageSplits ==
  ASSUME RegistryTypes, NEW rows, rows \subseteq Placed, NEW page, page = Page(rows, PageLimit)
  PROVE  /\ page.values \subseteq rows
         /\ page.next = None => page.values = rows
         /\ page.next # None => page.next \in rows /\ page.values = {id \in rows : id = page.next \/ Before(id, page.next)}
<1>1. IsFiniteSet(rows) /\ PageLimit \in Nat \ {0}
  BY RegistryAssumption, FS_Subset DEF Placed
<1>2. PICK c : c = Cardinality(rows)
  OBVIOUS
<1>3. c \in Nat
  BY <1>1, <1>2, FS_CardinalityType
<1>4. /\ page.values = {id \in rows : Place(rows, id) < PageLimit}
      /\ page.next = IF c > PageLimit THEN CHOOSE id \in rows : Place(rows, id) = PageLimit - 1 ELSE None
  BY <1>2 DEF Page
<1>5. \A x \in rows : Place(rows, x) \in Nat /\ Place(rows, x) < c
  BY <1>1, <1>2, PlaceGrows
<1>6. CASE c <= PageLimit
  <2>1. \A x \in rows : Place(rows, x) < PageLimit
    BY <1>1, <1>3, <1>5, <1>6
  <2> QED BY <1>1, <1>3, <1>4, <1>6, <2>1
<1>7. CASE c > PageLimit
  <2>1. PageLimit - 1 \in Nat /\ PageLimit - 1 < c
    BY <1>1, <1>3, <1>7
  <2>2. \E id \in rows : Place(rows, id) = PageLimit - 1
    BY <1>1, <1>2, <2>1, PlacesTaken
  <2>3. PICK last : last = page.next
    OBVIOUS
  <2>4. last \in rows /\ Place(rows, last) = PageLimit - 1
    BY <1>4, <1>7, <2>2, <2>3
  <2>5. last # None
    BY <2>4, RegistryAssumption, NoneNumber DEF Placed
  <2>6. ASSUME NEW id \in rows PROVE Place(rows, id) < PageLimit <=> id = last \/ Before(id, last)
    <3>1. Before(id, last) => Place(rows, id) < Place(rows, last)
      BY <1>1, <2>4, PlaceGrows
    <3>2. Before(last, id) => Place(rows, last) < Place(rows, id)
      BY <1>1, <2>4, PlaceGrows
    <3>3. id = last \/ Before(id, last) \/ Before(last, id)
      BY <2>4, OrdersInARow
    <3> QED BY <1>1, <1>5, <2>4, <3>1, <3>2, <3>3
  <2> QED BY <1>4, <2>3, <2>4, <2>5, <2>6
<1> QED BY <1>1, <1>3, <1>6, <1>7

\* The orders that the reader pages through, and those of them up to a cursor.
Listed == Orders(outlets[reader.outlet].tenant, reader.outlet)
UpTo(after) == {id \in Listed : id = after \/ Before(id, after)}

\* What the reader has seen is what it should have seen up to its cursor.
PageInv ==
  /\ reader.again = {}
  /\ reader.outlet = None => reader.got = {} /\ reader.base = {} /\ reader.after = None
  /\ reader.outlet # None =>
       /\ Exists(outlets, reader.outlet) /\ reader.base \subseteq Listed
       /\ reader.finished => reader.base \subseteq reader.got
       /\ ~reader.finished =>
            /\ reader.after \in Listed
            /\ reader.got \subseteq UpTo(reader.after)
            /\ reader.base \cap UpTo(reader.after) \subseteq reader.got

\* Both repositories continue behind the cursor.
LEMMA PageContinues ==
  ASSUME RegistryTypes, NEW t, NEW o, NEW after, after = None \/ after \in Orders(t, o)
  PROVE  /\ writePaginated(t, o, after, PageLimit) = PageOrders(t, o, after, PageLimit)
         /\ Orders(t, o) \subseteq Placed
<1>1. Orders(t, o) \subseteq Placed /\ None \notin Orders(t, o)
  BY RegistryAssumption, NoneNumber DEF Orders, Placed, OfTenant, Exists
<1>2. PICK rows : rows = Orders(t, o)
  OBVIOUS
<1>3. CASE after = None
  <2>1. rows \ {} = {id \in rows : TRUE}
    OBVIOUS
  <2> QED
    BY <1>1, <1>2, <1>3, <2>1 DEF writePaginated, PageOrders
<1>4. CASE after # None
  <2>1. after \in rows
    BY <1>2, <1>4
  <2>2. \A id \in rows : Before(after, id) <=> ~(id = after \/ Before(id, after))
    BY <1>1, <1>2, <2>1, OrdersInARow
  <2>3. rows \ {id \in rows : id = after \/ Before(id, after)} = {id \in rows : Before(after, id)}
    BY <2>2
  <2>4. writePaginated(t, o, after, PageLimit) = Page(rows \ {id \in rows : id = after \/ Before(id, after)}, PageLimit)
    BY <1>2, <1>4 DEF writePaginated
  <2>5. {id \in rows : after = None \/ Before(after, id)} = {id \in rows : Before(after, id)}
    BY <1>4
  <2> QED
    BY <1>1, <1>2, <2>3, <2>4, <2>5 DEF PageOrders
<1> QED
  BY <1>3, <1>4

\* Rows are added and change their status; the list keeps its order.
LEMMA PagesKept ==
  ASSUME RegistryInv, PageInv, reader' = reader, HierarchyKept
  PROVE  PageInv'
<1>1. CASE reader.outlet = None
  BY <1>1 DEF PageInv
<1>2. CASE reader.outlet # None
  <2>1. outlets'[reader.outlet] = outlets[reader.outlet] /\ Exists(outlets', reader.outlet)
    BY <1>2 DEF PageInv, HierarchyKept, Kept, Exists
  <2>2. \A id \in OrderIds : orders[id] # None =>
          /\ id \in DOMAIN orders' /\ orders'[id] # None /\ orders'[id].tenant = orders[id].tenant
          /\ orders'[id].outlet = orders[id].outlet /\ orders'[id].created = orders[id].created
    BY DEF HierarchyKept, OrdersKept, RegistryInv, RegistryTypes
  <2>3. Listed \subseteq Listed'
    BY <2>1, <2>2 DEF Listed, Orders, OfTenant, Exists
  <2>4. Listed \subseteq OrderIds /\ \A id \in Listed : orders[id] # None
    BY DEF Listed, Orders, OfTenant, Exists
  <2>5. \A x, y \in Listed : Before(x, y)' <=> Before(x, y)
    BY <2>2, <2>4 DEF Before
  <2>6. CASE reader.finished
    BY <1>2, <2>1, <2>3, <2>6 DEF PageInv
  <2>7. CASE ~reader.finished
    <3>1. reader.after \in Listed
      BY <1>2, <2>7 DEF PageInv
    <3>2. UpTo(reader.after) \subseteq UpTo(reader.after)'
      BY <2>3, <2>5, <3>1 DEF UpTo
    <3>3. Listed \cap UpTo(reader.after)' \subseteq UpTo(reader.after)
      BY <2>5, <3>1 DEF UpTo
    <3> QED
      BY <1>2, <2>1, <2>3, <2>7, <3>1, <3>2, <3>3 DEF PageInv
  <2> QED
    BY <2>6, <2>7
<1> QED
  BY <1>1, <1>2

\* A page brings what follows the cursor, up to the next cursor.
LEMMA PageTurns ==
  ASSUME RegistryInv, PageInv, NEW t \in Tenants, NEW o \in Outlets, handleOrders(t, o)
  PROVE  PageInv'
<1>1. /\ ~reader.finished /\ reader.outlet \in {None, o} /\ OfTenant(outlets, o, t)
      /\ outlets' = outlets /\ orders' = orders /\ o # None
  BY RegistryAssumption DEF handleOrders
<1>2. PICK after : after = reader.after
  OBVIOUS
<1>3. PICK rows : rows = Orders(t, o)
  OBVIOUS
<1>4. /\ after = None <=> reader.outlet = None
      /\ after # None => after \in rows
      /\ reader.got \subseteq rows /\ reader.base \subseteq rows
      /\ reader.got \subseteq {id \in rows : after # None /\ (id = after \/ Before(id, after))}
      /\ \A id \in reader.base : after # None /\ (id = after \/ Before(id, after)) => id \in reader.got
  <2>1. CASE reader.outlet = None
    BY <1>2, <2>1 DEF PageInv
  <2>2. CASE reader.outlet # None
    <3>1. Listed = rows
      BY <1>1, <1>3, <2>2 DEF Listed, OfTenant
    <3>2. /\ after \in Listed /\ reader.got \subseteq UpTo(after) /\ reader.base \subseteq Listed
          /\ reader.base \cap UpTo(after) \subseteq reader.got
      BY <1>1, <1>2, <2>2 DEF PageInv
    <3>3. after # None
      BY <3>2, RegistryAssumption, NoneNumber DEF Listed, Orders
    <3> QED
      BY <2>2, <3>1, <3>2, <3>3 DEF UpTo
  <2> QED
    BY <2>1, <2>2
<1>5. RegistryTypes /\ rows \subseteq Placed
  BY <1>3, PageContinues DEF RegistryInv
<1>6. PICK rest : rest = {id \in rows : after = None \/ Before(after, id)}
  OBVIOUS
<1>7. PICK page : page = Page(rest, PageLimit)
  OBVIOUS
<1>8. reader' = [outlet |-> o, after |-> page.next, finished |-> page.next = None,
                 got |-> reader.got \cup page.values, again |-> reader.again \cup (reader.got \cap page.values),
                 base |-> IF reader.outlet = None THEN rows ELSE reader.base]
  <2>1. PageOrders(t, o, after, PageLimit) = page
    BY <1>3, <1>6, <1>7 DEF PageOrders
  <2>2. writePaginated(t, o, after, PageLimit) = page
    BY <1>3, <1>4, <1>5, <2>1, PageContinues
  <2> QED
    BY <1>2, <1>3, <2>1, <2>2 DEF handleOrders
<1>9. /\ reader'.outlet = o /\ reader'.after = page.next /\ reader'.finished = (page.next = None)
      /\ reader'.got = reader.got \cup page.values
      /\ reader'.again = reader.again \cup (reader.got \cap page.values)
      /\ reader'.base = IF reader.outlet = None THEN rows ELSE reader.base
  BY <1>8
<1>10. /\ page.values \subseteq rest
       /\ page.next = None => page.values = rest
       /\ page.next # None => page.next \in rest /\ page.values = {id \in rest : id = page.next \/ Before(id, page.next)}
  BY <1>5, <1>6, <1>7, PageSplits
\* Nothing is read twice: the page is behind what was read.
<1>11. reader'.again = {}
  <2>1. reader.got \cap rest = {}
    BY <1>4, <1>5, <1>6, OrdersInARow
  <2> QED
    BY <1>9, <1>10, <2>1 DEF PageInv
<1>12. Listed' = rows /\ Exists(outlets', o)
  <2>1. Listed' = Orders(outlets[o].tenant, o)
    BY <1>1, <1>9 DEF Listed, Orders
  <2> QED
    BY <1>1, <1>3, <2>1 DEF OfTenant
<1>13. reader'.base \subseteq rows
  BY <1>4, <1>9
\* What was there at the start is behind the cursor, or was read.
<1>14. \A id \in reader'.base : id \in rest \/ id \in reader.got
  BY <1>4, <1>5, <1>6, <1>9, OrdersInARow
<1>15. CASE page.next = None
  BY <1>1, <1>9, <1>10, <1>11, <1>12, <1>13, <1>14, <1>15 DEF PageInv
<1>16. CASE page.next # None
  <2>1. PICK next : next = page.next
    OBVIOUS
  <2>2. next \in rest /\ next \in rows /\ page.values = {id \in rest : id = next \/ Before(id, next)}
    BY <1>6, <1>10, <1>16, <2>1
  <2>3. UpTo(next)' = {id \in rows : id = next \/ Before(id, next)}
    BY <1>1, <1>12 DEF UpTo, Before
  <2>4. reader'.got \subseteq UpTo(next)'
    <3>1. \A id \in reader.got : Before(id, next)
      BY <1>4, <1>5, <1>6, <2>2, OrdersInARow
    <3> QED
      BY <1>4, <1>6, <1>9, <2>2, <2>3, <3>1
  <2>5. reader'.base \cap UpTo(next)' \subseteq reader'.got
    BY <1>9, <1>14, <2>2, <2>3
  <2>6. UpTo(reader.after)' = UpTo(next)'
    BY <1>9, <2>1 DEF UpTo
  <2> QED
    BY <1>1, <1>9, <1>11, <1>12, <1>13, <1>16, <2>1, <2>2, <2>4, <2>5, <2>6 DEF PageInv
<1> QED
  BY <1>15, <1>16

\* For all outlets, orders and page sizes, in memory and in PostgreSQL: a client that follows the
\* cursors to the end has seen every order that was there when it began, and none twice, although
\* orders are created in between with times that lie before its cursor (PageOrders, writePaginated).
THEOREM PagesAreComplete == RegistrySpec => []PagesComplete
<1>1. ASSUME RegistryInit PROVE PageInv
  BY <1>1 DEF RegistryInit, PageInv
<1>2. ASSUME RegistryInv, PageInv, [RegistryNext]_<<audits, registryVars>> PROVE PageInv'
  <2>1. CASE SetupNext
    <3>1. reader' = reader
      BY <2>1 DEF SetupNext, handleCreateOrganization, handleCreateOutlet, handleCreateBrand,
                  handleSetBrandOutletAssignment, handleCreateStation, handleRegisterDevice, handleRevokeDevice
    <3> QED
      BY <1>2, <2>1, <3>1, RegistryStep, PagesKept
  <2>2. CASE ProvisionNext
    <3>1. reader' = reader
      BY <2>2 DEF ProvisionNext, handleProvisionTenant
    <3> QED
      BY <1>2, <2>2, <3>1, RegistryStep, PagesKept
  <2>3. CASE ServiceNext
    <3>1. reader' = reader
      <4>1. \A t, id, o, b, source, created : handleCreateOrder(t, id, o, b, source, created) => reader' = reader
        BY DEF handleCreateOrder
      <4>2. \A t, id, o, order, s, lines : handleCreateKitchenTicket(t, id, o, order, s, lines) => reader' = reader
        BY DEF handleCreateKitchenTicket
      <4>3. \A t, o, id, to, expected : handleTransitionOrder(t, o, id, to, expected) => reader' = reader
        BY DEF handleTransitionOrder
      <4>4. \A t, o, id, to, expected : handleTransitionKitchenTicket(t, o, id, to, expected) => reader' = reader
        BY DEF handleTransitionKitchenTicket
      <4> QED
        BY <2>3, <4>1, <4>2, <4>3, <4>4, Zenon DEF ServiceNext
    <3> QED
      BY <1>2, <2>3, <3>1, RegistryStep, PagesKept
  <2>4. CASE PagingNext
    BY <1>2, <2>4, PageTurns DEF PagingNext
  <2>5. CASE UNCHANGED <<audits, registryVars>>
    BY <1>2, <2>5, RegistryFrame, PagesKept DEF registryVars
  <2> QED
    BY <1>2, <2>1, <2>2, <2>3, <2>4, <2>5 DEF RegistryNext
<1>3. ASSUME PageInv PROVE PagesComplete
  BY <1>3 DEF PageInv, PagesComplete
<1> QED
  BY <1>1, <1>2, <1>3, RegistryAlways, PTL DEF RegistrySpec
=============================================================================
