------------------------------ MODULE Channels ------------------------------
(***************************************************************************)
(* Connected commerce: sales channels, connectors, the inbox of orders     *)
(* that connectors deliver and what the order desk decides about them, and *)
(* the outlet's set-up records (store/postgres_connected_commerce.go       *)
(* behind api/connected_commerce.go, tables of migrations/000014 and       *)
(* 000016).  Foreign keys are by tenant, not by outlet.                    *)
(*                                                                         *)
(* A decision is two steps.  Its time is read by the handler, before       *)
(* DecideConnectorOrder waits for the entry's advisory lock, and the       *)
(* decision in force is the one with the latest time.  Times of decisions  *)
(* are distinct here; the code breaks ties by id.                          *)
(***************************************************************************)
EXTENDS AuditTrail

CONSTANTS
  Shops,           \* outlets
  ShopOrders,      \* canonical orders -> outlet
  ChannelIds, ConnectorIds, EntryIds, ExternalIds, LinkIds, Slugs, StationIds,
  KnownChannels, KnownConnectors, KnownLinks,   \* created before
  MaxDeciding,     \* bound: decisions between handler and store at once
  MaxClock         \* bound: time

VARIABLES
  clock,
  channels, connectors,
  entries,         \* connector_order_inbox
  decisions,       \* connector_order_decisions
  deciding,        \* decisions on their way to DecideConnectorOrder
  links,           \* qr_ordering_links
  capacity,        \* station_capacity_limits
  profiles,        \* outlet_control_profiles: outlet -> version, 0 when absent
  hardware, runbooks

inboxVars == <<channels, connectors, entries, decisions, deciding>>
setupVars == <<links, capacity, profiles, hardware, runbooks>>
channelVars == <<clock, inboxVars, setupVars>>

\* Time passes.
Tick ==
  /\ clock < MaxClock
  /\ clock' = clock + 1
  /\ UNCHANGED <<audits, inboxVars, setupVars>>
-----------------------------------------------------------------------------
(* Channels and connectors *)

CreateSalesChannel(id, v) ==
  /\ channels[id] = None /\ v.shop \in Shops
  /\ \A row \in Rows(channels) : ~(row.shop = v.shop /\ row.code = v.code)
  /\ channels' = [channels EXCEPT ![id] = v]
  /\ Audited /\ UNCHANGED <<clock, connectors, entries, decisions, deciding, setupVars>>

handleCreateSalesChannel(id, shop, code) == CreateSalesChannel(id, [shop |-> shop, code |-> code])

CreateConnectorInstallation(id, v) ==
  /\ connectors[id] = None /\ v.shop \in Shops
  /\ v.channel # None => Exists(channels, v.channel)
  /\ \A row \in Rows(connectors) : ~(row.shop = v.shop /\ row.provider = v.provider)
  /\ connectors' = [connectors EXCEPT ![id] = v]
  /\ Audited /\ UNCHANGED <<clock, channels, entries, decisions, deciding, setupVars>>

handleCreateConnector(id, shop, channel, provider, status) ==
  /\ status \in {"draft", "healthy", "degraded", "disabled"}
  /\ CreateConnectorInstallation(id, [shop |-> shop, channel |-> channel, provider |-> provider, status |-> status])
-----------------------------------------------------------------------------
(* The connector inbox *)

IngestConnectorOrder(e, v) ==
  /\ entries[e] = None /\ Exists(connectors, v.connector)
  /\ \A row \in Rows(entries) : ~(row.connector = v.connector /\ row.external = v.external)
  /\ entries' = [entries EXCEPT ![e] = v]
  /\ Audited /\ UNCHANGED <<clock, channels, connectors, decisions, deciding, setupVars>>

handleIngestConnectorOrder(e, shop, connector, external) ==
  IngestConnectorOrder(e, [shop |-> shop, connector |-> connector, external |-> external, status |-> "received"])

DecisionsOf(e) == {d \in decisions : d.entry = e}

\* The status ConnectorOrderInbox shows: the latest decision by its time.
CurrentStatus(e) ==
  IF DecisionsOf(e) = {} THEN entries[e].status
  ELSE (CHOOSE d \in DecisionsOf(e) : \A f \in DecisionsOf(e) : f.at <= d.at).decision

Final == {"accepted", "rejected", "duplicate"}

\* The time of the decision is read here.
handleConnectorInboxDecision(shop, e, decision, order) ==
  /\ Cardinality(deciding) < MaxDeciding /\ clock < MaxClock
  /\ decision \in Final \cup {"needs_review"}
  /\ (decision = "accepted") <=> (order # None)
  /\ deciding' = deciding \cup {[shop |-> shop, entry |-> e, decision |-> decision, order |-> order, at |-> clock]}
  /\ clock' = clock + 1
  /\ UNCHANGED <<audits, channels, connectors, entries, decisions, setupVars>>

\* Faulty: an entry that is already decided can be decided again.
DecideConnectorOrderAgain(d) ==
  LET acceptable ==
        /\ Exists(entries, d.entry) /\ entries[d.entry].shop = d.shop
        /\ d.decision = "accepted" => d.order \in DOMAIN ShopOrders /\ ShopOrders[d.order] = d.shop
  IN
  /\ deciding' = deciding \ {d}
  /\ IF acceptable
     THEN decisions' = decisions \cup
            {[op |-> audits, entry |-> d.entry, decision |-> d.decision, order |-> d.order, at |-> d.at]} /\ Audited
     ELSE UNCHANGED <<decisions, audits>>
  /\ UNCHANGED <<clock, channels, connectors, entries, setupVars>>

\* Under the entry's advisory lock: a refused decision leaves nothing behind.
DecideConnectorOrder(d) ==
  LET acceptable ==
        /\ Exists(entries, d.entry) /\ entries[d.entry].shop = d.shop
        /\ CurrentStatus(d.entry) \notin Final
        /\ d.decision = "accepted" => d.order \in DOMAIN ShopOrders /\ ShopOrders[d.order] = d.shop
  IN
  /\ deciding' = deciding \ {d}
  /\ IF acceptable
     THEN decisions' = decisions \cup
            {[op |-> audits, entry |-> d.entry, decision |-> d.decision, order |-> d.order, at |-> d.at]} /\ Audited
     ELSE UNCHANGED <<decisions, audits>>
  /\ UNCHANGED <<clock, channels, connectors, entries, setupVars>>
-----------------------------------------------------------------------------
(* Set-up records of an outlet *)

CreateQROrderingLink(l, v) ==
  /\ links[l] = None /\ v.shop \in Shops
  /\ v.channel # None => Exists(channels, v.channel)
  /\ \A row \in Rows(links) : row.slug # v.slug
  /\ links' = [links EXCEPT ![l] = v]
  /\ Audited /\ UNCHANGED <<clock, inboxVars, capacity, profiles, hardware, runbooks>>

handleCreateQROrderingLink(l, shop, channel, slug, expires) ==
  CreateQROrderingLink(l, [shop |-> shop, channel |-> channel, slug |-> slug, active |-> TRUE, expires |-> expires])

\* Inserts the limit or replaces it with the next version.
SetStationCapacity(s, limit) ==
  /\ capacity' = [capacity EXCEPT ![s] = [limit |-> limit, version |-> IF @ = None THEN 1 ELSE @.version + 1]]
  /\ Audited /\ UNCHANGED <<clock, inboxVars, links, profiles, hardware, runbooks>>

handleSetStationCapacity(s, limit) == limit >= 0 /\ SetStationCapacity(s, limit)

SetOutletControlProfile(shop) ==
  /\ profiles' = [profiles EXCEPT ![shop] = @ + 1]
  /\ Audited /\ UNCHANGED <<clock, inboxVars, links, capacity, hardware, runbooks>>

handleSetOutletControlProfile(shop) == SetOutletControlProfile(shop)

\* Serial numbers are unique in an outlet.
RegisterHardwareDevice(shop, serial, type) ==
  /\ \A row \in hardware : ~(row.shop = shop /\ row.serial = serial)
  /\ hardware' = hardware \cup {[shop |-> shop, serial |-> serial, type |-> type]}
  /\ Audited /\ UNCHANGED <<clock, inboxVars, links, capacity, profiles, runbooks>>

handleRegisterHardwareDevice(shop, serial, type, certification) ==
  /\ type \in {"printer", "cash_drawer", "scanner", "scale", "customer_display", "payment_terminal"}
  /\ certification \in {"candidate", "certified", "deprecated", "blocked"}
  /\ RegisterHardwareDevice(shop, serial, type)

CreateImplementationRunbook(shop, status) ==
  /\ runbooks' = runbooks \cup {[op |-> audits, shop |-> shop, status |-> status]}
  /\ Audited /\ UNCHANGED <<clock, inboxVars, links, capacity, profiles, hardware>>

handleCreateRunbook(shop, status) ==
  /\ status \in {"draft", "in_progress", "ready", "blocked"}
  /\ CreateImplementationRunbook(shop, status)
-----------------------------------------------------------------------------
ChannelsInit ==
  /\ clock = 1
  /\ channels = [c \in ChannelIds |-> IF c \in DOMAIN KnownChannels THEN KnownChannels[c] ELSE None]
  /\ connectors = [c \in ConnectorIds |-> IF c \in DOMAIN KnownConnectors THEN KnownConnectors[c] ELSE None]
  /\ entries = [e \in EntryIds |-> None] /\ decisions = {} /\ deciding = {}
  /\ links = [l \in LinkIds |-> IF l \in DOMAIN KnownLinks THEN KnownLinks[l] ELSE None] /\ capacity = [s \in StationIds |-> None]
  /\ profiles = [s \in Shops |-> 0] /\ hardware = {} /\ runbooks = {}

ConnectNext ==
  \/ \E id \in Fresh(channels), s \in Shops, code \in {"web"} : handleCreateSalesChannel(id, s, code)
  \/ \E id \in Fresh(connectors), s \in Shops, c \in ChannelIds \cup {None} :
       handleCreateConnector(id, s, c, "aggregator", "healthy")

InboxNext ==
  \/ \E e \in Fresh(entries), s \in Shops, c \in ConnectorIds, x \in ExternalIds : handleIngestConnectorOrder(e, s, c, x)
  \/ \E s \in Shops, e \in EntryIds, decision \in Final \cup {"needs_review"}, o \in DOMAIN ShopOrders \cup {None} :
       Exists(entries, e) /\ handleConnectorInboxDecision(s, e, decision, o)
  \/ \E d \in deciding : DecideConnectorOrder(d)

ProfileNext ==
  \/ \E l \in Fresh(links), s \in Shops, c \in ChannelIds \cup {None}, slug \in Slugs, expires \in {None, 2} :
       handleCreateQROrderingLink(l, s, c, slug, expires)
  \/ \E s \in StationIds, limit \in {0, 1} : handleSetStationCapacity(s, limit)
  \/ \E s \in Shops : handleSetOutletControlProfile(s)
  \/ \E s \in Shops : handleRegisterHardwareDevice(s, "sn1", "printer", "certified")
  \/ \E s \in Shops : handleCreateRunbook(s, "draft")

ChannelsNext == ConnectNext \/ InboxNext \/ ProfileNext \/ Tick
ChannelsSpec == ChannelsInit /\ audits = 0 /\ [][ChannelsNext]_<<audits, channelVars>>
-----------------------------------------------------------------------------
(* Properties *)

\* A connector order gets one final decision: accepted, rejected or duplicate.  The
\* code only reaches this up to its clock: a second one takes a review decision that
\* was stored before the first final decision although its time is later, so that it
\* stays the decision in force (handleConnectorInboxDecision reads the time before
\* DecideConnectorOrder waits for the lock).
DecidedOnce ==
  \A d, f \in decisions :
    d.entry = f.entry /\ d.op < f.op /\ {d.decision, f.decision} \subseteq Final =>
      \E r \in DecisionsOf(d.entry) : r.decision = "needs_review" /\ r.op < d.op /\ d.at < r.at
=============================================================================
