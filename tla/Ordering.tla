------------------------------ MODULE Ordering ------------------------------
(***************************************************************************)
(* Menu studios and direct ordering: the versions of an outlet's menu,     *)
(* their publication to channels, and guests who order from a QR link      *)
(* (store/postgres_restaurant_core.go, postgres_direct_ordering.go behind  *)
(* api/restaurant_core.go, public_ordering.go; tables of migrations/000015 *)
(* and 000017).                                                            *)
(*                                                                         *)
(* A guest's submission is two steps: the handler reads link and live      *)
(* menu, the store reads them again in the transaction that inserts the    *)
(* request.  Categories and modifiers are left out, lines are items with a *)
(* quantity.  Stock, station capacity and manual availability belong to    *)
(* other modules: sellable is the set of items that pass them.             *)
(***************************************************************************)
EXTENDS Channels

CONSTANTS
  ItemShop,        \* menu items -> outlet
  StudioIds, MenuVersionIds, PublicationIds,
  RequestIds,      \* clientRequestId of a guest's browser
  MaxSubmitting    \* bound: submissions between handler and store at once

\* The rows of menu_studio_versions, with the prices of the items, and of web_order_requests,
\* whose total has CHECK (total_minor >= 0).
PerItem == UNION {[S -> Nat] : S \in SUBSET DOMAIN ItemShop}
MenuVersion ==
  [studio : StudioIds, number : Nat, status : {"draft", "published"}, prices : PerItem]
GuestRequest == [shop : Shops, version : MenuVersionIds, lines : PerItem, total : Nat]

ASSUME OrderingAssumption ==
  /\ \A l \in DOMAIN KnownLinks : KnownLinks[l].shop \in Shops
  /\ None \notin MenuVersion \cup GuestRequest

VARIABLES
  studios, menuVersions,
  publications,    \* menu_publications, which are immutable
  submitting,      \* submissions on their way to SubmitGuestOrderRequest
  guestRequests,   \* web_order_requests, by client request
  told             \* what guests were answered: client request and total

menuVars == <<studios, menuVersions, publications>>
guestOrderVars == <<submitting, guestRequests, told>>
orderingVars == <<menuVars, guestOrderVars>>
-----------------------------------------------------------------------------
(* Menu studios *)

\* v has a number, a status, prices of its items, and publications as a
\* function from publication ids.
validMenuVersion(v, initial) ==
  /\ v.number >= 1 /\ (initial => v.number = 1)
  /\ v.status \in {"draft", "published"}
  /\ DOMAIN v.prices # {} /\ \A i \in DOMAIN v.prices : v.prices[i] >= 0
  /\ \A p \in DOMAIN v.publications :
       LET row == v.publications[p] IN
       /\ row.status \in {"scheduled", "live", "paused"}
       /\ row.to # None => row.to > row.from

\* One live publication without an end per outlet and channel.
OpenEnded(row) == row.status = "live" /\ row.to = None

insertMenuStudioVersion(q, shop, id, v) ==
  LET new == [p \in DOMAIN v.publications |->
               LET row == v.publications[p]
               IN [shop |-> shop, version |-> id, channel |-> row.channel, status |-> row.status,
                   from |-> row.from, to |-> row.to]]
  IN
  /\ menuVersions[id] = None
  /\ \A i \in DOMAIN v.prices : ItemShop[i] = shop
  /\ \A p \in DOMAIN new :
       /\ publications[p] = None
       /\ new[p].channel # None => Exists(channels, new[p].channel) /\ channels[new[p].channel].shop = shop
       /\ OpenEnded(new[p]) =>
            \A row \in Rows(publications) \cup {new[r] : r \in DOMAIN new \ {p}} :
              ~(OpenEnded(row) /\ row.shop = shop /\ row.channel = new[p].channel)
  /\ menuVersions' = [menuVersions EXCEPT ![id] =
       [studio |-> q, number |-> v.number, status |-> v.status, prices |-> v.prices]]
  /\ publications' = [p \in PublicationIds |->
                       IF p \in DOMAIN new THEN new[p] ELSE publications[p]]

CreateMenuStudio(q, shop, id, v) ==
  /\ studios[q] = None
  /\ insertMenuStudioVersion(q, shop, id, v)
  /\ studios' = [studios EXCEPT ![q] =
       IF v.status = "published" THEN [shop |-> shop, status |-> "published", current |-> id, version |-> 1]
       ELSE [shop |-> shop, status |-> "draft", current |-> None, version |-> 1]]
  /\ Audited /\ UNCHANGED <<channelVars, guestOrderVars>>

handleCreateMenuStudio(q, shop, id, v) == validMenuVersion(v, TRUE) /\ CreateMenuStudio(q, shop, id, v)

\* A draft leaves the studio's row, and its version, as they are.
AddMenuStudioVersion(q, shop, id, v, expected) ==
  /\ Exists(studios, q) /\ studios[q].shop = shop /\ studios[q].version = expected
  /\ NextNumber(v.number, {row.number : row \in {w \in Rows(menuVersions) : w.studio = q}})
  /\ insertMenuStudioVersion(q, shop, id, v)
  /\ studios' = IF v.status # "published" THEN studios
                ELSE [studios EXCEPT ![q].status = "published", ![q].current = id, ![q].version = @ + 1]
  /\ Audited /\ UNCHANGED <<channelVars, guestOrderVars>>

handleAddMenuStudioVersion(q, shop, id, v, expected) ==
  /\ expected >= 1 /\ validMenuVersion(v, FALSE)
  /\ AddMenuStudioVersion(q, shop, id, v, expected)
-----------------------------------------------------------------------------
(* Guests order from a link *)

InForce(row) == row.status = "live" /\ row.from <= clock /\ (row.to # None => row.to > clock)

\* The publications a link's channel may show at this time.
LivePublications(shop, channel) ==
  {p \in PublicationIds : /\ Exists(publications, p) /\ publications[p].shop = shop
                          /\ InForce(publications[p])
                          /\ menuVersions[publications[p].version].status = "published"
                          /\ publications[p].channel \in {None, channel}}

\* The channel's own publication before the outlet's, then the latest start, then the greatest id.
LiveMenuStudio(shop, channel) ==
  LET live == LivePublications(shop, channel)
      Precedes(p, r) ==
        LET a == publications[p]
            b == publications[r]
        IN \/ a.channel # None /\ b.channel = None
           \/ /\ (a.channel = None) = (b.channel = None)
              /\ a.from > b.from \/ (a.from = b.from /\ p >= r)
  IN IF live = {} THEN None
     ELSE publications[CHOOSE p \in live : \A r \in live : Precedes(p, r)].version

LinkOpen(l) == Exists(links, l) /\ links[l].active /\ (links[l].expires # None => links[l].expires > clock)

publicMenu(l) == IF LinkOpen(l) THEN LiveMenuStudio(links[l].shop, links[l].channel) ELSE None

\* lines is a function from items to quantities.
handleSubmitPublicOrder(client, l, version, lines, sellable) ==
  /\ Cardinality(submitting) < MaxSubmitting
  /\ publicMenu(l) # None /\ version = publicMenu(l)
  /\ DOMAIN lines # {} /\ DOMAIN lines \subseteq sellable \cap DOMAIN menuVersions[version].prices
  /\ submitting' = submitting \cup
       {[client |-> client, shop |-> links[l].shop, link |-> l, version |-> version, lines |-> lines]}
  /\ UNCHANGED <<audits, channelVars, menuVars, guestRequests, told>>

\* The version is its studio's current one and has a publication in force.
StillPublished(version, shop, channel) ==
  /\ \E q \in StudioIds : /\ Exists(studios, q) /\ studios[q].shop = shop
                          /\ studios[q].status = "published" /\ studios[q].current = version
  /\ \E p \in LivePublications(shop, channel) : publications[p].version = version

CostOf(prices, lines) == SumOf([i \in DOMAIN lines |-> prices[i] * lines[i]])
Quote(version, lines) == CostOf(menuVersions[version].prices, lines)

Priced(s) == [shop |-> s.shop, version |-> s.version, lines |-> s.lines, total |-> Quote(s.version, s.lines)]

Acceptable(s, sellable) ==
  /\ LinkOpen(s.link) /\ StillPublished(s.version, s.shop, links[s.link].channel)
  /\ DOMAIN s.lines \subseteq sellable
  /\ Priced(s).total \in Nat

\* Faulty: a repeated request is priced again.
SubmitGuestOrderRequestAgain(s, sellable) ==
  /\ submitting' = submitting \ {s}
  /\ IF Acceptable(s, sellable)
     THEN /\ guestRequests' = [guestRequests EXCEPT ![s.client] = Priced(s)]
          /\ told' = told \cup {[client |-> s.client, total |-> Priced(s).total]}
     ELSE UNCHANGED <<guestRequests, told>>
  /\ UNCHANGED <<audits, channelVars, menuVars>>

\* The outlet's stored request of the client is answered again, whatever it sends now; a
\* new one is priced from the version.  A refused submission leaves nothing behind: so is
\* one whose client is stored by another outlet, or by a submission that committed after
\* this one looked (client_request_id is unique in the tenant).
SubmitGuestOrderRequest(s, sellable) ==
  LET known == guestRequests[s.client] IN
  /\ submitting' = submitting \ {s}
  /\ \/ /\ known # None /\ known.shop = s.shop
        /\ told' = told \cup {[client |-> s.client, total |-> known.total]}
        /\ UNCHANGED guestRequests
     \/ /\ known = None /\ Acceptable(s, sellable)
        /\ guestRequests' = [guestRequests EXCEPT ![s.client] = Priced(s)]
        /\ told' = told \cup {[client |-> s.client, total |-> Priced(s).total]}
     \/ /\ known = None => ~Acceptable(s, sellable)
        /\ UNCHANGED <<guestRequests, told>>
  /\ UNCHANGED <<audits, channelVars, menuVars>>
-----------------------------------------------------------------------------
OrderingInit ==
  /\ studios = [q \in StudioIds |-> None] /\ menuVersions = [v \in MenuVersionIds |-> None]
  /\ publications = [p \in PublicationIds |-> None]
  /\ submitting = {} /\ guestRequests = [r \in RequestIds |-> None] /\ told = {}

\* A version with one item, which the second version reprices, and at most one publication.
MenuInput ==
  {v \in [number : {1, 2}, status : {"draft", "published"},
          prices : UNION {[{i} -> {1, 2}] : i \in DOMAIN ItemShop},
          publications : {<<>>} \cup [Fresh(publications) ->
            [channel : {None} \cup ChannelIds, status : {"live", "paused"}, from : {1}, to : {None, 2}]]] :
     \A i \in DOMAIN v.prices : v.prices[i] = v.number}

MenuNext ==
  \/ \E q \in StudioIds, s \in Shops, id \in Fresh(menuVersions), v \in MenuInput :
       handleCreateMenuStudio(q, s, id, v)
  \/ \E q \in StudioIds, s \in Shops, id \in Fresh(menuVersions), v \in MenuInput, expected \in 1..2 :
       handleAddMenuStudioVersion(q, s, id, v, expected)

GuestOrderNext ==
  \/ \E client \in RequestIds, l \in LinkIds, version \in MenuVersionIds, i \in DOMAIN ItemShop, n \in {1, 2},
        sellable \in {{}, DOMAIN ItemShop} : handleSubmitPublicOrder(client, l, version, [j \in {i} |-> n], sellable)
  \/ \E s \in submitting, sellable \in {{}, DOMAIN ItemShop} : SubmitGuestOrderRequest(s, sellable)

\* The order desk and the menu beside what connects the outlet.
OrderingNext ==
  \/ ChannelsNext /\ UNCHANGED orderingVars
  \/ MenuNext \/ GuestOrderNext
OrderingSpec ==
  ChannelsInit /\ OrderingInit /\ audits = 0 /\ [][OrderingNext]_<<audits, channelVars, orderingVars>>
-----------------------------------------------------------------------------
(* Properties *)

\* A guest whose browser sends a request again, with the same or other lines, while the menu
\* is repriced and the link expires, is never told two totals, and what it was told is what
\* is stored and what its version costs (SubmitGuestOrderRequest).
GuestQuoteStable ==
  /\ \A t \in told : guestRequests[t.client] # None /\ guestRequests[t.client].total = t.total
  /\ \A r \in Rows(guestRequests) :
       r.total = Quote(r.version, r.lines) /\ menuVersions[r.version].status = "published"
=============================================================================
