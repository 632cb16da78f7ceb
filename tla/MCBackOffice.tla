---------------------------- MODULE MCBackOffice ----------------------------
(***************************************************************************)
(* The back office of core on a small instance.  Its parts share only the  *)
(* audit trail, save that purchasing, transfers and production share the   *)
(* ledger and the recipe graph.  A behaviour exercises one focus, chosen   *)
(* at the start, to the depth that its properties need, so that the sizes  *)
(* of independent parts add up instead of multiplying.                     *)
(***************************************************************************)
EXTENDS Registry, CashDesk, DailyOps, Guests, Operations, Ordering, TLC

CONSTANTS t1, t2, o1, o2, b1, s1, k1, d1, l1

VARIABLE focus

\* Sums counted unit by unit are the sums that folding computes.
Sets == INSTANCE FiniteSetsExt
ASSUME SumsAgree ==
  \A S \in SUBSET (1..3) : \A f \in [S -> -3..3] : SumOf(f) = Sets!MapThenSumSet(LAMBDA x : f[x], S)

MCItem(price, station, options) ==
  [price |-> price, station |-> station, active |-> TRUE, options |-> options]
MCOption(id, delta) ==
  [id |-> id, group |-> "size", delta |-> delta, active |-> id # "none", min |-> 0, max |-> 1]
MCCatalog ==
  None :> [i \in Items |-> MCItem(1, "HOT", {})] @@
  "v1" :> ("idli" :> MCItem(1, "HOT", {MCOption("extra", 1), MCOption("none", 0)}) @@
           "tea" :> MCItem(2, "COLD", {}))
MCPlaced == 1 :> 2

MCUnits == "g" :> [dim |-> "mass", num |-> 1, den |-> 1] @@ "kg" :> [dim |-> "mass", num |-> 2, den |-> 1]
MCIngredients == "rice" :> "g" @@ "batter" :> "g"
MCVersions ==
  "v1" :> [recipe |-> "r1", number |-> 1, yield |-> 1, unit |-> "g", from |-> 1, to |-> None,
           components |-> {[ingredient |-> "rice", child |-> None, quantity |-> 1, unit |-> "kg"]}]
MCOpening == "s1" :> ("rice" :> 3 @@ "batter" :> 0 @@ "egg" :> 0) @@
             "s2" :> ("rice" :> 0 @@ "batter" :> 0 @@ "egg" :> 0)
MCChannels == 1 :> [shop |-> "a", code |-> "web"]
MCConnectors == 1 :> [shop |-> "a", channel |-> 1, provider |-> "aggregator", status |-> "healthy"]
MCLinks == 1 :> [shop |-> "a", channel |-> 1, slug |-> "qr", active |-> TRUE, expires |-> 2]
MCShopOrders == "n1" :> "a" @@ "n2" :> "b"
MCItemShop == "dosa" :> "a" @@ "vada" :> "b"
MCChecklistItems == "hands" :> TRUE @@ "flowers" :> FALSE

\* The outlets of the registry are interchangeable.
Symmetry == Permutations({o1, o2})

\* Bound: the mutations of a behaviour, by focus.
Depth == [registry |-> 4, service |-> 7, dining |-> 8, cash |-> 4, checkout |-> 4,
          graph |-> 3, ledger |-> 2, transfer |-> 5, batch |-> 4, rule |-> 3,
          purchase |-> 5, floor |-> 4, guest |-> 4,
          case |-> 5, control |-> 4, inbox |-> 4, profile |-> 3, menu |-> 3]

pantryVars == <<graphVars, stockVars, dailyVars>>
remoteVars == <<opsVars, channelVars, orderingVars>>
vars == <<audits, focus, registryVars, cashDeskVars, pantryVars, guestVars, remoteVars>>

Init ==
  /\ RegistryInit /\ CashDeskInit /\ GraphInit /\ StockInit /\ DailyInit /\ GuestInit
  /\ OperationsInit /\ ChannelsInit /\ OrderingInit
  /\ audits = 0 /\ focus \in DOMAIN Depth
  /\ focus \notin {"registry", "service"} => repo = "postgres"

Within(f) == focus = f /\ audits < Depth[f] /\ UNCHANGED focus
RegistryOnly == UNCHANGED <<cashDeskVars, pantryVars, guestVars, remoteVars>>
CashDeskOnly == UNCHANGED <<registryVars, pantryVars, guestVars, remoteVars>>
RemoteOnly == UNCHANGED <<registryVars, cashDeskVars, pantryVars, guestVars>>
PantryOnly == UNCHANGED <<registryVars, cashDeskVars, guestVars, remoteVars>>

Next ==
  \/ Within("registry") /\ (SetupNext \/ ProvisionNext \/ ServiceNext) /\ RegistryOnly
  \/ /\ focus = "registry" /\ \E id \in OrderIds : Exists(orders, id)
     /\ PagingNext /\ RegistryOnly /\ UNCHANGED focus
  \/ Within("service") /\ (ProvisionNext \/ ServiceNext) /\ RegistryOnly
     /\ \A id \in OrderIds \ {1} : orders'[id] = None
  \/ Within("dining") /\ DiningNext /\ CashDeskOnly
  \/ /\ Within("cash") /\ (CashNext \/ CaptureNext) /\ CashDeskOnly
     /\ audits' + Cardinality(captures') <= Depth["cash"]
  \/ Within("checkout") /\ (CashNext \/ CheckoutNext) /\ CashDeskOnly
  \/ Within("graph") /\ GraphNext /\ PantryOnly /\ UNCHANGED <<stockVars, dailyVars>>
  \/ Within("ledger") /\ LedgerNext /\ PantryOnly /\ UNCHANGED dailyVars
  \/ Within("transfer") /\ TransferNext /\ PantryOnly /\ UNCHANGED dailyVars
  \/ /\ Within("transfer") /\ \E x \in TransferIds : Exists(transfers, x)
     /\ Movement({"transfer_out", "reversal"}, {"g"}, TransferIds) /\ PantryOnly /\ UNCHANGED dailyVars
  \/ Within("batch") /\ BatchNext /\ PantryOnly /\ UNCHANGED dailyVars
  \/ Within("rule") /\ (RuleNext \/ TransferNext) /\ PantryOnly /\ UNCHANGED dailyVars
  \/ /\ Within("purchase") /\ PurchaseNext
     /\ PantryOnly /\ UNCHANGED <<graphVars, counts, transfers, batches, rules>>
  \/ /\ Within("floor") /\ FloorNext
     /\ PantryOnly /\ UNCHANGED <<graphVars, counts, transfers, batches, rules>>
  \/ Within("guest") /\ GuestNext /\ UNCHANGED <<registryVars, cashDeskVars, pantryVars, remoteVars>>
  \/ Within("case") /\ CaseNext /\ RemoteOnly /\ UNCHANGED <<channelVars, orderingVars>>
  \/ Within("control") /\ ControlNext /\ RemoteOnly /\ UNCHANGED <<channelVars, orderingVars>>
  \/ Within("inbox") /\ InboxNext /\ RemoteOnly /\ UNCHANGED <<opsVars, orderingVars>>
  \/ Within("profile") /\ (ConnectNext \/ ProfileNext) /\ RemoteOnly /\ UNCHANGED <<opsVars, orderingVars>>
  \/ /\ Within("menu") /\ (ProfileNext \/ Tick) /\ clock' <= 2
     /\ RemoteOnly /\ UNCHANGED <<opsVars, orderingVars, capacity, profiles, hardware, runbooks>>
  \/ Within("menu") /\ MenuNext /\ RemoteOnly /\ UNCHANGED opsVars
  \/ focus = "menu" /\ GuestOrderNext /\ RemoteOnly /\ UNCHANGED <<opsVars, focus>>

Spec == Init /\ [][Next]_vars
=============================================================================
