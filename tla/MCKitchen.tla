----------------------------- MODULE MCKitchen ------------------------------
(***************************************************************************)
(* TLC instance of the edge's kitchen: its tables under any number of      *)
(* commands, and behind a browser that shares it with other devices.       *)
(***************************************************************************)
EXTENDS Browser, FiniteSetsExt, TLC

CONSTANT MaxVersions   \* bound: tickets of the browser's kitchen, and versions of its rows

VARIABLE focus

Symmetry == Permutations(Orders) \cup Permutations(Tickets)

\* Bounds of the browser's instance: one order without a reference, with one ticket that
\* may move twice at the edge or with two tickets of which one moves.
Used(table) == {r \in DOMAIN table : table[r] # None}
Sum(version) == MapThenSumSet(LAMBDA r : version[r], DOMAIN version)
Small ==
  /\ Cardinality(Used(orderStatus) \cup Used(shown)) <= 1
  /\ Cardinality(Used(ticketOrder) \cup Used(shownTickets)) <= 2
  /\ \A o \in Orders : orderRef[o] = None /\ (shown[o] # None => shown[o].ref = None)
  /\ Sum(orderVersion) + Sum(ticketVersion) + Cardinality(Used(ticketOrder)) <= MaxVersions

Init == KitchenInit /\ BrowserInit /\ focus \in {"kitchen", "browser"}

Next ==
  /\ UNCHANGED focus
  /\ \/ focus = "kitchen" /\ KitchenNext /\ UNCHANGED browserVars
     \/ focus = "browser" /\ BrowserNext /\ Small'

Spec == Init /\ [][Next]_<<kitchenVars, browserVars, focus>>
=============================================================================
