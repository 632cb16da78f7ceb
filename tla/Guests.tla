------------------------------- MODULE Guests -------------------------------
(***************************************************************************)
(* Guests in PostgreSQL: profiles and consent, reservations, promotions    *)
(* and loyalty (store/postgres_guest_growth.go behind api/guest_growth.go, *)
(* tables of migrations/000012), for one outlet.  Rows are locked before   *)
(* they are changed, so each transaction is a step.  The clock is a date.  *)
(***************************************************************************)
EXTENDS AuditTrail

CONSTANTS
  GuestIds, ReservationIds, PromotionIds,
  Phones,          \* the phone numbers guests give
  MaxPoints,       \* bound: points in a request
  MaxToday         \* bound: the date

\* The rows of guest_profiles, loyalty_accounts and promotions.
GuestProfile == [phone : Phones \cup {None}, consent : BOOLEAN, version : Nat]
LoyaltyAccount == [balance : Nat, lifetime : Nat, version : Nat]
Promotion == [starts : Nat, ends : Nat, type : {"percentage", "fixed"}, value : Nat, minimum : Nat,
              limit : Nat \cup {None}, count : Nat]

ASSUME GuestsAssumption == None \notin GuestProfile \cup LoyaltyAccount \cup Promotion

VARIABLES
  today,           \* the date recorded_at falls on
  guests,          \* guest_profiles
  consentEvents,   \* guest_consent_events
  reservations,
  promotions, redemptions,
  accounts,        \* loyalty_accounts, by guest
  loyaltyEvents

guestVars == <<today, guests, consentEvents, reservations, promotions, redemptions, accounts, loyaltyEvents>>
-----------------------------------------------------------------------------
(* Profiles and consent *)

\* A guest's account is opened with the profile.
CreateGuest(g, phone, consent) ==
  /\ guests[g] = None /\ (phone # None => \A row \in Rows(guests) : row.phone # phone)
  /\ guests' = [guests EXCEPT ![g] = [phone |-> phone, consent |-> consent, version |-> 1]]
  /\ accounts' = [accounts EXCEPT ![g] = [balance |-> 0, lifetime |-> 0, version |-> 1]]
  /\ consentEvents' = IF consent THEN consentEvents \cup {[op |-> audits, guest |-> g, granted |-> TRUE]}
                      ELSE consentEvents
  /\ Audited /\ UNCHANGED <<today, reservations, promotions, redemptions, loyaltyEvents>>

handleCreateGuest(g, phone, consent) == CreateGuest(g, phone, consent)

\* Faulty: withdrawing consent is not recorded as an event.
SetGuestConsentUnrecorded(g, granted, expected) ==
  /\ Exists(guests, g) /\ guests[g].version = expected
  /\ guests' = [guests EXCEPT ![g].consent = granted, ![g].version = expected + 1]
  /\ consentEvents' = IF granted THEN consentEvents \cup {[op |-> audits, guest |-> g, granted |-> TRUE]}
                      ELSE consentEvents
  /\ Audited /\ UNCHANGED <<today, reservations, promotions, redemptions, accounts, loyaltyEvents>>

SetGuestConsent(g, granted, expected) ==
  /\ Exists(guests, g) /\ guests[g].version = expected
  /\ guests' = [guests EXCEPT ![g].consent = granted, ![g].version = expected + 1]
  /\ consentEvents' = consentEvents \cup {[op |-> audits, guest |-> g, granted |-> granted]}
  /\ Audited /\ UNCHANGED <<today, reservations, promotions, redemptions, accounts, loyaltyEvents>>

handleGuestConsent(g, granted, expected) == expected >= 1 /\ SetGuestConsent(g, granted, expected)
-----------------------------------------------------------------------------
(* Reservations *)

CreateReservation(r, v) ==
  /\ reservations[r] = None /\ (v.guest # None => Exists(guests, v.guest))
  /\ reservations' = [reservations EXCEPT ![r] = v]
  /\ Audited /\ UNCHANGED <<today, guests, consentEvents, promotions, redemptions, accounts, loyaltyEvents>>

handleCreateReservation(r, g, size, status) ==
  /\ size \in 1..100 /\ status \in {None, "booked", "waiting"}
  /\ CreateReservation(r, [guest |-> g, status |-> IF status = None THEN "booked" ELSE status, version |-> 1])

TransitionReservation(r, status, expected) ==
  /\ Exists(reservations, r) /\ reservations[r].version = expected
  /\ \/ reservations[r].status \in {"booked", "waiting"} /\ status \in {"seated", "cancelled", "no_show"}
     \/ reservations[r].status = "booked" /\ status = "waiting"
     \/ reservations[r].status = "seated" /\ status = "completed"
  /\ reservations' = [reservations EXCEPT ![r].status = status, ![r].version = expected + 1]
  /\ Audited /\ UNCHANGED <<today, guests, consentEvents, promotions, redemptions, accounts, loyaltyEvents>>

handleReservationTransition(r, status, expected) == expected >= 1 /\ TransitionReservation(r, status, expected)
-----------------------------------------------------------------------------
(* Promotions *)

CreatePromotion(p, v) ==
  /\ promotions[p] = None
  /\ promotions' = [promotions EXCEPT ![p] = v]
  /\ Audited /\ UNCHANGED <<today, guests, consentEvents, reservations, redemptions, accounts, loyaltyEvents>>

\* A percentage is in hundredths of a percent.
handleCreatePromotion(p, v) ==
  /\ v.ends > v.starts /\ v.value >= 1 /\ v.type \in {"percentage", "fixed"}
  /\ v.type = "percentage" => v.value <= 10000
  /\ CreatePromotion(p, v)

\* The promotion's row is locked while its count is compared and raised.
RedeemPromotion(p, basket) ==
  /\ Exists(promotions, p)
  /\ LET v == promotions[p]
         discount == IF v.type = "percentage" THEN (basket * v.value) \div 10000 ELSE v.value
     IN
     /\ v.starts <= today /\ today < v.ends /\ basket >= v.minimum
     /\ v.limit # None => v.count < v.limit
     /\ redemptions' = redemptions \cup
          {[op |-> audits, promotion |-> p, basket |-> basket,
            discount |-> IF discount > basket THEN basket ELSE discount]}
     /\ promotions' = [promotions EXCEPT ![p].count = @ + 1]
  /\ Audited /\ UNCHANGED <<today, guests, consentEvents, reservations, accounts, loyaltyEvents>>

handleRedeemPromotion(p, basket) == basket >= 1 /\ RedeemPromotion(p, basket)
-----------------------------------------------------------------------------
(* Loyalty *)

AdjustLoyalty(g, type, delta, expected) ==
  /\ Exists(accounts, g) /\ accounts[g].version = expected
  /\ accounts[g].balance + delta >= 0
  /\ accounts' = [accounts EXCEPT ![g].balance = @ + delta, ![g].version = expected + 1,
                                  ![g].lifetime = @ + IF delta > 0 THEN delta ELSE 0]
  /\ loyaltyEvents' = loyaltyEvents \cup {[op |-> audits, guest |-> g, type |-> type, delta |-> delta]}
  /\ Audited /\ UNCHANGED <<today, guests, consentEvents, reservations, promotions, redemptions>>

handleLoyaltyEvent(g, type, delta, expected) ==
  /\ expected >= 1 /\ delta # 0
  /\ type \in {"earn", "redeem", "adjustment", "expiry"}
  /\ (type = "earn" => delta > 0) /\ (type = "redeem" => delta < 0)
  /\ AdjustLoyalty(g, type, delta, expected)
-----------------------------------------------------------------------------
\* Time passes.
Tomorrow ==
  /\ today < MaxToday
  /\ today' = today + 1
  /\ UNCHANGED <<audits, guests, consentEvents, reservations, promotions, redemptions, accounts, loyaltyEvents>>

GuestInit ==
  /\ today = 1
  /\ guests = [g \in GuestIds |-> None] /\ accounts = [g \in GuestIds |-> None]
  /\ reservations = [r \in ReservationIds |-> None]
  /\ promotions = [p \in PromotionIds |-> None]
  /\ consentEvents = {} /\ redemptions = {} /\ loyaltyEvents = {}

\* Two units, or two hundredths of a percent, and fifty percent.
DiscountInput == {2, 5000}

GuestNext ==
  \/ \E g \in Fresh(guests), phone \in Phones \cup {None}, b \in BOOLEAN : handleCreateGuest(g, phone, b)
  \/ \E g \in GuestIds, b \in BOOLEAN, v \in 1..MaxOps : handleGuestConsent(g, b, v)
  \/ \E r \in ReservationIds, g \in GuestIds \cup {None}, status \in {None, "booked", "waiting"} :
       handleCreateReservation(r, g, 2, status)
  \/ \E r \in ReservationIds, v \in 1..MaxOps,
        status \in {"waiting", "seated", "cancelled", "no_show", "completed"} : handleReservationTransition(r, status, v)
  \/ \E p \in PromotionIds, ends \in 1..MaxToday, type \in {"percentage", "fixed"}, value \in DiscountInput, limit \in {None, 1} :
       handleCreatePromotion(p, [starts |-> 1, ends |-> ends, type |-> type, value |-> value, minimum |-> 2,
                                 limit |-> limit, count |-> 0])
  \/ \E p \in PromotionIds, basket \in {1, 3} : handleRedeemPromotion(p, basket)
  \/ \E g \in GuestIds, type \in {"earn", "redeem", "adjustment", "expiry"}, delta \in (-MaxPoints)..MaxPoints,
        v \in 1..MaxOps : handleLoyaltyEvent(g, type, delta, v)
  \/ Tomorrow

GuestSpec == GuestInit /\ audits = 0 /\ [][GuestNext]_<<audits, guestVars>>
-----------------------------------------------------------------------------
(* Properties *)

\* Every running figure is what its history adds up to: a guest's consent is
\* the last event about it (none means no consent), an account's balance and
\* lifetime points come from its events and never fell below zero on the way,
\* and a promotion was redeemed as often as it counts, within its limit and
\* never for more than the basket (SetGuestConsent, AdjustLoyalty, RedeemPromotion).
HistoriesAgree ==
  /\ \A g \in GuestIds : Exists(guests, g) =>
       LET events == {e \in consentEvents : e.guest = g}
           points == {e \in loyaltyEvents : e.guest = g}
           sum(S) == SumOf([e \in S |-> e.delta])
       IN
       /\ guests[g].consent = (\E e \in events : e.granted /\ \A f \in events : f.op <= e.op)
       /\ accounts[g].balance = sum(points)
       /\ accounts[g].lifetime = sum({e \in points : e.delta > 0})
       /\ \A e \in points : sum({f \in points : f.op <= e.op}) >= 0
  /\ \A p \in PromotionIds : Exists(promotions, p) =>
       LET uses == {e \in redemptions : e.promotion = p} IN
       /\ Cardinality(uses) = promotions[p].count
       /\ promotions[p].limit # None => promotions[p].count <= promotions[p].limit
       /\ \A e \in uses : e.discount <= e.basket
=============================================================================
