----------------------------- MODULE MCServices -----------------------------
(***************************************************************************)
(* Instances for TLC of the services whose promises are of safety, with    *)
(* two requests at work in each.  They share no state, so a behaviour is   *)
(* of one of them, `part`, and the others stay as they start; restaurants  *)
(* and menus are two services of Catalog that share nothing either.        *)
(***************************************************************************)
EXTENDS Orders, Checkout, Credentials, PhoneCodes, Catalog, Images, Categories,
        Settlement, Consumer, OrderSync, Shift, Freshness, Notifications,
        Pricing, Seeding, Listing, TLC

CONSTANTS r1, r2, x1, x2, i1, i2, k1, junk, owner, sara, omar, palace, mains

VARIABLE part

Slots == {r1, r2}
Things == {x1, x2}
OneKey == {k1}
Scores == {1, 5}
JunkOnly == {junk}
Places == [x \in {i1, i2} |-> x]
MenuItems == {i1, i2}
\* Fees that split evenly, with a piaster left over, into nothing, and not at all.
Policies == {[fee |-> 2500, share |-> 50, cancelShare |-> 25],
             [fee |-> 3333, share |-> 33, cancelShare |-> 67],
             [fee |-> 1, share |-> 50, cancelShare |-> 100],
             [fee |-> 0, share |-> 100, cancelShare |-> 0]}
Accounts == {owner, sara, omar}
Eateries == {palace}
Headings == {mains}
AllAtPalace == [n \in Headings \cup MenuItems |-> palace]
PalaceOpens == [r \in Eateries |-> "OPEN"]
Symmetry == Permutations(Slots) \cup Permutations(Things)

servicesVars == <<ordersVars, checkoutVars, credentialsVars, phoneVars, catalogVars,
                  imagesVars, categoryVars, settlementVars, groupVars, syncVars,
                  shiftVars, freshVars, notificationsVars, pricingVars, seedVars, listingVars, part>>

Parts == {"orders", "checkout", "credentials", "phone", "restaurants", "menus",
          "images", "categories", "settlement", "consumer", "sync", "shift",
          "freshness", "notifications", "pricing", "seeding", "listing"}

ServicesInit ==
  /\ part \in Parts
  /\ OrdersInit /\ CheckoutInit /\ CredentialsInit /\ PhoneInit /\ CatalogInit
  /\ ImagesInit /\ CategoriesInit /\ SettlementInit /\ OrderSyncInit /\ ShiftInit
  /\ FreshnessInit /\ NotificationsInit /\ PricingInit
  /\ part # "pricing" => policy.fee = 2500
  /\ SeedingInit /\ (part = "seeding" \/ script = "demo")
  /\ ListingInit /\ filter \in {"any", "active"}
  /\ part # "listing" => /\ kind = "inbox" /\ filter = "any"
                        /\ \A n \in PageRow : key[n] = 0
  /\ ConsumerInit /\ assignee = NoClaim \* one process of the group joins, then the other

\* The others stay as they start.
ServicesRest ==
  /\ part # "orders" => UNCHANGED ordersVars
  /\ part # "checkout" => UNCHANGED checkoutVars
  /\ part # "credentials" => UNCHANGED credentialsVars
  /\ part # "phone" => UNCHANGED phoneVars
  /\ part \notin {"restaurants", "menus"} => UNCHANGED catalogVars
  /\ part # "images" => UNCHANGED imagesVars
  /\ part # "categories" => UNCHANGED categoryVars
  /\ part # "settlement" => UNCHANGED settlementVars
  /\ part # "consumer" => UNCHANGED groupVars
  /\ part # "sync" => UNCHANGED syncVars
  /\ part # "shift" => UNCHANGED shiftVars
  /\ part # "freshness" => UNCHANGED freshVars
  /\ part # "notifications" => UNCHANGED notificationsVars
  /\ part # "pricing" => UNCHANGED pricingVars
  /\ part # "seeding" => UNCHANGED seedVars
  /\ part # "listing" => UNCHANGED listingVars

\* Two states differ only in the part that moves.
ServicesView ==
  <<part,
    CASE part = "orders" -> ordersVars [] part = "checkout" -> checkoutVars
      [] part = "credentials" -> credentialsVars [] part = "phone" -> phoneVars
      [] part \in {"restaurants", "menus"} -> catalogVars [] part = "images" -> imagesVars
      [] part = "categories" -> categoryVars [] part = "settlement" -> settlementVars
      [] part = "consumer" -> groupVars [] part = "sync" -> syncVars
      [] part = "shift" -> shiftVars [] part = "freshness" -> freshVars
      [] part = "notifications" -> notificationsVars [] part = "pricing" -> pricingVars
      [] part = "seeding" -> seedVars
      [] part = "listing" -> listingVars>>

\* Bound: others read a menu, and its copy expires, while a run is over the restaurant;
\* a slow reader has cached what it read, and the copy has expired, when orders begin.
browsed ==
  /\ OthersStep => seed.pc \in {"eatery", "menu"}
  /\ seed'.pc \notin {"none", "accounts", "catalog", "eatery", "menu"} =>
       \A r \in Eatery : reader'[r] = {} /\ copy'[r] = {}

asks(documents) == \A c \in Client : call'[c].pc = "idle" \/ call'[c].doc \in documents

ServicesNext ==
  /\ UNCHANGED part
  /\ ServicesRest
  /\ \/ part = "orders" /\ OrdersNext
     \/ part = "checkout" /\ CheckoutNext
     \/ part = "credentials" /\ CredentialsNext
     \/ part = "phone" /\ PhoneNext
     \/ part = "restaurants" /\ CatalogNext /\ asks({"restaurant"})
     \/ part = "menus" /\ CatalogNext /\ asks({"menu", "menuitem"})
     \/ part = "images" /\ ImagesNext
     \/ part = "categories" /\ CategoriesNext
     \/ part = "settlement" /\ SettlementNext
     \/ part = "consumer" /\ ConsumerNext /\ ToSet(log') \subseteq EventNo
     \/ part = "sync" /\ OrderSyncNext
     \/ part = "shift" /\ ShiftNext
     \/ part = "freshness" /\ FreshnessNext
     \/ part = "notifications" /\ NotificationsNext
     \/ part = "pricing" /\ PricingNext
     \/ part = "seeding" /\ SeedingNext /\ browsed
     \/ part = "listing" /\ ListingNext

ServicesSpec == ServicesInit /\ [][ServicesNext]_servicesVars
=============================================================================
