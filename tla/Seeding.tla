------------------------------- MODULE Seeding -------------------------------
(***************************************************************************)
(* The seeding scripts (scripts/seed.ts, seed-demo.ts, seed-e2e.ts and     *)
(* their lib/gateway-seed.ts): a run fills the platform through its public *)
(* API, call by call, and whoever started it runs it again when a call     *)
(* failed, a wait timed out or it was killed.  Meanwhile the platform moves *)
(* orders and assigns drivers on its own.                                  *)
(*                                                                         *)
(* A menu is read through the platform's copy of it (60 s), which a write  *)
(* drops after its row, a lost drop leaves and a slow reader brings back;  *)
(* the restaurant is looked up among the owner's, by seed.ts on the first  *)
(* page of everyone's.                                                     *)
(*                                                                         *)
(* One run at a time, as the scripts are used: nobody else edits what it   *)
(* seeds or owns a restaurant of a seeded name, and what a stopped run had *)
(* sent is done before the next one looks.  It starts on a platform that   *)
(* has come to rest: no order is about to change its status.  A 429 is     *)
(* retried by send and changes nothing.                                    *)
(***************************************************************************)
EXTENDS Lifecycle, Integers, Sequences, FiniteSets, SequencesExt

CONSTANTS
  Account, CustomerA, CustomerB,    \* accounts by email; the two that order
  Eatery, Heading, Food,            \* the catalog to seed, by name
  eateryOf,                         \* the restaurant of each heading and dish
  SoldOut,                          \* dishes seeded as not available
  doorOf,                           \* the status each restaurant is seeded with
  MaxRuns                           \* bound: runs started

ASSUME SeedingAssumption ==
  /\ {CustomerA, CustomerB} \subseteq Account /\ CustomerA # CustomerB
  /\ Eatery \cap (Heading \cup Food) = {} /\ Heading \cap Food = {}
  /\ eateryOf \in [Heading \cup Food -> Eatery] /\ SoldOut \subseteq Food
  /\ doorOf \in [Eatery -> {"OPEN", "BUSY", "CLOSED"}] /\ MaxRuns \in Nat

VARIABLES
  script,     \* which of the scripts is used
  accounts,   \* accounts registered
  made,       \* how many of each name were created
  stock,      \* names that the newest restaurant of each name holds
  available,  \* its dishes on offer
  door,       \* each restaurant's status
  pictured,   \* restaurants with a cover
  copy,       \* the cached menu of each restaurant: {} or {a menu}
  reader,     \* the rows somebody's GET of it has read and not yet cached
  crowded,    \* restaurants pushed off the first page by newer ones
  hidden,     \* history: restaurants a lost drop, a slow reader or the page has hidden rows of
  shift,      \* the seeded driver's status
  basket,       \* lines in each customer's cart
  seeded,     \* the orders, oldest first
  seed,       \* the run
  attempts,    \* runs started
  complete    \* a run has finished

rowsSeeded == <<made, stock, available>>
catalogSeeded == <<rowsSeeded, door, pictured, copy, reader, crowded, hidden>>
seedVars == <<script, accounts, catalogSeeded, shift, basket, seeded, seed, attempts, complete>>

Script == {"base", "demo", "e2e"}
Name == Eatery \cup Heading \cup Food
NoProfileYet == "none"

\* The order scenarios of each script in its order: whose, and the status it is known by.
scenarios ==
  CASE script = "base" -> <<<<CustomerA, "DELIVERED">>>>
    [] script = "demo" -> <<<<CustomerA, "DELIVERED">>, <<CustomerA, "CANCELLED">>,
                            <<CustomerA, "FAILED">>, <<CustomerA, "PREPARING">>,
                            <<CustomerA, "PICKED_UP">>>>
    [] script = "e2e" -> <<<<CustomerA, "DELIVERED">>, <<CustomerA, "FAILED">>,
                           <<CustomerB, "CONFIRMED">>>>

NoRun == [pc |-> "none", more |-> FALSE, todo |-> {}, known |-> {}, offered |-> {},
          left |-> <<>>, eatery |-> "none", filled |-> 0, again |-> FALSE, had |-> 0]

\* Every order has the status the platform will leave it in.
settledPlatform == \A n \in DOMAIN seeded : seeded[n].coming = <<>>

\* What an order becomes when what is on the way has arrived.
destined(o) == IF o.coming = <<>> THEN o.status ELSE Last(o.coming)

SeedingInit ==
  /\ script \in Script
  /\ accounts = {} /\ made = [n \in Name |-> 0] /\ stock = {} /\ available = {}
  /\ door = [r \in Eatery |-> "CLOSED"] /\ pictured = {}
  /\ copy = [r \in Eatery |-> {}] /\ reader = [r \in Eatery |-> {}]
  /\ crowded = {} /\ hidden = {}
  /\ shift = NoProfileYet /\ basket = [c \in {CustomerA, CustomerB} |-> 0]
  /\ seeded = <<>> /\ seed = NoRun /\ attempts = 0 /\ complete = FALSE

running == seed.pc \notin {"none", "finished"}
reached(point) == seed.pc = point
to(point) == seed' = [seed EXCEPT !.pc = point]
current == Len(seeded) \* a run works on the order it placed last
customer == IF seed.left = <<>> THEN CustomerA ELSE Head(seed.left)[1]
goal == Head(seed.left)[2]
Lines == IF script = "demo" THEN 2 ELSE 1

-----------------------------------------------------------------------------
(* Accounts, the driver's profile and the catalog *)

StartRun(more) ==
  /\ ~running /\ attempts < MaxRuns /\ settledPlatform /\ (more => script = "demo")
  /\ attempts' = attempts + 1
  /\ seed' = [NoRun EXCEPT !.pc = "accounts", !.more = more, !.todo = Account,
                           !.had = Len(seeded), !.again = complete /\ ~more]
  /\ UNCHANGED <<script, accounts, catalogSeeded, shift, basket, seeded, complete>>

\* A 401 from login means the account is not there yet.
loginOrRegister(a) ==
  /\ reached("accounts") /\ a \in seed.todo
  /\ accounts' = accounts \cup {a}
  /\ seed' = [seed EXCEPT !.todo = @ \ {a}]
  /\ UNCHANGED <<script, catalogSeeded, shift, basket, seeded, attempts, complete>>

ensureDriverProfile ==
  /\ reached("accounts") /\ seed.todo = {}
  /\ shift' = IF shift = NoProfileYet THEN "OFFLINE" ELSE shift
  /\ seed' = [seed EXCEPT !.pc = "catalog", !.todo = Eatery, !.known = {}]
  /\ UNCHANGED <<script, accounts, catalogSeeded, basket, seeded, attempts, complete>>

of(r) == {r} \cup {n \in Heading \cup Food : eateryOf[n] = r}

\* The restaurant among the owner's; seed.ts reads the newest 20 of all of them.
LookUp(r) ==
  /\ reached("catalog") /\ r \in seed.todo
  /\ seed' = [seed EXCEPT !.pc = "eatery", !.todo = @ \ {r}, !.eatery = r,
                          !.known = {r} \cap (stock \ crowded), !.offered = {}]
  /\ UNCHANGED <<script, accounts, catalogSeeded, shift, basket, seeded, attempts, complete>>

here == seed.eatery
doorReady == script = "base" => door[here] = doorOf[here]

\* It has no row in common with one of that name that was not found.
CreateEatery ==
  /\ reached("eatery") /\ here \notin seed.known
  /\ made' = [made EXCEPT ![here] = @ + 1]
  /\ stock' = (stock \ of(here)) \cup {here} /\ available' = available \ of(here)
  /\ door' = [door EXCEPT ![here] = "CLOSED"] /\ pictured' = pictured \ {here}
  /\ copy' = [copy EXCEPT ![here] = {}] /\ reader' = [reader EXCEPT ![here] = {}]
  /\ crowded' = crowded \ {here}
  /\ seed' = [seed EXCEPT !.known = {here}]
  /\ UNCHANGED <<script, accounts, hidden, shift, basket, seeded, attempts, complete>>

menuOf(r) == [names |-> stock \cap of(r), offered |-> available \cap of(r)]

\* Mutant: an existing restaurant is found, its menu is not read.
ReadMenu_NoMenu ==
  /\ reached("eatery") /\ here \in seed.known /\ doorReady
  /\ to("menu")
  /\ UNCHANGED <<script, accounts, catalogSeeded, shift, basket, seeded, attempts, complete>>

\* The cached menu, or the rows, now cached; of two dishes of a name it takes either.
ReadMenu ==
  /\ reached("eatery") /\ here \in seed.known /\ doorReady
  /\ \E menu \in IF copy[here] = {} THEN {menuOf(here)} ELSE copy[here] :
       /\ copy' = [copy EXCEPT ![here] = {menu}]
       /\ \E unseen \in SUBSET {d \in menu.offered : made[d] > 1} :
            seed' = [seed EXCEPT !.pc = "menu", !.offered = menu.offered \ unseen,
                                 !.known = {here} \cup (@ \cap Heading) \cup menu.names]
  /\ UNCHANGED <<script, accounts, rowsSeeded, door, pictured, reader, crowded, hidden,
                 shift, basket, seeded, attempts, complete>>

\* After the row the cached menu is dropped; if Redis does not answer it stays, and the run ends.
dropsMenu(onward) ==
  \/ copy' = [copy EXCEPT ![here] = {}] /\ seed' = onward /\ UNCHANGED hidden
  \/ /\ seed' = NoRun /\ UNCHANGED copy
     /\ hidden' = IF copy[here] = {} THEN hidden ELSE hidden \cup {here}

\* The headings, then the dishes, on offer; seed.ts reads the menu again after its heading.
Create(n) ==
  /\ reached("menu") /\ n \in of(here) \ seed.known
  /\ n \in Food => of(here) \cap Heading \subseteq seed.known
  /\ made' = [made EXCEPT ![n] = @ + 1]
  /\ stock' = stock \cup {n} /\ available' = available \cup ({n} \cap Food)
  /\ dropsMenu([seed EXCEPT !.pc = IF script = "base" /\ n \in Heading THEN "eatery" ELSE @,
                        !.known = @ \cup {n}, !.offered = @ \cup ({n} \cap Food)])
  /\ UNCHANGED <<script, accounts, door, pictured, reader, crowded,
                 shift, basket, seeded, attempts, complete>>

\* A cover that cannot be uploaded is skipped.
tryImage ==
  /\ reached("eatery") /\ script = "demo" /\ here \in seed.known /\ here \notin pictured
  /\ pictured' = pictured \cup {here}
  /\ UNCHANGED <<script, accounts, rowsSeeded, door, copy, reader, crowded, hidden,
                 shift, basket, seeded, seed, attempts, complete>>

allKnown == of(here) \subseteq seed.known
wanted(d) == d \notin SoldOut

\* Decided on what the run read; the other dish of that name, if any, stays as it is.
SetAvailability(d) ==
  /\ reached("menu") /\ script # "base" /\ allKnown /\ d \in of(here) \cap Food
  /\ (d \in seed.offered) # wanted(d)
  /\ \/ wanted(d) /\ available' = available \cup {d}
     \/ ~wanted(d) /\ available' = available \ {d}
     \/ ~wanted(d) /\ made[d] > 1 /\ UNCHANGED available
  /\ dropsMenu([seed EXCEPT !.offered = IF wanted(d) THEN @ \cup {d} ELSE @ \ {d}])
  /\ UNCHANGED <<script, accounts, made, stock, door, pictured, reader, crowded,
                 shift, basket, seeded, attempts, complete>>

offeredAsWanted == \A d \in of(here) \cap Food : (d \in seed.offered) = wanted(d)

\* seed.ts opens the restaurant before it looks at the menu, the others at the end.
SetDoor ==
  /\ IF script = "base" THEN reached("eatery") /\ here \in seed.known
                        ELSE reached("menu") /\ allKnown /\ offeredAsWanted
  /\ door[here] # doorOf[here]
  /\ door' = [door EXCEPT ![here] = doorOf[here]]
  /\ UNCHANGED <<script, accounts, rowsSeeded, pictured, copy, reader, crowded, hidden,
                 shift, basket, seeded, seed, attempts, complete>>

CatalogDone ==
  /\ reached("menu") /\ allKnown /\ door[here] = doorOf[here]
  /\ script # "base" => offeredAsWanted
  /\ to(IF seed.todo = {} THEN "orders" ELSE "catalog")
  /\ UNCHANGED <<script, accounts, catalogSeeded, shift, basket, seeded, attempts, complete>>

-----------------------------------------------------------------------------
(* Others on the platform: readers of a menu, and owners of other restaurants *)

others == <<script, accounts, rowsSeeded, door, pictured, shift, basket, seeded, seed,
            attempts, complete>>

\* Nobody has cached the menu: a GET, or that of a run since stopped, reads the rows ...
BrowseReads(r) ==
  /\ r \in stock /\ copy[r] = {} /\ reader[r] = {}
  /\ reader' = [reader EXCEPT ![r] = {menuOf(r)}]
  /\ UNCHANGED <<others, copy, crowded, hidden>>

\* ... and caches them, whatever was written meanwhile.
BrowseCaches(r) ==
  /\ reader[r] # {}
  /\ copy' = [copy EXCEPT ![r] = reader[r]] /\ reader' = [reader EXCEPT ![r] = {}]
  /\ hidden' = IF reader[r] = {menuOf(r)} THEN hidden ELSE hidden \cup {r}
  /\ UNCHANGED <<others, crowded>>

MenuExpires(r) ==
  /\ copy[r] # {} /\ copy' = [copy EXCEPT ![r] = {}]
  /\ UNCHANGED <<others, reader, crowded, hidden>>

\* Other owners' restaurants fill the page that seed.ts looks at.
Crowd(r) ==
  /\ script = "base" /\ r \in stock \ crowded
  /\ crowded' = crowded \cup {r} /\ hidden' = hidden \cup {r}
  /\ UNCHANGED <<others, copy, reader>>

-----------------------------------------------------------------------------
(* The order scenarios *)

has(c, status) == \E n \in DOMAIN seeded : seeded[n].by = c /\ seeded[n].status = status

\* seed-demo.ts reads the customer's orders once; the others place theirs or look each time.
ReadOrders ==
  /\ reached("orders")
  /\ seed' = [seed EXCEPT !.pc = "next", !.left = scenarios,
               !.known = IF script = "demo" /\ ~seed.more
                           THEN {s \in OrderStatus : has(CustomerA, s)} ELSE {}]
  /\ UNCHANGED <<script, accounts, catalogSeeded, shift, basket, seeded, attempts, complete>>

scenarioDone(ofRun) == [ofRun EXCEPT !.pc = "next", !.left = Tail(@), !.filled = 0]

there == IF script = "demo" THEN goal \in seed.known ELSE has(customer, goal)

\* An order that is there is not placed again.
FindOrder ==
  /\ reached("next") /\ seed.left # <<>> /\ script # "base"
  /\ seed' = IF there THEN scenarioDone(seed) ELSE [seed EXCEPT !.pc = "clear"]
  /\ UNCHANGED <<script, accounts, catalogSeeded, shift, basket, seeded, attempts, complete>>

\* seed.ts wants its driver online first, and leaves the cart as it finds it.
BringOnline ==
  /\ reached("next") /\ seed.left # <<>> /\ script = "base"
  /\ shift \in {"OFFLINE", "AVAILABLE"} /\ shift' = "AVAILABLE"
  /\ to("fill")
  /\ UNCHANGED <<script, accounts, catalogSeeded, basket, seeded, attempts, complete>>

\* After the scenarios: the demo customer gets a full cart, the e2e customer an empty one.
ScenariosDone ==
  /\ reached("next") /\ seed.left = <<>>
  /\ IF script = "base" THEN /\ to("finished")
                             /\ complete' = TRUE
                        ELSE to("clear") /\ UNCHANGED complete
  /\ UNCHANGED <<script, accounts, catalogSeeded, shift, basket, seeded, attempts>>

DeleteCart ==
  /\ reached("clear")
  /\ basket' = [basket EXCEPT ![customer] = 0]
  /\ IF seed.left = <<>> /\ script = "e2e"
       THEN to("finished") /\ complete' = TRUE
       ELSE seed' = [seed EXCEPT !.pc = "fill", !.filled = 0] /\ UNCHANGED complete
  /\ UNCHANGED <<script, accounts, catalogSeeded, shift, seeded, attempts>>

AddLine ==
  /\ reached("fill")
  /\ basket' = [basket EXCEPT ![customer] = @ + 1]
  /\ IF seed.filled + 1 < Lines
       THEN seed' = [seed EXCEPT !.filled = @ + 1] /\ UNCHANGED complete
       ELSE IF seed.left = <<>> THEN to("finished") /\ complete' = TRUE
                                ELSE to("order") /\ UNCHANGED complete
  /\ UNCHANGED <<script, accounts, catalogSeeded, shift, seeded, attempts>>

\* A fresh Idempotency-Key each time: checkout orders what is in the cart and empties it.
PostOrder ==
  /\ reached("order")
  /\ seeded' = Append(seeded, [by |-> customer, lines |-> basket[customer], status |-> "CREATED",
                               coming |-> <<>>, ride |-> "none"])
  /\ basket' = [basket EXCEPT ![customer] = 0]
  /\ to("pay")
  /\ UNCHANGED <<script, accounts, catalogSeeded, shift, attempts, complete>>

outcome == IF goal = "FAILED" THEN "FAILED" ELSE "CONFIRMED"

\* What a call makes the platform do to the order, sooner or later.
brings(from, status, then) ==
  /\ reached(from)
  /\ seeded' = [seeded EXCEPT ![current].coming = Append(@, status)]
  /\ to(then)
  /\ UNCHANGED <<script, accounts, catalogSeeded, basket, attempts, complete>>

PostPayment == brings("pay", "PAYMENT_PENDING", "awaitPending") /\ UNCHANGED shift
Process == brings("process", outcome, "awaitOutcome") /\ UNCHANGED shift

waitForOrder(from, status, then) ==
  /\ reached(from) /\ seeded[current].status = status
  /\ seed' = IF then = "next" THEN scenarioDone(seed) ELSE [seed EXCEPT !.pc = then]
  /\ UNCHANGED <<script, accounts, catalogSeeded, shift, basket, seeded, attempts, complete>>

AwaitPending == waitForOrder("awaitPending", "PAYMENT_PENDING", "process")

AwaitOutcome ==
  waitForOrder("awaitOutcome", outcome,
    CASE goal \in {"FAILED", "CONFIRMED"} -> "next" [] goal = "CANCELLED" -> "cancel"
      [] OTHER -> "prepare")

-----------------------------------------------------------------------------
(* The restaurant's and the driver's part *)

patchOrder(from, status, then) ==
  /\ reached(from) /\ isTransitionAllowed(ORDER_TRANSITIONS, seeded[current].status, status)
  /\ seeded' = [seeded EXCEPT ![current].status = status]
  /\ seed' = IF then = "next" THEN scenarioDone(seed) ELSE [seed EXCEPT !.pc = then]
  /\ UNCHANGED <<script, accounts, catalogSeeded, shift, basket, attempts, complete>>

Cancel == patchOrder("cancel", "CANCELLED", "next")
Prepare == patchOrder("prepare", "PREPARING", IF goal = "PREPARING" THEN "next" ELSE "shift")

\* A driver who is BUSY cannot be cycled: the run throws.
prepareDriver ==
  /\ reached("shift")
  /\ \/ shift = "AVAILABLE" /\ shift' = "OFFLINE" /\ UNCHANGED seed
     \/ shift = "OFFLINE" /\ shift' = "AVAILABLE" /\ to("ready")
  /\ UNCHANGED <<script, accounts, catalogSeeded, basket, seeded, attempts, complete>>

Ready == patchOrder("ready", "READY_FOR_PICKUP", "awaitDriver")

\* A delivery of another driver's is no use: the run throws, here or at the pickup.
waitForAssignment ==
  /\ reached("awaitDriver") /\ seeded[current].ride = "ours"
  /\ to("pickup")
  /\ UNCHANGED <<script, accounts, catalogSeeded, shift, basket, seeded, attempts, complete>>

\* Starting the delivery shows the customer nothing new.
Pickup ==
  /\ brings("pickup", "PICKED_UP", IF goal = "PICKED_UP" THEN "awaitPickup" ELSE "complete")
  /\ UNCHANGED shift

AwaitPickup == waitForOrder("awaitPickup", "PICKED_UP", "next")

\* The driver is released with the delivery, or by the reconciliation later.
CompleteRide ==
  /\ reached("complete")
  /\ seeded' = [seeded EXCEPT ![current].coming = Append(@, "DELIVERED"), ![current].ride = "over"]
  /\ shift' \in {"AVAILABLE", "BUSY"}
  /\ seed' = IF script = "e2e" THEN scenarioDone(seed) ELSE [seed EXCEPT !.pc = "awaitDelivered"]
  /\ UNCHANGED <<script, accounts, catalogSeeded, basket, attempts, complete>>

AwaitDelivered == waitForOrder("awaitDelivered", "DELIVERED", "next")

\* A call fails, a wait times out, the process is killed: what was done stays.
Stop ==
  /\ running /\ seed' = NoRun
  /\ UNCHANGED <<script, accounts, catalogSeeded, shift, basket, seeded, attempts, complete>>

-----------------------------------------------------------------------------
(* The platform *)

rest == <<script, accounts, catalogSeeded, basket, seed, attempts, complete>>

Arrive(n) ==
  /\ seeded[n].coming # <<>>
  /\ seeded' = [seeded EXCEPT ![n].status = Head(seeded[n].coming), ![n].coming = Tail(@)]
  /\ UNCHANGED <<rest, shift>>

\* Auto-dispatch takes any order that is ready, with the seeded driver or another one.
Assign(n) ==
  /\ seeded[n].status = "READY_FOR_PICKUP" /\ seeded[n].ride = "none"
  /\ \E ride \in {"ours", "theirs"} :
       /\ seeded' = [seeded EXCEPT ![n].ride = ride, ![n].coming = Append(@, "DRIVER_ASSIGNED")]
       /\ IF ride = "ours" THEN shift = "AVAILABLE" /\ shift' = "BUSY" ELSE UNCHANGED shift
  /\ UNCHANGED rest

Reconcile ==
  /\ shift = "BUSY" /\ \A n \in DOMAIN seeded : seeded[n].ride # "ours"
  /\ shift' = "AVAILABLE"
  /\ UNCHANGED <<rest, seeded>>

CatalogStep ==
  \/ \E a \in Account : loginOrRegister(a)
  \/ ensureDriverProfile
  \/ \E r \in Eatery : LookUp(r)
  \/ \E n \in Name : Create(n)
  \/ \E d \in Food : SetAvailability(d)
  \/ CreateEatery \/ tryImage \/ ReadMenu \/ SetDoor \/ CatalogDone

OthersStep == \E r \in Eatery : BrowseReads(r) \/ BrowseCaches(r) \/ MenuExpires(r) \/ Crowd(r)

ScenarioStep ==
  \/ ReadOrders \/ FindOrder \/ BringOnline \/ ScenariosDone
  \/ DeleteCart \/ AddLine \/ PostOrder \/ PostPayment \/ AwaitPending \/ Process
  \/ AwaitOutcome \/ Cancel \/ Prepare \/ prepareDriver \/ Ready \/ waitForAssignment
  \/ Pickup \/ AwaitPickup \/ CompleteRide \/ AwaitDelivered

PlatformStep == Reconcile \/ \E n \in DOMAIN seeded : Arrive(n) \/ Assign(n)

SeedingNext ==
  \/ \E more \in BOOLEAN : StartRun(more)
  \/ CatalogStep \/ OthersStep \/ ScenarioStep \/ Stop \/ PlatformStep

SeedingSpec == SeedingInit /\ [][SeedingNext]_seedVars

-----------------------------------------------------------------------------
(***************************************************************************)
(* The scripts' "safe to rerun", wherever earlier runs ended.              *)
(* CatalogOnce: nothing of a restaurant is there twice, unless rows of it  *)
(* were hidden: a drop was lost, a slow reader cached what it had read     *)
(* before a write, or newer restaurants filled the first page.             *)
(* OrdersExact: an order holds the lines of its scenario, not also those   *)
(* an earlier run left in the cart.                                        *)
(* FinishedIsComplete: a run that finished leaves all the catalog, dishes  *)
(* on offer as seeded with the same exception, and an order in the state   *)
(* of every scenario.                                                      *)
(* RerunAddsNothing: after that, a plain run places no order.              *)
(***************************************************************************)
CatalogOnce == \A r \in Eatery \ hidden : \A n \in of(r) : made[n] <= 1

OrdersExact == script # "base" => \A n \in DOMAIN seeded : seeded[n].lines = Lines

FinishedIsComplete ==
  reached("finished") =>
    /\ accounts = Account /\ \A n \in Name : made[n] > 0
    /\ \A r \in Eatery : door[r] = doorOf[r]
    /\ script # "base" =>
         \A r \in Eatery \ hidden : available \cap of(r) = (Food \cap of(r)) \ SoldOut
    /\ script = "demo" => basket[CustomerA] = Lines
    /\ \A s \in ToSet(scenarios) :
         \E n \in DOMAIN seeded : seeded[n].by = s[1] /\ destined(seeded[n]) = s[2]

RerunAddsNothing == script # "base" /\ seed.again => Len(seeded) = seed.had

SeedKept == CatalogOnce /\ OrdersExact /\ FinishedIsComplete /\ RerunAddsNothing
=============================================================================
