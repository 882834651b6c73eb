---------------------------- MODULE OrdersProofs ----------------------------
(***************************************************************************)
(* Proofs about a cart and the orders made from it (Checkout), one order     *)
(* (Orders), its money (Pricing), and the scripts that place orders of their *)
(* own (Seeding), for any number of requests, handlers, policies, carts,     *)
(* names of a catalog and runs.                                              *)
(*                                                                           *)
(* The cart changes only with a version nobody else wrote, and an order has  *)
(* a key of its own, so a retried checkout finds the order of its key.  An   *)
(* order's table has no way back: every move climbs (height).  So what was   *)
(* announced stays below the status, a read status that was left never       *)
(* returns, and an event that lost its race once is stale for good, since    *)
(* the target of each event has one predecessor only.  A snapshot was priced *)
(* by the policy of its time, and payments and ledger copy from the snapshot *)
(* only; the lemmas are the arithmetic of whole piasters.  What is under way *)
(* to a seeded order is known (OnCourse) and a run starts when all is at     *)
(* rest, so what it is shown is what will be: a scenario once met stays met, *)
(* and the next run finds it.  While none of its rows was hidden, a menu's   *)
(* copy is what the rows are (Clear), and a run knows what it was shown.     *)
(***************************************************************************)
EXTENDS Orders, Checkout, Pricing, Seeding, TLAPS

-----------------------------------------------------------------------------
(* A cart and the orders made from it (Checkout) *)

\* A cart as every command leaves it: of one restaurant, and of none when empty.
GoodCart(c) ==
  /\ c \in Cart
  /\ c.restaurantId = NoRestaurant <=> isEmpty(c)
  /\ \A i \in Item : holds(c, i) => c.restaurantId = restaurantOf[i]

OrderRow == [key : CheckoutKey \cup {NoHeader}, cart : Cart]

\* What a checkout relies on: the cart it read is fit to be ordered, and the
\* order it is about to answer with is there and carries its key.
CheckoutOK(j) ==
  /\ j.pc = "insert" => GoodCart(j.read) /\ ~isEmpty(j.read)
  /\ j.pc \in {"clear", "answered"} => j.order \in DOMAIN orders /\ orders[j.order].key = j.key

CheckoutIInv ==
  /\ CheckoutTypeOK /\ OnePerKey
  /\ GoodCart(cart)
  /\ \A s \in CartSlot : saving[s] # Nothing => GoodCart(saving[s])
  /\ \A n \in DOMAIN orders : GoodCart(orders[n].cart) /\ ~isEmpty(orders[n].cart)
  /\ \A q \in CheckoutSlot : CheckoutOK(checkout[q])

LEMMA EmptyCart == GoodCart(emptyCart) /\ isEmpty(emptyCart)
<1>1. /\ emptyCart \in Cart /\ emptyCart.restaurantId = NoRestaurant
      /\ \A i \in Item : emptyCart.items[i] = 0
  BY CheckoutAssumption DEF emptyCart, Cart
<1> QED
  BY <1>1 DEF GoodCart, isEmpty, holds

\* Any change of the quantities that adds nothing of another restaurant.
LEMMA CartChanged ==
  ASSUME NEW c, GoodCart(c), NEW d \in Cart, NEW i \in Item,
         \A j \in Item \ {i} : d.items[j] = c.items[j],
         holds(c, i) \/ isEmpty(c) \/ restaurantOf[i] = c.restaurantId,
         d.restaurantId = restaurantOf[i] \/ (~isEmpty(c) /\ d.restaurantId = c.restaurantId),
         d.restaurantId = restaurantOf[i] => holds(d, i) \/ d.restaurantId = c.restaurantId
  PROVE  GoodCart(persistOrClear(d))
<1>1. CASE isEmpty(d)
  BY <1>1, EmptyCart DEF persistOrClear
<1>2. CASE ~isEmpty(d)
  <2>1. \A j \in Item \ {i} : holds(d, j) = holds(c, j)
    BY DEF holds
  <2>2. d.restaurantId # NoRestaurant
    BY CheckoutAssumption DEF GoodCart
  <2>3. isEmpty(c) \/ restaurantOf[i] = c.restaurantId
    BY DEF GoodCart
  <2>4. ASSUME NEW j \in Item, holds(d, j) PROVE d.restaurantId = restaurantOf[j]
    <3>1. CASE j = i
      BY <2>3, <3>1
    <3>2. CASE j # i
      <4>1. holds(c, j) /\ ~isEmpty(c)
        BY <2>1, <2>4, <3>2 DEF isEmpty
      <4> QED
        BY <2>3, <4>1 DEF GoodCart
    <3> QED
      BY <3>1, <3>2
  <2> QED
    BY <1>2, <2>2, <2>4 DEF GoodCart, persistOrClear
<1> QED
  BY <1>1, <1>2

\* Every command of cart-service keeps a cart of one restaurant.
LEMMA CommandsKeepCart ==
  ASSUME NEW c, GoodCart(c), NEW d \in AddItem(c) \cup UpdateItemQuantity(c) \cup RemoveItem(c)
  PROVE  GoodCart(persistOrClear(d))
<1>1. /\ c \in Cart /\ c.items \in [Item -> 0..MaxQuantity]
      /\ c.restaurantId \in {restaurantOf[i] : i \in Item} \cup {NoRestaurant}
  BY DEF GoodCart, Cart
<1>2. CASE d \in AddItem(c)
  <2>1. PICK i \in Item, n \in 1..MaxQuantity :
          /\ isEmpty(c) \/ c.restaurantId = restaurantOf[i]
          /\ d = withItem(c, i, n) /\ d \in Cart
    BY <1>2 DEF AddItem
  <2>2. /\ d.restaurantId = restaurantOf[i] /\ d.items[i] = c.items[i] + n
        /\ \A j \in Item \ {i} : d.items[j] = c.items[j]
    BY <1>1, <2>1 DEF withItem
  <2>3. holds(d, i)
    <3>1. c.items[i] \in Nat /\ n \in Nat /\ n > 0
      BY <1>1, CheckoutAssumption
    <3> QED
      BY <2>2, <3>1 DEF holds
  <2> QED
    BY <2>1, <2>2, <2>3, CartChanged
<1>3. ASSUME NEW i \in Item, NEW n \in 0..MaxQuantity, ~isEmpty(c), holds(c, i) \/ n = 0,
             d = [c EXCEPT !.items[i] = n]
      PROVE  GoodCart(persistOrClear(d))
  <2>1. /\ d.restaurantId = c.restaurantId /\ d \in Cart
        /\ \A j \in Item \ {i} : d.items[j] = c.items[j]
    BY <1>1, <1>3 DEF Cart
  <2>2. CASE holds(c, i)
    BY <1>3, <2>1, <2>2, CartChanged
  <2>3. CASE n = 0 /\ ~holds(c, i)
    <3>1. d.items[i] = 0 /\ c.items[i] = 0
      BY <1>1, <1>3, <2>3, CheckoutAssumption DEF holds
    <3>2. \A j \in Item : holds(d, j) = holds(c, j)
      BY <2>1, <3>1 DEF holds
    <3> QED
      BY <1>3, <2>1, <3>2 DEF GoodCart, persistOrClear, isEmpty
  <2> QED
    BY <1>3, <2>1, <2>2, <2>3
<1>4. CASE d \in UpdateItemQuantity(c)
  BY <1>3, <1>4 DEF UpdateItemQuantity, isEmpty
<1>5. CASE d \in RemoveItem(c)
  <2>1. ~isEmpty(c) /\ \E i \in Item : d = [c EXCEPT !.items[i] = 0]
    BY <1>5 DEF RemoveItem
  <2>2. 0 \in 0..MaxQuantity
    BY CheckoutAssumption
  <2> QED
    BY <1>3, <2>1, <2>2
<1> QED
  BY <1>2, <1>4, <1>5

-----------------------------------------------------------------------------
LEMMA CheckoutStarts == CheckoutInit => CheckoutIInv
<1> SUFFICES ASSUME CheckoutInit PROVE CheckoutIInv
  OBVIOUS
<1> USE CheckoutAssumption DEF CheckoutInit
<1>1. GoodCart(cart) /\ isEmpty(cart) /\ emptyCart \in Cart
  BY EmptyCart DEF GoodCart
<1>2. CheckoutIdle \in CheckoutState /\ CheckoutIdle.pc = "idle"
  BY <1>1 DEF CheckoutIdle, CheckoutState
<1>3. orders = <<>> /\ Len(orders) = 0 /\ DOMAIN orders = {}
  OBVIOUS
<1>4. CheckoutTypeOK
  BY <1>1, <1>2, <1>3 DEF CheckoutTypeOK, GoodCart
<1>5. OnePerKey
  BY <1>3 DEF OnePerKey, ordersOf
<1>6. \A q \in CheckoutSlot : CheckoutOK(checkout[q])
  BY <1>2 DEF CheckoutOK
<1> QED
  BY <1>1, <1>3, <1>4, <1>5, <1>6 DEF CheckoutIInv

\* Commands on the cart touch neither the orders nor the checkouts.
LEMMA CartSteps ==
  ASSUME CheckoutIInv, NEW s \in CartSlot, ReadCart(s) \/ SaveCart(s)
  PROVE  CheckoutIInv'
<1>1. UNCHANGED <<orders, checkout>> /\ cart' \in {cart, saving[s]}
  BY DEF ReadCart, SaveCart
<1>2. GoodCart(cart')
  BY DEF CheckoutIInv, ReadCart, SaveCart
<1>3. \E x : /\ x = Nothing \/ GoodCart(x)
             /\ saving' = saving \/ saving' = [saving EXCEPT ![s] = x]
  BY CommandsKeepCart DEF CheckoutIInv, ReadCart, SaveCart
<1>4. /\ saving' \in [CartSlot -> Cart \cup {Nothing}]
      /\ \A c \in CartSlot : saving'[c] # Nothing => GoodCart(saving'[c])
  BY <1>3 DEF CheckoutIInv, CheckoutTypeOK, GoodCart
<1>5. CheckoutTypeOK'
  BY <1>1, <1>2, <1>4 DEF CheckoutIInv, CheckoutTypeOK, GoodCart
<1>6. OnePerKey'
  BY <1>1 DEF CheckoutIInv, OnePerKey, ordersOf
<1>7. \A q \in CheckoutSlot : CheckoutOK(checkout[q])'
  BY <1>1 DEF CheckoutIInv, CheckoutOK
<1> QED
  BY <1>1, <1>2, <1>4, <1>5, <1>6, <1>7 DEF CheckoutIInv

\* What is left to show of a step of one checkout that inserts nothing.
LEMMA CheckoutMoves ==
  ASSUME CheckoutIInv, NEW q \in CheckoutSlot, NEW j \in CheckoutState, CheckoutOK(j),
         checkout' = [checkout EXCEPT ![q] = j], UNCHANGED <<saving, orders>>, GoodCart(cart')
  PROVE  CheckoutIInv'
<1>1. CheckoutTypeOK'
  BY DEF CheckoutIInv, CheckoutTypeOK, GoodCart
<1>2. OnePerKey'
  BY DEF CheckoutIInv, OnePerKey, ordersOf
<1>3. \A p \in CheckoutSlot : CheckoutOK(checkout'[p])
  BY DEF CheckoutIInv, CheckoutTypeOK
<1>4. \A p \in CheckoutSlot : CheckoutOK(checkout[p])'
  BY <1>3 DEF CheckoutOK
<1> QED
  BY <1>1, <1>2, <1>4 DEF CheckoutIInv

LEMMA Refused ==
  ASSUME CheckoutIInv, NEW q \in CheckoutSlot, refuse(q), UNCHANGED <<cart, saving, orders>>
  PROVE  CheckoutIInv'
<1>1. CheckoutIdle \in CheckoutState /\ CheckoutOK(CheckoutIdle)
  BY EmptyCart, CheckoutAssumption DEF CheckoutIdle, CheckoutState, CheckoutOK, GoodCart
<1> QED
  BY <1>1, CheckoutMoves DEF CheckoutIInv, refuse

LEMMA Became ==
  ASSUME CheckoutIInv, NEW q \in CheckoutSlot, NEW pc \in {"find", "cart", "recover"}, become(q, pc),
         UNCHANGED <<cart, saving, orders>>
  PROVE  CheckoutIInv'
<1> DEFINE j == [checkout[q] EXCEPT !.pc = pc]
<1>1. j \in CheckoutState /\ j.pc = pc
  BY DEF CheckoutIInv, CheckoutTypeOK, CheckoutState
<1>2. checkout' = [checkout EXCEPT ![q] = j]
  BY DEF become
<1> HIDE DEF j
<1>3. CheckoutOK(j)
  BY <1>1 DEF CheckoutOK
<1> QED
  BY <1>1, <1>2, <1>3, CheckoutMoves DEF CheckoutIInv

\* An answer with an order that is there and has the checkout's key.
LEMMA AnsweredWith ==
  ASSUME CheckoutIInv, NEW q \in CheckoutSlot, NEW n \in ordersOf(checkout[q].key), answer(q, n),
         GoodCart(cart'), UNCHANGED <<saving, orders>>
  PROVE  CheckoutIInv'
<1> DEFINE j == [checkout[q] EXCEPT !.pc = "answered", !.read = emptyCart, !.order = n]
<1>1. n \in DOMAIN orders /\ orders[n].key = checkout[q].key
  BY DEF ordersOf
<1>2. n \in 0..MaxOrders
  BY <1>1, CheckoutAssumption DEF CheckoutIInv, CheckoutTypeOK
<1>3. j \in CheckoutState /\ j.pc = "answered" /\ j.order = n /\ j.key = checkout[q].key
  BY <1>2, EmptyCart, ZenonT(30) DEF CheckoutIInv, CheckoutTypeOK, CheckoutState, GoodCart
<1>4. checkout' = [checkout EXCEPT ![q] = j]
  BY DEF answer
<1> HIDE DEF j
<1>5. CheckoutOK(j)
  BY <1>1, <1>3 DEF CheckoutOK
<1> QED
  BY <1>3, <1>4, <1>5, CheckoutMoves

LEMMA CreateFromCartStep ==
  ASSUME CheckoutIInv, NEW q \in CheckoutSlot, NEW k \in CheckoutKey \cup {NoHeader}, CreateFromCart(q, k)
  PROVE  CheckoutIInv'
<1> DEFINE j == [CheckoutIdle EXCEPT !.pc = "find", !.key = k]
<1>1. CheckoutIdle \in CheckoutState
  BY EmptyCart, CheckoutAssumption DEF CheckoutIdle, CheckoutState, GoodCart
<1>2. j \in CheckoutState /\ j.pc = "find"
  BY <1>1 DEF CheckoutState
<1>3. checkout' = [checkout EXCEPT ![q] = j] /\ UNCHANGED <<cart, saving, orders>>
  BY DEF CreateFromCart
<1> HIDE DEF j
<1>4. CheckoutOK(j)
  BY <1>2 DEF CheckoutOK
<1> QED
  BY <1>2, <1>3, <1>4, CheckoutMoves DEF CheckoutIInv

LEMMA GetCartStep ==
  ASSUME CheckoutIInv, NEW q \in CheckoutSlot, GetCart(q)
  PROVE  CheckoutIInv'
<1> DEFINE j == [checkout[q] EXCEPT !.pc = "insert", !.read = cart]
<1>1. CASE isEmpty(cart)
  BY <1>1, Refused DEF GetCart
<1>2. CASE ~isEmpty(cart)
  <2>1. GoodCart(cart)
    BY DEF CheckoutIInv
  <2>2. j \in CheckoutState /\ j.pc = "insert" /\ j.read = cart
    BY DEF CheckoutIInv, CheckoutTypeOK, CheckoutState
  <2>3. checkout' = [checkout EXCEPT ![q] = j] /\ UNCHANGED <<cart, saving, orders>>
    BY <1>2 DEF GetCart
  <2> HIDE DEF j
  <2>4. CheckoutOK(j)
    BY <1>2, <2>1, <2>2 DEF CheckoutOK
  <2> QED
    BY <2>1, <2>2, <2>3, <2>4, CheckoutMoves
<1> QED
  BY <1>1, <1>2

\* The unique index: the key has no order yet, or the checkout has no key.
LEMMA InsertOrderStep ==
  ASSUME CheckoutIInv, NEW q \in CheckoutSlot, InsertOrder(q)
  PROVE  CheckoutIInv'
<1> DEFINE n == Len(orders) + 1
           o == [key |-> checkout[q].key, cart |-> checkout[q].read]
           j == [checkout[q] EXCEPT !.pc = "clear", !.read = emptyCart, !.order = n]
<1>1. /\ checkout[q] \in CheckoutState /\ GoodCart(checkout[q].read) /\ ~isEmpty(checkout[q].read)
      /\ orders \in Seq(OrderRow) /\ Len(orders) < MaxOrders /\ orders' = Append(orders, o)
      /\ UNCHANGED <<cart, saving>>
  BY DEF CheckoutIInv, CheckoutTypeOK, CheckoutOK, InsertOrder, insert, at, OrderRow
<1>2. o \in OrderRow /\ o.key = checkout[q].key /\ o.cart = checkout[q].read
  BY <1>1 DEF CheckoutState, OrderRow
<1>3. n \in 0..MaxOrders /\ n \in Nat
  BY <1>1, CheckoutAssumption
<1>4. j \in CheckoutState /\ j.pc = "clear" /\ j.order = n /\ j.key = checkout[q].key
  BY <1>1, <1>3, EmptyCart DEF CheckoutState, GoodCart
<1>5. checkout' = [checkout EXCEPT ![q] = j]
  BY DEF InsertOrder, insert
<1> HIDE DEF o, j
<1>6. /\ orders' \in Seq(OrderRow) /\ Len(orders') = n
      /\ orders'[n] = o /\ DOMAIN orders' = DOMAIN orders \cup {n} /\ n \notin DOMAIN orders
      /\ \A m \in DOMAIN orders : orders'[m] = orders[m]
  BY <1>1, <1>2
<1> HIDE DEF n
<1>7. CheckoutTypeOK'
  BY <1>1, <1>3, <1>4, <1>5, <1>6 DEF CheckoutIInv, CheckoutTypeOK, OrderRow
<1>8. OnePerKey'
  <2>1. \A k \in CheckoutKey : k = o.key => ordersOf(k) = {}
    BY <1>2, CheckoutAssumption DEF InsertOrder
  <2>2. \A k \in CheckoutKey : ordersOf(k)' = IF k = o.key THEN {n} ELSE ordersOf(k)
    BY <1>6, <2>1 DEF ordersOf
  <2> QED
    BY <2>2 DEF CheckoutIInv, OnePerKey
<1>9. \A m \in DOMAIN orders' : GoodCart(orders'[m].cart) /\ ~isEmpty(orders'[m].cart)
  BY <1>1, <1>2, <1>6 DEF CheckoutIInv
<1>10. \A p \in CheckoutSlot : CheckoutOK(checkout[p])'
  BY <1>2, <1>4, <1>5, <1>6 DEF CheckoutIInv, CheckoutTypeOK, CheckoutOK
<1> QED
  BY <1>1, <1>7, <1>8, <1>9, <1>10 DEF CheckoutIInv

LEMMA CheckoutSteps == CheckoutIInv /\ [CheckoutNext]_checkoutVars => CheckoutIInv'
<1> SUFFICES ASSUME CheckoutIInv, [CheckoutNext]_checkoutVars PROVE CheckoutIInv'
  OBVIOUS
<1>1. ASSUME NEW q \in CheckoutSlot, FindPrior(q) \/ InsertFails(q) \/ Recover(q) PROVE CheckoutIInv'
  <2>1. GoodCart(cart)
    BY DEF CheckoutIInv
  <2> QED
    BY <1>1, <2>1, AnsweredWith, Became, Refused DEF FindPrior, InsertFails, Recover
<1>2. ASSUME NEW q \in CheckoutSlot, Refuse(q) \/ CrashCheckout(q) \/ ClearFails(q) PROVE CheckoutIInv'
  BY <1>2, Became, Refused DEF Refuse, CrashCheckout, ClearFails
<1>3. ASSUME NEW q \in CheckoutSlot, ClearCart(q) PROVE CheckoutIInv'
  <2>1. checkout[q].order \in ordersOf(checkout[q].key)
    BY <1>3 DEF ClearCart, at, CheckoutIInv, CheckoutOK, ordersOf
  <2> QED
    BY <1>3, <2>1, AnsweredWith, EmptyCart DEF ClearCart
<1>4. CASE UNCHANGED checkoutVars
  BY <1>4 DEF checkoutVars, CheckoutIInv, CheckoutTypeOK, OnePerKey, ordersOf, CheckoutOK
<1>5. CASE ClearOrExpire
  BY <1>5, EmptyCart DEF ClearOrExpire, CheckoutIInv, CheckoutTypeOK, OnePerKey, ordersOf, CheckoutOK, GoodCart
<1> QED
  BY <1>1, <1>2, <1>3, <1>4, <1>5, CartSteps, CreateFromCartStep, GetCartStep, InsertOrderStep DEF CheckoutNext

\* However commands on a cart and checkouts of it cross, crash and are retried: a
\* key makes one order and is answered with it, and no cart or order mixes
\* restaurants or is empty (CartService, OrdersService.createFromCart).
THEOREM CheckoutCorrect == CheckoutSpec => []CheckoutInv
<1>1. CheckoutIInv => CheckoutInv
  <2> SUFFICES ASSUME CheckoutIInv PROVE CheckoutInv
    OBVIOUS
  <2>1. AnsweredWithOwn
    BY DEF CheckoutIInv, CheckoutOK, AnsweredWithOwn, at
  <2>2. OneRestaurant /\ NoEmptyOrder
    BY DEF CheckoutIInv, GoodCart, OneRestaurant, NoEmptyOrder
  <2> QED
    BY <2>1, <2>2 DEF CheckoutIInv, CheckoutInv
<1> QED
  BY <1>1, CheckoutStarts, CheckoutSteps, PTL DEF CheckoutSpec

-----------------------------------------------------------------------------
(* One order (Orders) *)

height(s) ==
  CASE s = "CREATED" -> 0 [] s = "PAYMENT_PENDING" -> 1 [] s = "CONFIRMED" -> 2
    [] s = "PREPARING" -> 3 [] s = "READY_FOR_PICKUP" -> 4 [] s = "DRIVER_ASSIGNED" -> 5
    [] s = "PICKED_UP" -> 6 [] s = "DELIVERED" -> 7 [] s = "CANCELLED" -> 8 [] OTHER -> 9

HandledTarget == {"PAYMENT_PENDING", "CONFIRMED", "FAILED", "DRIVER_ASSIGNED", "PICKED_UP", "DELIVERED"}

\* The status never was, or is no longer, one the target may be reached from.
Overtaken(target) == \A s \in OrderStatus : <<s, target>> \in ORDER_TRANSITIONS => height(s) < height(row.status)
Reached(target) == \A s \in OrderStatus : <<s, target>> \in ORDER_TRANSITIONS => height(s) <= height(row.status)

Climbs == \A i \in DOMAIN staged : height(staged[i]) <= height(row.status)

\* What a slot relies on: a move about to be written is one the table allows from
\* what was read; an event on its second run has been overtaken.
JobOK(j) ==
  /\ j.pc = "write" =>
       /\ <<j.read, j.target>> \in ORDER_TRANSITIONS
       /\ height(j.read) <= height(row.status)
       /\ j.role = "RESTAURANT_OWNER" /\ j.target = "CANCELLED" => j.read = "CONFIRMED"
  /\ j.pc \in {"record", "sync"} => j.tries > 0
  /\ j.tries > 0 =>
       /\ j.role = "ADMIN" /\ j.target \in HandledTarget
       /\ j.pc = "load" => Reached(j.target)
  /\ j.tries <= 2
  /\ j.tries = 2 => j.pc \in {"record", "sync"} /\ Overtaken(j.target)

JobsAgree == \A r \in OrderRequest : JobOK(job[r])

OrdersIInv ==
  /\ OrdersTypeOK /\ AnnouncedOnce /\ EndedTellsWho /\ RejectedBeforeCooking
  /\ Climbs /\ JobsAgree

-----------------------------------------------------------------------------
LEMMA Heights ==
  /\ \A s \in OrderStatus : height(s) \in 0..9
  /\ \A s, t \in OrderStatus : height(s) = height(t) => s = t
  /\ \A m \in ORDER_TRANSITIONS : m[1] \in OrderStatus /\ m[2] \in OrderStatus /\ height(m[1]) < height(m[2])
<1>1. \A s \in OrderStatus : height(s) \in 0..9
  BY DEF height, OrderStatus
<1>2. \A s, t \in OrderStatus : height(s) = height(t) => s = t
  BY DEF height, OrderStatus
<1>3. ASSUME NEW m \in ORDER_TRANSITIONS
      PROVE  m[1] \in OrderStatus /\ m[2] \in OrderStatus /\ height(m[1]) < height(m[2])
  BY DEF height, OrderStatus, ORDER_TRANSITIONS
<1> QED
  BY <1>1, <1>2, <1>3

\* The target of an event is reached from one status only.
LEMMA OnePredecessor ==
  ASSUME NEW t \in HandledTarget, NEW s \in OrderStatus, NEW u \in OrderStatus,
         <<s, t>> \in ORDER_TRANSITIONS, <<u, t>> \in ORDER_TRANSITIONS
  PROVE  s = u
BY DEF HandledTarget, OrderStatus, ORDER_TRANSITIONS

LEMMA IdleIsJob == OrderIdle \in Job
BY OrdersAssumption DEF OrderIdle, Job, Roles, OrderStatus, PaymentKnown

LEMMA OrdersStart == OrdersInit => OrdersIInv
<1> SUFFICES ASSUME OrdersInit PROVE OrdersIInv
  OBVIOUS
<1>1. OrdersTypeOK
  BY IdleIsJob DEF OrdersInit, OrdersTypeOK, OrderStatus, EndedBy, PaymentKnown
<1>2. Len(staged) = 1 /\ DOMAIN staged = {1} /\ staged[1] = "CREATED" /\ row.status = "CREATED" /\ row.endedBy = "none"
  BY DEF OrdersInit
<1>3. AnnouncedOnce
  BY <1>2 DEF AnnouncedOnce, Last
<1>4. EndedTellsWho /\ RejectedBeforeCooking
  BY <1>2 DEF EndedTellsWho, RejectedBeforeCooking
<1>5. Climbs
  BY <1>2, Heights DEF Climbs, OrderStatus
<1>6. JobsAgree
  BY DEF OrdersInit, OrderIdle, JobsAgree, JobOK
<1> QED
  BY <1>1, <1>3, <1>4, <1>5, <1>6 DEF OrdersIInv

-----------------------------------------------------------------------------
\* What a slot relies on stands while the status climbs.
LEMMA OthersStayOK ==
  ASSUME NEW j \in Job, JobOK(j), row.status \in OrderStatus, row'.status \in OrderStatus,
         height(row.status) <= height(row'.status)
  PROVE  JobOK(j)'
<1>1. \A s \in OrderStatus : height(s) \in 0..9
  BY Heights
<1>2. j.target \in OrderStatus /\ j.read \in OrderStatus
  BY DEF Job
<1>3. Overtaken(j.target) => Overtaken(j.target)'
  BY <1>1 DEF Overtaken
<1>4. Reached(j.target) => Reached(j.target)'
  BY <1>1 DEF Reached
<1> QED
  BY <1>1, <1>2, <1>3, <1>4 DEF JobOK

\* A step that leaves the order and its events alone has only its slot to answer for.
LEMMA SlotStep ==
  ASSUME OrdersIInv, NEW r \in OrderRequest, NEW j \in Job, JobOK(j),
         job' \in [OrderRequest -> Job], job'[r] = j, \A q \in OrderRequest \ {r} : job'[q] = job[q],
         UNCHANGED staged,
         row' \in [status : OrderStatus, endedBy : EndedBy, payment : PaymentKnown],
         row'.status = row.status, row'.endedBy = row.endedBy
  PROVE  OrdersIInv'
<1> USE DEF OrdersIInv
<1>1. OrdersTypeOK'
  BY DEF OrdersTypeOK
<1>2. AnnouncedOnce' /\ EndedTellsWho' /\ RejectedBeforeCooking' /\ Climbs'
  BY DEF AnnouncedOnce, EndedTellsWho, RejectedBeforeCooking, Climbs
<1>3. \A i \in Job : JobOK(i) => JobOK(i)'
  BY Heights, OthersStayOK DEF OrdersTypeOK
<1>4. JobsAgree'
  BY <1>3 DEF JobsAgree, OrdersTypeOK
<1> QED
  BY <1>1, <1>2, <1>4

LEMMA IdleIsOK == JobOK(OrderIdle)
BY DEF JobOK, OrderIdle

LEMMA FinishStep ==
  ASSUME OrdersIInv, NEW r \in OrderRequest, finish(r), UNCHANGED <<row, staged>>
  PROVE  OrdersIInv'
BY IdleIsJob, IdleIsOK, SlotStep DEF finish, OrdersIInv, OrdersTypeOK

\* A handler throws on its first run only, and its event has been overtaken then.
LEMMA ThrowStep ==
  ASSUME OrdersIInv, NEW r \in OrderRequest, throw(r), UNCHANGED <<row, staged>>,
         job[r].tries > 0 => job[r].tries = 1 /\ Overtaken(job[r].target)
  PROVE  OrdersIInv'
<1>1. CASE ~isHandler(r) \/ job[r].tries = Attempts
  BY <1>1, FinishStep DEF throw
<1>2. CASE isHandler(r) /\ job[r].tries # Attempts
  <2> DEFINE again == [job[r] EXCEPT !.pc = "record", !.tries = 2]
  <2>2. job[r] \in Job /\ JobOK(job[r]) /\ job[r].tries = 1 /\ Overtaken(job[r].target)
    BY <1>2 DEF OrdersIInv, OrdersTypeOK, JobsAgree, isHandler, Job
  <2>1. job'[r] = again /\ \A q \in OrderRequest \ {r} : job'[q] = job[q]
    BY <1>2, <2>2 DEF throw, OrdersIInv, OrdersTypeOK, Job
  <2>3. 2 \in 0..Attempts
    BY <1>2, <2>2, OrdersAssumption
  <2>4. again.pc = "record" /\ again.tries = 2 /\ again.role = job[r].role /\ again.target = job[r].target
    BY <2>2 DEF Job
  <2>5. again \in Job
    BY <2>2, <2>3 DEF Job
  <2>7. job' \in [OrderRequest -> Job]
    BY <1>2, <2>2, <2>3 DEF throw, OrdersIInv, OrdersTypeOK, Job
  <2> HIDE DEF again
  <2>6. JobOK(again)
    BY <2>2, <2>4 DEF JobOK
  <2> QED
    BY <2>1, <2>5, <2>6, <2>7, SlotStep DEF OrdersIInv, OrdersTypeOK
<1> QED
  BY <1>1, <1>2

-----------------------------------------------------------------------------
(* The steps that leave the status alone *)
LEMMA SlotTyped ==
  ASSUME OrdersIInv, NEW r \in OrderRequest
  PROVE  job[r] \in Job /\ JobOK(job[r]) /\ row.status \in OrderStatus /\ job[r].target \in OrderStatus
BY DEF OrdersIInv, OrdersTypeOK, JobsAgree, Job

\* What a step that moves one slot on leaves of it.
LEMMA PcStep ==
  ASSUME OrdersIInv, NEW r \in OrderRequest, NEW p \in {"record", "sync", "load"},
         job' = [job EXCEPT ![r].pc = p]
  PROVE  /\ job' \in [OrderRequest -> Job] /\ job'[r] \in Job
         /\ \A q \in OrderRequest \ {r} : job'[q] = job[q]
         /\ job'[r].pc = p /\ job'[r].tries = job[r].tries
         /\ job'[r].role = job[r].role /\ job'[r].target = job[r].target
BY DEF OrdersIInv, OrdersTypeOK, Job

LEMMA FreshSlot ==
  ASSUME OrdersIInv, NEW r \in OrderRequest, NEW j \in Job, JobOK(j),
         job' = [job EXCEPT ![r] = j], UNCHANGED <<row, staged>>
  PROVE  OrdersIInv'
<1>1. job' \in [OrderRequest -> Job] /\ job'[r] = j /\ \A q \in OrderRequest \ {r} : job'[q] = job[q]
  BY DEF OrdersIInv, OrdersTypeOK
<1> QED
  BY <1>1, SlotStep DEF OrdersIInv, OrdersTypeOK

LEMMA AskStep ==
  ASSUME OrdersIInv, NEW r \in OrderRequest, NEW role \in Roles, NEW target \in OrderStatus, Ask(r, role, target)
  PROVE  OrdersIInv'
<1> DEFINE j == [OrderIdle EXCEPT !.pc = "load", !.role = role, !.target = target]
<1>1. j.pc = "load" /\ j.tries = 0
  BY DEF OrderIdle
<1>2. j \in Job
  <2>1. [OrderIdle EXCEPT !.pc = "load"] \in Job
    BY IdleIsJob DEF Job
  <2>2. [[OrderIdle EXCEPT !.pc = "load"] EXCEPT !.role = role] \in Job
    BY <2>1 DEF Job
  <2>3. \A i \in Job : [i EXCEPT !.target = target] \in Job
    BY DEF Job
  <2> QED
    BY <2>2, <2>3
<1>3. job' = [job EXCEPT ![r] = j] /\ UNCHANGED <<row, staged>>
  BY DEF Ask
<1> HIDE DEF j
<1>4. JobOK(j)
  BY <1>1 DEF JobOK
<1> QED
  BY <1>2, <1>3, <1>4, FreshSlot

LEMMA ReceiveStep ==
  ASSUME OrdersIInv, NEW r \in OrderRequest, NEW event \in HandledEvent, Receive(r, event)
  PROVE  OrdersIInv'
<1> DEFINE j == [OrderIdle EXCEPT !.pc = "record", !.payment = event[1], !.target = event[2], !.tries = 1]
<1>1. event[1] \in PaymentKnown /\ event[2] \in HandledTarget /\ event[2] \in OrderStatus
  BY DEF HandledEvent, PaymentKnown, HandledTarget, OrderStatus
<1>2. j.pc = "record" /\ j.tries = 1 /\ j.role = "ADMIN" /\ j.target = event[2]
  BY DEF OrderIdle
<1>3. j \in Job
  <2>1. [OrderIdle EXCEPT !.pc = "record"] \in Job
    BY IdleIsJob DEF Job
  <2>2. \A i \in Job : [i EXCEPT !.payment = event[1]] \in Job
    BY <1>1 DEF Job
  <2>3. \A i \in Job : [i EXCEPT !.target = event[2]] \in Job
    BY <1>1 DEF Job
  <2>4. \A i \in Job : [i EXCEPT !.tries = 1] \in Job
    BY OrdersAssumption DEF Job
  <2> QED
    BY <2>1, <2>2, <2>3, <2>4
<1>4. job' = [job EXCEPT ![r] = j] /\ UNCHANGED <<row, staged>>
  BY DEF Receive
<1> HIDE DEF j
<1>5. JobOK(j)
  BY <1>1, <1>2 DEF JobOK
<1> QED
  BY <1>3, <1>4, <1>5, FreshSlot

LEMMA RecordStep ==
  ASSUME OrdersIInv, NEW r \in OrderRequest, RecordPayment(r)
  PROVE  OrdersIInv'
<1>1. /\ job'[r] \in Job /\ job' \in [OrderRequest -> Job]
      /\ \A q \in OrderRequest \ {r} : job'[q] = job[q]
      /\ job'[r].pc = "sync" /\ job'[r].tries = job[r].tries
      /\ job'[r].role = job[r].role /\ job'[r].target = job[r].target
  BY PcStep DEF RecordPayment
<1>2. JobOK(job'[r])
  BY <1>1, SlotTyped DEF RecordPayment, JobOK
<1>3. /\ row' \in [status : OrderStatus, endedBy : EndedBy, payment : PaymentKnown]
      /\ row'.status = row.status /\ row'.endedBy = row.endedBy
  BY SlotTyped DEF RecordPayment, OrdersIInv, OrdersTypeOK, Job
<1> QED
  BY <1>1, <1>2, <1>3, SlotStep DEF RecordPayment

\* An event on its second run is stale; one on its first has reached its predecessor.
LEMMA SyncStep ==
  ASSUME OrdersIInv, NEW r \in OrderRequest, SyncStatusFromEvent(r)
  PROVE  OrdersIInv'
<1>1. CASE stale(r)
  BY <1>1, FinishStep DEF SyncStatusFromEvent
<1>2. CASE ~stale(r)
  <2>1. <<row.status, job[r].target>> \in ORDER_TRANSITIONS
    BY <1>2 DEF stale, isTransitionAllowed
  <2>2. job[r].tries # 2
    <3>1. ~Overtaken(job[r].target)
      BY <2>1, SlotTyped, Heights DEF Overtaken
    <3> QED
      BY <3>1, SlotTyped DEF JobOK
  <2>3. job[r].tries > 0 /\ job[r].tries <= 2 /\ job[r].role = "ADMIN" /\ job[r].target \in HandledTarget
    BY SlotTyped DEF SyncStatusFromEvent, JobOK
  <2>4. Reached(job[r].target)
    BY <2>1, <2>3, SlotTyped, OnePredecessor, Heights DEF Reached
  <2>5. /\ job'[r] \in Job /\ job' \in [OrderRequest -> Job]
        /\ \A q \in OrderRequest \ {r} : job'[q] = job[q]
        /\ job'[r].pc = "load" /\ job'[r].tries = job[r].tries
        /\ job'[r].role = job[r].role /\ job'[r].target = job[r].target
    BY <1>2, PcStep DEF SyncStatusFromEvent
  <2>6. JobOK(job'[r])
    BY <2>2, <2>3, <2>4, <2>5 DEF JobOK
  <2> QED
    BY <2>5, <2>6, SlotStep DEF SyncStatusFromEvent, OrdersIInv, OrdersTypeOK
<1> QED
  BY <1>1, <1>2

\* Only the first run of a handler loads and writes.
LEMMA FirstRun ==
  ASSUME OrdersIInv, NEW r \in OrderRequest, job[r].pc \in {"load", "write"}, job[r].tries > 0
  PROVE  job[r].tries = 1 /\ job[r].target \in HandledTarget
<1>1. job[r].tries \in Nat /\ job[r].tries <= 2 /\ job[r].tries # 2 /\ job[r].target \in HandledTarget
  <2>1. job[r].tries \in 0..Attempts
    BY SlotTyped DEF Job
  <2>2. job[r].tries <= 2 /\ job[r].tries # 2 /\ job[r].target \in HandledTarget
    BY SlotTyped DEF JobOK
  <2> QED
    BY <2>1, <2>2, OrdersAssumption
<1> QED
  BY <1>1

LEMMA LoadStep ==
  ASSUME OrdersIInv, NEW r \in OrderRequest, LoadOrder(r)
  PROVE  OrdersIInv'
<1> DEFINE s == row.status
           t == job[r].target
<1>1. CASE rejectedMidway(r, s)
  <2>1. ~(job[r].tries > 0)
    BY <1>1, SlotTyped DEF rejectedMidway, JobOK
  <2> QED
    BY <1>1, <2>1, ThrowStep DEF LoadOrder
<1>2. CASE ~rejectedMidway(r, s) /\ s = t
  BY <1>2, FinishStep DEF LoadOrder
<1>3. CASE ~rejectedMidway(r, s) /\ s # t /\ <<s, t>> \in ORDER_TRANSITIONS
  <2> DEFINE j == [job[r] EXCEPT !.pc = "write", !.read = s]
  <2>1. job[r].tries # 2
    BY SlotTyped DEF LoadOrder, JobOK
  <2>2. j \in Job /\ j.pc = "write" /\ j.read = s /\ j.target = t /\ j.role = job[r].role /\ j.tries = job[r].tries
    BY SlotTyped DEF Job
  <2>3. job[r].role = "RESTAURANT_OWNER" /\ t = "CANCELLED" => s = "CONFIRMED"
    BY <1>3 DEF rejectedMidway
  <2>4. job' = [job EXCEPT ![r].pc = "write", ![r].read = s] /\ UNCHANGED <<row, staged>>
    BY <1>3 DEF LoadOrder, isTransitionAllowed
  <2>5. job' = [job EXCEPT ![r] = j]
    BY <2>4, SlotTyped DEF OrdersIInv, OrdersTypeOK, Job
  <2> HIDE DEF j
  <2>6. job[r].tries > 0 => job[r].role = "ADMIN" /\ t \in HandledTarget
    BY SlotTyped DEF JobOK
  <2>7. job[r].tries <= 2
    BY SlotTyped DEF JobOK
  <2>8. height(s) <= height(s)
    BY SlotTyped, Heights
  <2>9. JobOK(j)
    BY <1>3, <2>1, <2>2, <2>3, <2>6, <2>7, <2>8 DEF JobOK
  <2> QED
    BY <2>2, <2>4, <2>5, <2>9, FreshSlot
<1>4. CASE ~rejectedMidway(r, s) /\ s # t /\ <<s, t>> \notin ORDER_TRANSITIONS
  <2>1. ASSUME job[r].tries > 0 PROVE job[r].tries = 1 /\ Overtaken(t)
    <3>1. job[r].tries = 1
      BY <2>1, FirstRun DEF LoadOrder
    <3>2. Reached(t)
      BY <2>1, SlotTyped DEF LoadOrder, JobOK
    <3> QED
      BY <1>4, <3>1, <3>2, SlotTyped, Heights DEF Reached, Overtaken
  <2> QED
    BY <1>4, <2>1, ThrowStep DEF LoadOrder, isTransitionAllowed
<1> QED
  BY <1>1, <1>2, <1>3, <1>4

LEMMA LoseStep ==
  ASSUME OrdersIInv, NEW r \in OrderRequest, LoseRace(r)
  PROVE  OrdersIInv'
<1>1. CASE row.status = job[r].target
  BY <1>1, FinishStep DEF LoseRace
<1>2. CASE row.status # job[r].target
  <2>1. ASSUME job[r].tries > 0 PROVE job[r].tries = 1 /\ Overtaken(job[r].target)
    <3>1. job[r].tries = 1 /\ job[r].target \in HandledTarget
      BY <2>1, FirstRun DEF LoseRace
    <3>2. /\ job[r].read \in OrderStatus
          /\ <<job[r].read, job[r].target>> \in ORDER_TRANSITIONS
          /\ height(job[r].read) <= height(row.status) /\ row.status # job[r].read
      BY <2>1, SlotTyped DEF LoseRace, JobOK, Job
    <3> QED
      BY <3>1, <3>2, SlotTyped, Heights, OnePredecessor DEF Overtaken
  <2> QED
    BY <1>2, <2>1, ThrowStep DEF LoseRace
<1> QED
  BY <1>1, <1>2
-----------------------------------------------------------------------------
(* The step that moves the order *)

\* What is written, whatever the row said of its ending before.
LEMMA Written ==
  ASSUME OrdersIInv, NEW r \in OrderRequest, UpdateStatus(r)
  PROVE  /\ <<row.status, job[r].target>> \in ORDER_TRANSITIONS
         /\ job[r].role = "RESTAURANT_OWNER" /\ job[r].target = "CANCELLED" => row.status = "CONFIRMED"
         /\ height(row.status) < height(job[r].target)
         /\ row.endedBy = "none"
         /\ row' \in [status : OrderStatus, endedBy : EndedBy, payment : PaymentKnown]
         /\ row'.status = job[r].target /\ row'.endedBy = outcomeFor(job[r].target, job[r].role)
         /\ staged' = Append(staged, job[r].target)
<1> DEFINE t == job[r].target
           by == outcomeFor(t, job[r].role)
<1>1. job[r] \in Job /\ JobOK(job[r]) /\ t \in OrderStatus /\ job[r].role \in Roles
  BY SlotTyped DEF Job
<1>2. job[r].pc = "write" /\ job[r].read = row.status
  BY DEF UpdateStatus, write
<1>3. /\ <<row.status, t>> \in ORDER_TRANSITIONS
      /\ job[r].role = "RESTAURANT_OWNER" /\ t = "CANCELLED" => row.status = "CONFIRMED"
  BY <1>1, <1>2 DEF JobOK
<1>4. row.endedBy = "none"
  BY <1>3 DEF OrdersIInv, EndedTellsWho, ORDER_TRANSITIONS
<1>5. by \in EndedBy
  BY <1>1 DEF outcomeFor, EndedBy, Roles
<1>6. staged' = Append(staged, t)
  BY DEF UpdateStatus, write
<1>7. row' = [row EXCEPT !.status = t, !.endedBy = IF by = "none" THEN @ ELSE by]
  BY DEF UpdateStatus, write
<1>8. row \in [status : OrderStatus, endedBy : EndedBy, payment : PaymentKnown]
  BY DEF OrdersIInv, OrdersTypeOK
<1> HIDE DEF by
<1>9. /\ row'.status = t /\ row'.endedBy = by
      /\ row' \in [status : OrderStatus, endedBy : EndedBy, payment : PaymentKnown]
  BY <1>1, <1>4, <1>5, <1>7, <1>8
<1> QED
  BY <1>3, <1>4, <1>6, <1>9, Heights DEF by

LEMMA UpdateStep ==
  ASSUME OrdersIInv, NEW r \in OrderRequest, UpdateStatus(r)
  PROVE  OrdersIInv'
<1> DEFINE t == job[r].target
           by == outcomeFor(t, job[r].role)
<1>1. /\ t \in OrderStatus /\ job[r].role \in Roles /\ row.status \in OrderStatus
      /\ staged \in Seq(OrderStatus) /\ Len(staged) \in Nat
  BY SlotTyped DEF Job, OrdersIInv, OrdersTypeOK
<1>2. /\ <<row.status, t>> \in ORDER_TRANSITIONS
      /\ job[r].role = "RESTAURANT_OWNER" /\ t = "CANCELLED" => row.status = "CONFIRMED"
      /\ height(row.status) < height(t) /\ row.endedBy = "none"
      /\ row'.status = t /\ row'.endedBy = by
      /\ row' \in [status : OrderStatus, endedBy : EndedBy, payment : PaymentKnown]
      /\ staged' = Append(staged, t)
  BY Written
<1>3. /\ staged' \in Seq(OrderStatus) /\ Len(staged') = Len(staged) + 1
      /\ DOMAIN staged' = 1..(Len(staged) + 1) /\ DOMAIN staged = 1..Len(staged)
      /\ \A i \in 1..Len(staged) : staged'[i] = staged[i]
      /\ staged'[Len(staged) + 1] = t
  BY <1>1, <1>2
<1>4. OrdersTypeOK'
  BY <1>2, <1>3, IdleIsJob DEF OrdersIInv, OrdersTypeOK, UpdateStatus, write, finish
<1>5. AnnouncedOnce'
  <2>1. Last(staged') = t
    BY <1>3 DEF Last
  <2>2. ASSUME NEW i \in 1..(Len(staged') - 1)
        PROVE  <<staged'[i], staged'[i + 1]>> \in ORDER_TRANSITIONS
    <3>1. CASE i = Len(staged)
      BY <1>2, <1>3, <3>1, SMTT(30) DEF OrdersIInv, AnnouncedOnce, Last
    <3>2. CASE i # Len(staged)
      <4>1. i \in 1..(Len(staged) - 1) /\ i \in 1..Len(staged) /\ i + 1 \in 1..Len(staged)
        <5>1. i \in Int /\ 1 <= i /\ i <= Len(staged)
          BY <1>1, <1>3
        <5> QED
          BY <1>1, <3>2, <5>1
      <4>2. staged'[i] = staged[i] /\ staged'[i + 1] = staged[i + 1]
        BY <1>3, <4>1
      <4> QED
        BY <4>1, <4>2 DEF OrdersIInv, AnnouncedOnce, isTransitionAllowed
    <3> QED
      BY <3>1, <3>2
  <2> QED
    BY <1>2, <2>1, <2>2 DEF AnnouncedOnce, isTransitionAllowed
<1>6. EndedTellsWho'
  BY <1>1, <1>2 DEF EndedTellsWho, outcomeFor, Roles, OrderStatus
<1>7. Climbs'
  <2> SUFFICES ASSUME NEW i \in 1..(Len(staged) + 1) PROVE height(staged'[i]) <= height(t)
    BY <1>2, <1>3 DEF Climbs
  <2>1. height(t) \in 0..9 /\ height(row.status) \in 0..9
    BY <1>1, Heights
  <2>2. CASE i = Len(staged) + 1
    BY <1>3, <2>1, <2>2
  <2>3. CASE i # Len(staged) + 1
    <3>1. i \in 1..Len(staged) /\ staged'[i] = staged[i] /\ staged[i] \in OrderStatus
      BY <1>1, <1>3, <2>3
    <3>2. height(staged[i]) <= height(row.status) /\ height(staged[i]) \in 0..9
      BY <1>3, <3>1, Heights DEF OrdersIInv, Climbs
    <3> QED
      BY <1>2, <2>1, <3>1, <3>2
  <2> QED
    BY <2>2, <2>3
<1>8. RejectedBeforeCooking'
  <2> SUFFICES ASSUME by = "RESTAURANT", NEW i \in 1..(Len(staged) + 1), staged'[i] = "PREPARING"
               PROVE  FALSE
    BY <1>2, <1>3 DEF RejectedBeforeCooking
  <2>1. t = "CANCELLED" /\ row.status = "CONFIRMED"
    BY <1>1, <1>2 DEF outcomeFor, Roles
  <2>2. i \in 1..Len(staged) /\ staged[i] = "PREPARING"
    BY <1>1, <1>3, <2>1
  <2> QED
    BY <1>3, <2>1, <2>2 DEF OrdersIInv, Climbs, height
<1>9. JobsAgree'
  <2>1. job'[r] = OrderIdle /\ \A q \in OrderRequest \ {r} : job'[q] = job[q] /\ job[q] \in Job
    BY DEF UpdateStatus, write, finish, OrdersIInv, OrdersTypeOK
  <2>2. JobOK(OrderIdle)'
    BY DEF JobOK, OrderIdle
  <2>3. height(row.status) <= height(row'.status)
    BY <1>1, <1>2, Heights
  <2>4. \A i \in Job : JobOK(i) => JobOK(i)'
    BY <1>1, <1>2, <2>3, OthersStayOK
  <2> QED
    BY <2>1, <2>2, <2>4 DEF OrdersIInv, JobsAgree
<1> QED
  BY <1>4, <1>5, <1>6, <1>7, <1>8, <1>9 DEF OrdersIInv

LEMMA OrdersStays == OrdersIInv /\ [OrdersNext]_ordersVars => OrdersIInv'
<1> SUFFICES ASSUME OrdersIInv, [OrdersNext]_ordersVars PROVE OrdersIInv'
  OBVIOUS
<1>1. ASSUME NEW r \in OrderRequest, NEW role \in Roles, NEW target \in OrderStatus \ {"CREATED"},
             Ask(r, role, target)
      PROVE  OrdersIInv'
  BY <1>1, AskStep
<1>2. ASSUME NEW r \in OrderRequest, NEW event \in HandledEvent, Receive(r, event)
      PROVE  OrdersIInv'
  BY <1>2, ReceiveStep
<1>3. ASSUME NEW r \in OrderRequest, OrdersStep(r) PROVE OrdersIInv'
  BY <1>3, RecordStep, SyncStep, LoadStep, UpdateStep, LoseStep DEF OrdersStep
<1>4. CASE UNCHANGED ordersVars
  BY <1>4 DEF ordersVars, OrdersIInv, OrdersTypeOK, AnnouncedOnce, EndedTellsWho, RejectedBeforeCooking,
              Climbs, JobsAgree, JobOK, Overtaken, Reached
<1> QED
  BY <1>1, <1>2, <1>3, <1>4 DEF OrdersNext

LEMMA OrdersInvariant == OrdersSpec => []OrdersIInv
<1> QED
  BY OrdersStart, OrdersStays, PTL DEF OrdersSpec

-----------------------------------------------------------------------------
\* Whoever races for an order, and however often its events are redelivered:
\* each status is announced once, an ended order tells who ended it, no order is
\* rejected midway, and no late event reaches the dead-letter topic as long as a
\* handler has three runs (OrdersService.updateStatus, syncStatusFromEvent).
THEOREM OrdersCorrect ==
  ASSUME Attempts >= 3
  PROVE  OrdersSpec => []OrdersInv
<1>1. OrdersIInv => OrdersInv
  <2>1. ASSUME OrdersIInv, NEW r \in OrderRequest PROVE job[r].tries < Attempts
    <3>1. job[r].tries \in 0..Attempts /\ job[r].tries <= 2
      BY <2>1, SlotTyped DEF Job, JobOK
    <3> QED
      BY <3>1, OrdersAssumption
  <2> QED
    BY <2>1 DEF OrdersIInv, OrdersInv, NeverPoisons
<1> QED
  BY <1>1, OrdersInvariant, PTL

\* The row and its outbox are the life of an order that every other service
\* relies on: no request, however it races, moves it off the table or moves it
\* without its event (OrdersRepository.updateStatus).
THEOREM OrdersImplement == OrdersSpec => ImplementsOrderLife
<1>1. OrdersInit => Life!OrderInit
  BY DEF OrdersInit, Life!OrderInit, ToSet
<1>2. OrdersIInv /\ [OrdersNext]_ordersVars => [\E target \in Life!OrderStatus : Life!SetStatus(target)]_(Life!orderVars)
  <2> SUFFICES ASSUME OrdersIInv, [OrdersNext]_ordersVars,
                      ~UNCHANGED <<row.status, ToSet(staged)>>
               PROVE  \E target \in OrderStatus : Life!SetStatus(target)
    BY DEF Life!orderVars, OrderStatus, Life!OrderStatus
  <2>1. ASSUME row'.status = row.status, UNCHANGED staged PROVE FALSE
    BY <2>1
  <2>2. PICK r \in OrderRequest : UpdateStatus(r)
    <3>1. ASSUME NEW r \in OrderRequest, RecordPayment(r) PROVE row'.status = row.status /\ UNCHANGED staged
      BY <3>1 DEF RecordPayment, OrdersIInv, OrdersTypeOK
    <3> QED
      BY <2>1, <3>1 DEF OrdersNext, OrdersStep, Ask, Receive, SyncStatusFromEvent, LoadOrder, LoseRace, ordersVars
  <2> DEFINE t == job[r].target
  <2>3. t \in OrderStatus /\ staged \in Seq(OrderStatus)
    BY SlotTyped DEF OrdersIInv, OrdersTypeOK
  <2>4. <<row.status, t>> \in ORDER_TRANSITIONS /\ row'.status = t /\ staged' = Append(staged, t)
    BY <2>2, Written
  <2>5. ToSet(staged') = ToSet(staged) \cup {t}
    BY <2>3, <2>4 DEF ToSet
  <2> QED
    BY <2>3, <2>4, <2>5 DEF Life!SetStatus, Life!accepts, Life!isTransitionAllowed, isTransitionAllowed,
                            ORDER_TRANSITIONS, Life!ORDER_TRANSITIONS
<1> QED
  BY <1>1, <1>2, OrdersInvariant, PTL DEF OrdersSpec, ImplementsOrderLife, Life!OrderSpec

-----------------------------------------------------------------------------
(* Money (Pricing) *)

\* An amount keeps its value as a decimal of two places.
LEMMA DecimalExact ==
  ASSUME NEW p \in Nat
  PROVE  fromPiasters(p) \in Decimal /\ valueOf(fromPiasters(p)) = p
<1>1. p \div 100 \in Nat /\ p % 100 \in 0..99 /\ p = 100 * (p \div 100) + (p % 100)
  OBVIOUS
<1> QED
  BY <1>1 DEF fromPiasters, Decimal, valueOf

\* Less than half a piaster of float error is rounded away.
LEMMA DustRoundedOff ==
  ASSUME NEW sum \in Sum, NEW total \in (100 * sum - Dust)..(100 * sum + Dust)
  PROVE  sum \in Nat /\ toPiasters(total) = sum
<1>1. sum \in Nat /\ sum > 0 /\ Dust \in 0..49
  BY PricingAssumption
<1>2. 100 * sum <= total + 50 /\ total + 50 < 100 * sum + 100
  BY <1>1
<1> QED
  BY <1>1, <1>2 DEF toPiasters

\* A share of an amount is some of it.
LEMMA ShareWithin ==
  ASSUME NEW amount \in Nat, NEW percent \in 0..100
  PROVE  percentOf(amount, percent) \in 0..amount
<1>1. amount * percent \in Nat /\ amount * percent <= amount * 100
  OBVIOUS
<1>2. \A n \in Nat : n <= amount * 100 => n \div 100 \in 0..amount
  OBVIOUS
<1> QED
  BY <1>1, <1>2 DEF percentOf

Priced(split, then) ==
  /\ valueOf(split.subtotal) = then.sum
  /\ valueOf(split.total) = then.sum + then.policy.fee
  /\ valueOf(split.driver) + valueOf(split.platform) = then.policy.fee
  /\ valueOf(split.driver) <= then.policy.fee /\ valueOf(split.cancel) <= then.policy.fee

LEMMA PricedByPolicy ==
  ASSUME NEW sum \in Sum, NEW total \in (100 * sum - Dust)..(100 * sum + Dust), NEW p \in Policy
  PROVE  priceOrder(total, p) \in Snapshot /\ Priced(priceOrder(total, p), [sum |-> sum, policy |-> p])
<1>1. p.fee \in Nat /\ p.share \in 0..100 /\ p.cancelShare \in 0..100
  BY PricingAssumption
<1>2. sum \in Nat /\ toPiasters(total) = sum
  BY DustRoundedOff
<1> DEFINE driver == percentOf(p.fee, p.share)
           cancel == percentOf(p.fee, p.cancelShare)
<1>3. driver \in 0..p.fee /\ cancel \in 0..p.fee
  BY <1>1, ShareWithin
<1>4. keeps(p.fee, p) \in Nat /\ driver + keeps(p.fee, p) = p.fee
  BY <1>1, <1>3 DEF keeps
<1>5. \A a \in {sum, p.fee, sum + p.fee, driver, keeps(p.fee, p), cancel} :
        fromPiasters(a) \in Decimal /\ valueOf(fromPiasters(a)) = a
  BY <1>1, <1>2, <1>3, <1>4, DecimalExact
<1> HIDE DEF driver, cancel
<1>6. priceOrder(total, p) =
        [subtotal |-> fromPiasters(sum), fee |-> fromPiasters(p.fee), total |-> fromPiasters(sum + p.fee),
         driver |-> fromPiasters(driver), platform |-> fromPiasters(keeps(p.fee, p)),
         cancel |-> fromPiasters(cancel)]
  BY <1>2 DEF priceOrder, driver, cancel
<1> QED
  BY <1>1, <1>2, <1>3, <1>4, <1>5, <1>6 DEF Snapshot, Priced

Copied(b) ==
  /\ charged[b] \in {NoAmount, snapshot[b].total}
  /\ earned[b] \in {NoAmount, [type |-> "DELIVERY_EARNING", amount |-> snapshot[b].driver],
                    [type |-> "CANCELLATION_COMPENSATION", amount |-> snapshot[b].cancel]}

PricingInv ==
  /\ PricingTypeOK
  /\ \A b \in Bill :
       IF snapshot[b] = NoAmount THEN charged[b] = NoAmount /\ earned[b] = NoAmount
       ELSE atPlacing[b] \in [sum : Sum, policy : Policy] /\ Priced(snapshot[b], atPlacing[b]) /\ Copied(b)

LEMMA PricingStarts == PricingInit => PricingInv
BY DEF PricingInit, PricingInv, PricingTypeOK

LEMMA PricingSteps == PricingInv /\ [PricingNext]_pricingVars => PricingInv'
<1> SUFFICES ASSUME PricingInv, [PricingNext]_pricingVars PROVE PricingInv'
  OBVIOUS
<1> USE DEF PricingInv, PricingTypeOK
<1>1. ASSUME NEW b \in Bill, NEW sum \in Sum, PlaceOrder(b, sum) PROVE PricingInv'
  <2>1. PICK total \in (100 * sum - Dust)..(100 * sum + Dust) :
          snapshot' = [snapshot EXCEPT ![b] = priceOrder(total, policy)]
    BY <1>1 DEF PlaceOrder
  <2>2. priceOrder(total, policy) \in Snapshot
        /\ Priced(priceOrder(total, policy), [sum |-> sum, policy |-> policy])
    BY PricedByPolicy
  <2>3. [sum |-> sum, policy |-> policy] \in [sum : Sum, policy : Policy]
    OBVIOUS
  <2>4. PricingTypeOK'
    BY <1>1, <2>1, <2>2, <2>3 DEF PlaceOrder
  <2>5. snapshot[b] = NoAmount /\ charged[b] = NoAmount /\ earned[b] = NoAmount
    BY <1>1 DEF PlaceOrder
  <2>6. \A c \in Bill \ {b} : snapshot'[c] = snapshot[c] /\ atPlacing'[c] = atPlacing[c]
    BY <1>1, <2>1 DEF PlaceOrder
  <2>7. snapshot'[b] = priceOrder(total, policy) /\ atPlacing'[b] = [sum |-> sum, policy |-> policy]
    BY <1>1, <2>1 DEF PlaceOrder
  <2>8. UNCHANGED <<charged, earned>>
    BY <1>1 DEF PlaceOrder
  <2> QED
    BY <2>2, <2>3, <2>4, <2>5, <2>6, <2>7, <2>8 DEF Copied
<1>2. ASSUME NEW b \in Bill, Charge(b) PROVE PricingInv'
  <2>1. snapshot[b] \in Snapshot /\ snapshot[b].total \in Decimal
    BY <1>2 DEF Charge, Snapshot
  <2> QED
    BY <1>2, <2>1 DEF Charge, Copied
<1>3. ASSUME NEW b \in Bill, Deliver(b) \/ CancelAfterPickup(b) PROVE PricingInv'
  <2>1. snapshot[b] \in Snapshot /\ snapshot[b].driver \in Decimal /\ snapshot[b].cancel \in Decimal
    BY <1>3 DEF Deliver, CancelAfterPickup, pays, Snapshot
  <2>2. earned' \in [Bill -> Entry \cup {NoAmount}]
    BY <1>3, <2>1 DEF Deliver, CancelAfterPickup, pays, Entry
  <2> QED
    BY <1>3, <2>1, <2>2 DEF Deliver, CancelAfterPickup, pays, Copied
<1>4. CASE (\E p \in Policy : Restart(p)) \/ UNCHANGED pricingVars
  BY <1>4 DEF Restart, pricingVars, Copied
<1> QED
  BY <1>1, <1>2, <1>3, <1>4 DEF PricingNext

(***************************************************************************)
(* For every fee, share and cart: what is charged is what the items cost,  *)
(* the driver earns and the platform keeps, to the piaster, by the policy  *)
(* at checkout (priceOrder, getFeeSplit, earningFor).                      *)
(***************************************************************************)
THEOREM MoneyNeverLeaks == PricingSpec => []PricesKept
<1>1. PricingInv => PricesKept
  <2> SUFFICES ASSUME PricingInv, NEW b \in Bill, snapshot[b] # NoAmount
               PROVE  LET split == snapshot[b]
                          then == atPlacing[b]
                      IN
                      /\ valueOf(split.subtotal) = then.sum
                      /\ valueOf(split.driver) + valueOf(split.platform) = then.policy.fee
                      /\ charged[b] # NoAmount => valueOf(charged[b]) = then.sum + then.policy.fee
                      /\ earned[b] # NoAmount =>
                           /\ valueOf(earned[b].amount) <= then.policy.fee
                           /\ earned[b].type = "DELIVERY_EARNING" =>
                                valueOf(earned[b].amount) + valueOf(split.platform) = then.policy.fee
    BY DEF PricesKept, MoneyAddsUp, PricingInv
  <2> QED
    BY DEF PricingInv, Priced, Copied
<1> QED
  BY <1>1, PricingStarts, PricingSteps, PTL DEF PricingSpec

-----------------------------------------------------------------------------
(* The seeding scripts, run and run again (Seeding) *)

Goal == {"DELIVERED", "CANCELLED", "FAILED", "PREPARING", "PICKED_UP", "CONFIRMED"}
Customers == {CustomerA, CustomerB}
Ride == {"none", "ours", "theirs", "over"}
Placed == [by : Customers, lines : Nat, status : OrderStatus, coming : Seq(OrderStatus), ride : Ride]

\* The stages of a run: over the catalog, at an order it placed, from its first scenario on.
Early == {"accounts", "catalog", "eatery", "menu", "orders"}
Working == {"pay", "awaitPending", "process", "awaitOutcome", "cancel", "prepare", "shift", "ready",
            "awaitDriver", "pickup", "awaitPickup", "complete", "awaitDelivered"}
AtScenarios == Working \cup {"next", "clear", "fill", "order", "finished"}

SeedState ==
  [pc : {"none"} \cup Early \cup AtScenarios, more : BOOLEAN, todo : SUBSET (Account \cup Eatery),
   known : SUBSET (Name \cup OrderStatus), offered : SUBSET Food, left : Seq(Customers \X Goal), eatery : Eatery \cup {"none"},
   filled : Nat, again : BOOLEAN, had : Nat]

SeedTypeOK ==
  /\ script \in Script /\ accounts \subseteq Account /\ made \in [Name -> Nat] /\ available \subseteq Food
  /\ door \in [Eatery -> {"OPEN", "BUSY", "CLOSED"}] /\ basket \in [Customers -> Nat]
  /\ seeded \in Seq(Placed) /\ seed \in SeedState /\ complete \in BOOLEAN

\* How far an order is, and what is on its way: nothing overtakes or is lost.
OnCourse(o) ==
  \/ /\ o.ride = "none" /\ o.coming = <<>>
     /\ o.status \in {"CREATED", "PAYMENT_PENDING", "CONFIRMED", "FAILED", "CANCELLED", "PREPARING", "READY_FOR_PICKUP"}
  \/ o.ride = "none" /\ o.status = "CREATED" /\ o.coming = <<"PAYMENT_PENDING">>
  \/ o.ride = "none" /\ o.status = "PAYMENT_PENDING" /\ o.coming \in {<<"CONFIRMED">>, <<"FAILED">>}
  \/ /\ o.ride \in {"ours", "theirs"}
     /\ \/ o.status = "READY_FOR_PICKUP" /\ o.coming = <<"DRIVER_ASSIGNED">>
        \/ o.status = "DRIVER_ASSIGNED" /\ o.coming = <<>>
  \/ /\ o.ride = "ours"
     /\ \/ o.status = "READY_FOR_PICKUP" /\ o.coming = <<"DRIVER_ASSIGNED", "PICKED_UP">>
        \/ o.status = "DRIVER_ASSIGNED" /\ o.coming = <<"PICKED_UP">>
        \/ o.status = "PICKED_UP" /\ o.coming = <<>>
  \/ /\ o.ride = "over"
     /\ \/ o.status = "READY_FOR_PICKUP" /\ o.coming = <<"DRIVER_ASSIGNED", "PICKED_UP", "DELIVERED">>
        \/ o.status = "DRIVER_ASSIGNED" /\ o.coming = <<"PICKED_UP", "DELIVERED">>
        \/ o.status = "PICKED_UP" /\ o.coming = <<"DELIVERED">>
        \/ o.status = "DELIVERED" /\ o.coming = <<>>

\* What the run has brought the order it works on to.
Brought(point, o, aim) ==
  /\ point \in {"pay", "awaitPending", "process", "awaitOutcome", "cancel", "prepare", "shift", "ready"} => o.ride = "none"
  /\ point = "pay" => o.status = "CREATED" /\ o.coming = <<>>
  /\ point \in {"awaitPending", "process"} => destined(o) = "PAYMENT_PENDING"
  /\ point = "process" => o.coming = <<>>
  /\ point = "awaitOutcome" => destined(o) = IF aim = "FAILED" THEN "FAILED" ELSE "CONFIRMED"
  /\ point \in {"cancel", "prepare"} => o.status = "CONFIRMED" /\ o.coming = <<>>
  /\ point \in {"shift", "ready"} => o.status = "PREPARING" /\ o.coming = <<>>
  /\ point = "awaitDriver" => destined(o) \in {"READY_FOR_PICKUP", "DRIVER_ASSIGNED"}
  /\ point = "pickup" => o.ride = "ours" /\ destined(o) = "DRIVER_ASSIGNED"
  /\ point \in {"awaitPickup", "complete"} => o.ride = "ours" /\ destined(o) = "PICKED_UP"
  /\ point = "awaitDelivered" => o.ride = "over"
  /\ point = "cancel" => aim = "CANCELLED"
  /\ point = "prepare" => aim \in {"PREPARING", "PICKED_UP", "DELIVERED"}
  /\ point \in {"shift", "ready", "awaitDriver", "pickup"} => aim \in {"PICKED_UP", "DELIVERED"}
  /\ point = "awaitPickup" => aim = "PICKED_UP"
  /\ point \in {"complete", "awaitDelivered"} => aim = "DELIVERED"

\* An order that is not the one at work will be what the scenario asks for.
met(scenario) ==
  \E n \in DOMAIN seeded : /\ ~(n = Len(seeded) /\ seed.pc \in Working)
                           /\ seeded[n].by = scenario[1] /\ destined(seeded[n]) = scenario[2]

Menu == [names : SUBSET Name, offered : SUBSET Food]

\* The rows of a restaurant none of which was hidden: each is there once, and the cached
\* menu, if any, has them.
Clear(r) ==
  /\ r \notin crowded /\ copy[r] \subseteq {menuOf(r)}
  /\ \A n \in of(r) : made[n] <= 1 /\ (made[n] > 0 => n \in stock)

RowsHold ==
  /\ stock \subseteq Name /\ available \subseteq stock /\ hidden \subseteq Eatery
  /\ copy \in [Eatery -> SUBSET Menu] /\ reader \in [Eatery -> SUBSET Menu]
  /\ \A n \in stock : made[n] > 0
  /\ \A r \in Eatery : stock \cap of(r) # {} => r \in stock
  /\ \A r \in Eatery : \A m \in copy[r] \cup reader[r] : m.names \subseteq stock \cap of(r)
  /\ \A r \in Eatery \ hidden : Clear(r)

Stocked(r) ==
  /\ \A n \in of(r) : made[n] > 0
  /\ door[r] = doorOf[r]
  /\ script # "base" /\ r \notin hidden => \A d \in of(r) \cap Food : d \in available <=> wanted(d)

atEatery == seed.pc \in {"eatery", "menu"}

ProgressHolds ==
  /\ seed.pc = "accounts" => Account \subseteq accounts \cup seed.todo /\ seed.todo \subseteq Account
  /\ seed.pc \notin {"none", "accounts"} => accounts = Account
  /\ seed.pc = "catalog" \/ atEatery =>
       /\ seed.todo \subseteq Eatery
       /\ \A r \in Eatery \ seed.todo : (atEatery /\ r = here) \/ Stocked(r)
  /\ seed.pc \in AtScenarios \cup {"orders"} => \A r \in Eatery : Stocked(r)

\* What a run knows of a restaurant is there; of one with nothing hidden it knows all it was shown.
ViewHolds ==
  /\ atEatery => /\ here \in Eatery /\ seed.known \subseteq stock \cap of(here)
                 /\ here \notin hidden /\ here \in stock => here \in seed.known
  /\ seed.pc = "menu" =>
       /\ here \in seed.known
       /\ here \notin hidden => /\ stock \cap of(here) \subseteq seed.known
                                /\ seed.offered = available \cap of(here)

CatalogHolds == RowsHold /\ ProgressHolds /\ ViewHolds

BasketsHold ==
  script # "base" =>
    /\ seed.pc = "fill" => basket[customer] = seed.filled /\ seed.filled < Lines
    /\ seed.pc = "order" => basket[customer] = Lines
    /\ seed.pc = "finished" /\ script = "demo" => basket[CustomerA] = Lines
    /\ \A n \in DOMAIN seeded : seeded[n].lines = Lines

OrdersHold ==
  /\ \A n \in DOMAIN seeded : OnCourse(seeded[n])
  /\ seed.pc \in Working \cup {"order"} => seed.left # <<>>
  /\ seed.pc = "finished" => seed.left = <<>>
  /\ seed.pc \in Working =>
       /\ Len(seeded) > 0 /\ seeded[Len(seeded)].by = customer
       /\ Brought(seed.pc, seeded[Len(seeded)], goal)

ScenariosHold ==
  /\ seed.pc \in AtScenarios => ToSet(seed.left) \subseteq ToSet(scenarios)
                                /\ \A s \in ToSet(scenarios) : s \in ToSet(seed.left) \/ met(s)
  /\ complete => \A s \in ToSet(scenarios) : met(s)
  /\ script = "demo" /\ seed.pc \in AtScenarios => \A t \in seed.known \cap Goal : met(<<CustomerA, t>>)

\* Only an assignment may be under way while a run has placed nothing.
AtRest == \A n \in DOMAIN seeded : seeded[n].coming # <<>> => destined(seeded[n]) = "DRIVER_ASSIGNED"

AgainHolds ==
  /\ seed.pc \in Early => AtRest
  /\ seed.again =>
       /\ complete /\ ~seed.more
       /\ script # "base" =>
            /\ Len(seeded) = seed.had /\ AtRest
            /\ seed.pc \notin Working \cup {"order"}
            /\ seed.pc \in {"clear", "fill"} => seed.left = <<>>
            /\ script = "demo" /\ seed.pc \in AtScenarios => \A s \in ToSet(scenarios) : s[2] \in seed.known

SeedIInv == SeedTypeOK /\ CatalogHolds /\ BasketsHold /\ OrdersHold /\ ScenariosHold /\ AgainHolds

-----------------------------------------------------------------------------
LEMMA Ends ==
  ASSUME NEW o \in Placed, OnCourse(o)
  PROVE  /\ destined(o) \in OrderStatus
         /\ o.coming = <<>> => destined(o) = o.status
         /\ o.coming = <<"PAYMENT_PENDING">> => destined(o) = "PAYMENT_PENDING"
         /\ o.coming = <<"CONFIRMED">> => destined(o) = "CONFIRMED"
         /\ o.coming = <<"FAILED">> => destined(o) = "FAILED"
         /\ o.coming = <<"DRIVER_ASSIGNED">> => destined(o) = "DRIVER_ASSIGNED"
         /\ o.coming \in {<<"PICKED_UP">>, <<"DRIVER_ASSIGNED", "PICKED_UP">>} => destined(o) = "PICKED_UP"
         /\ o.ride = "over" => destined(o) = "DELIVERED"
<1>1. PICK q : q = o.coming
  OBVIOUS
<1>2. q = <<>> => destined(o) = o.status
  BY <1>1 DEF destined
<1>3. ASSUME NEW x, q = <<x>>
      PROVE  destined(o) = x
  <2>1. q # <<>> /\ Len(q) = 1 /\ q[1] = x
    BY <1>3
  <2> QED
    BY <1>1, <2>1 DEF destined, Last
<1>4. ASSUME NEW x, NEW y, q = <<x, y>>
      PROVE  destined(o) = y
  <2>1. q # <<>> /\ Len(q) = 2 /\ q[2] = y
    BY <1>4
  <2> QED
    BY <1>1, <2>1 DEF destined, Last
<1>5. ASSUME NEW x, NEW y, NEW z, q = <<x, y, z>>
      PROVE  destined(o) = z
  <2>1. q # <<>> /\ Len(q) = 3 /\ q[3] = z
    BY <1>5
  <2> QED
    BY <1>1, <2>1 DEF destined, Last
<1>6. o.ride = "over" => destined(o) = "DELIVERED"
  BY <1>1, <1>2, <1>3, <1>4, <1>5 DEF OnCourse
<1>7. /\ q = <<"PAYMENT_PENDING">> => destined(o) = "PAYMENT_PENDING"
      /\ q = <<"CONFIRMED">> => destined(o) = "CONFIRMED"
      /\ q = <<"FAILED">> => destined(o) = "FAILED"
      /\ q = <<"DRIVER_ASSIGNED">> => destined(o) = "DRIVER_ASSIGNED"
      /\ q \in {<<"PICKED_UP">>, <<"DRIVER_ASSIGNED", "PICKED_UP">>} => destined(o) = "PICKED_UP"
  BY <1>3, <1>4
<1>8. \/ q \in {<<>>, <<"PAYMENT_PENDING">>, <<"CONFIRMED">>, <<"FAILED">>, <<"DRIVER_ASSIGNED">>}
      \/ q \in {<<"PICKED_UP">>, <<"DRIVER_ASSIGNED", "PICKED_UP">>} \/ o.ride = "over"
  BY <1>1 DEF OnCourse
<1>9. o.status \in OrderStatus
  BY DEF Placed
<1>10. destined(o) \in OrderStatus
  BY <1>2, <1>6, <1>7, <1>8, <1>9 DEF OrderStatus
<1> QED
  BY <1>1, <1>2, <1>6, <1>7, <1>10

\* What a status says of the way to come.
LEMMA Standing ==
  ASSUME NEW o \in Placed, OnCourse(o)
  PROVE  /\ o.status \in Goal \ {"PICKED_UP"} => o.coming = <<>>
         /\ o.status = "PICKED_UP" => o.coming = <<>> \/ destined(o) = "DELIVERED"
         /\ o.status = "READY_FOR_PICKUP" /\ o.ride = "none" => o.coming = <<>>
<1>1. o.status = "PICKED_UP" => o.coming = <<>> \/ o.ride = "over"
  BY DEF OnCourse
<1> QED
  BY <1>1, Ends DEF OnCourse, Goal

\* The next thing on its way arrives.
LEMMA Arrival ==
  ASSUME NEW o \in Placed, OnCourse(o), o.coming # <<>>,
         NEW p, p = [o EXCEPT !.status = Head(o.coming), !.coming = Tail(@)]
  PROVE  /\ p \in Placed /\ OnCourse(p) /\ destined(p) = destined(o)
         /\ p.by = o.by /\ p.lines = o.lines /\ p.ride = o.ride
<1>1. PICK h, t, q : h = Head(o.coming) /\ t = Tail(o.coming) /\ q = o.coming
  OBVIOUS
<1>2. h \in OrderStatus /\ t \in Seq(OrderStatus)
  BY <1>1 DEF Placed
<1>3. /\ p \in Placed /\ p.status = h /\ p.coming = t
      /\ p.by = o.by /\ p.lines = o.lines /\ p.ride = o.ride
  BY <1>1, <1>2 DEF Placed
<1>4. ASSUME NEW x, q = <<x>>
      PROVE  h = x /\ t = <<>>
  BY <1>1, <1>4
<1>5. ASSUME NEW x, NEW y, q = <<x, y>>
      PROVE  h = x /\ t = <<y>>
  BY <1>1, <1>5
<1>6. ASSUME NEW x, NEW y, NEW z, q = <<x, y, z>>
      PROVE  h = x /\ t = <<y, z>>
  BY <1>1, <1>6
<1>7. ASSUME NEW x \in {"PAYMENT_PENDING", "CONFIRMED", "FAILED", "DRIVER_ASSIGNED", "PICKED_UP"}, q = <<x>>,
             o.ride # "over"
      PROVE  OnCourse(p) /\ destined(p) = destined(o)
  <2>1. h = x /\ t = <<>>
    BY <1>4, <1>7
  <2>2. OnCourse(p)
    BY <1>1, <1>3, <1>7, <2>1 DEF OnCourse
  <2>3. destined(p) = x
    BY <1>3, <2>1, <2>2, Ends
  <2>4. destined(o) = x
    BY <1>1, <1>7, Ends
  <2> QED
    BY <2>2, <2>3, <2>4
<1>8. ASSUME q = <<"DRIVER_ASSIGNED", "PICKED_UP">>, o.ride # "over"
      PROVE  OnCourse(p) /\ destined(p) = destined(o)
  <2>1. h = "DRIVER_ASSIGNED" /\ t = <<"PICKED_UP">>
    BY <1>5, <1>8
  <2>2. o.ride = "ours"
    BY <1>1, <1>8 DEF OnCourse
  <2>3. OnCourse(p)
    BY <1>3, <2>1, <2>2 DEF OnCourse
  <2> QED
    BY <1>1, <1>3, <1>8, <2>1, <2>3, Ends
<1>9. ASSUME o.ride = "over"
      PROVE  OnCourse(p) /\ destined(p) = destined(o)
  <2>1. \/ q = <<"DRIVER_ASSIGNED", "PICKED_UP", "DELIVERED">>
        \/ q = <<"PICKED_UP", "DELIVERED">> \/ q = <<"DELIVERED">>
    BY <1>1, <1>9 DEF OnCourse
  <2>2. \/ h = "DRIVER_ASSIGNED" /\ t = <<"PICKED_UP", "DELIVERED">>
        \/ h = "PICKED_UP" /\ t = <<"DELIVERED">>
        \/ h = "DELIVERED" /\ t = <<>>
    BY <1>4, <1>5, <1>6, <2>1
  <2>3. OnCourse(p)
    BY <1>3, <1>9, <2>2 DEF OnCourse
  <2> QED
    BY <1>3, <1>9, <2>3, Ends
<1>10. \/ q = <<"DRIVER_ASSIGNED", "PICKED_UP">> \/ o.ride = "over"
       \/ \E x \in {"PAYMENT_PENDING", "CONFIRMED", "FAILED", "DRIVER_ASSIGNED", "PICKED_UP"} : q = <<x>>
  BY <1>1 DEF OnCourse
<1> QED
  BY <1>3, <1>7, <1>8, <1>9, <1>10

LEMMA ScenariosTyped ==
  ASSUME script \in Script
  PROVE  /\ scenarios \in Seq(Customers \X Goal)
         /\ \A s \in ToSet(scenarios) : s \in Customers \X Goal
         /\ script = "demo" => \A s \in ToSet(scenarios) : s[1] = CustomerA
         /\ script = "e2e" => \A s \in ToSet(scenarios) : s[2] # "PICKED_UP"
<1>1. CASE script = "base"
  <2>1. scenarios = <<<<CustomerA, "DELIVERED">>>>
    BY <1>1 DEF scenarios
  <2>2. <<CustomerA, "DELIVERED">> \in Customers \X Goal
    BY DEF Customers, Goal
  <2> QED
    BY <1>1, <2>1, <2>2 DEF ToSet
<1>2. CASE script = "demo"
  <2>1. scenarios = <<<<CustomerA, "DELIVERED">>, <<CustomerA, "CANCELLED">>, <<CustomerA, "FAILED">>,
                      <<CustomerA, "PREPARING">>, <<CustomerA, "PICKED_UP">>>>
    BY <1>2 DEF scenarios
  <2>2. \A g \in {"DELIVERED", "CANCELLED", "FAILED", "PREPARING", "PICKED_UP"} :
          <<CustomerA, g>> \in Customers \X Goal /\ <<CustomerA, g>>[1] = CustomerA
    BY DEF Customers, Goal
  <2>3. scenarios \in Seq(Customers \X Goal)
    BY <2>1, <2>2
  <2>4. Len(scenarios) = 5 /\ \A i \in 1..5 : scenarios[i][1] = CustomerA
    BY <2>1, <2>2
  <2>5. PICK q : q = scenarios
    OBVIOUS
  <2>6. \A i \in DOMAIN q : q[i] \in Customers \X Goal /\ q[i][1] = CustomerA
    <3>1. q \in Seq(Customers \X Goal) /\ Len(q) = 5 /\ \A i \in 1..5 : q[i][1] = CustomerA
      BY <2>3, <2>4, <2>5
    <3>2. DOMAIN q = 1..5
      BY <3>1
    <3>3. \A i \in DOMAIN q : q[i] \in Customers \X Goal
      <4>1. \A S : q \in Seq(S) => \A i \in DOMAIN q : q[i] \in S
        OBVIOUS
      <4>2. q \in Seq(Customers \X Goal)
        BY <3>1
      <4> QED
        BY <4>1, <4>2
    <3> QED
      BY <3>1, <3>2, <3>3
  <2>7. \A s \in ToSet(q) : s \in Customers \X Goal /\ s[1] = CustomerA
    BY <2>6 DEF ToSet
  <2> QED
    BY <1>2, <2>3, <2>5, <2>7
<1>3. CASE script = "e2e"
  <2>1. scenarios = <<<<CustomerA, "DELIVERED">>, <<CustomerA, "FAILED">>, <<CustomerB, "CONFIRMED">>>>
    BY <1>3 DEF scenarios
  <2>2. /\ <<CustomerA, "DELIVERED">> \in Customers \X Goal /\ <<CustomerA, "FAILED">> \in Customers \X Goal
        /\ <<CustomerB, "CONFIRMED">> \in Customers \X Goal
    BY DEF Customers, Goal
  <2>3. scenarios \in Seq(Customers \X Goal)
    BY <2>1, <2>2
  <2>4. Len(scenarios) = 3 /\ \A i \in 1..3 : scenarios[i][2] # "PICKED_UP"
    BY <2>1
  <2>5. PICK q : q = scenarios
    OBVIOUS
  <2>6. \A i \in DOMAIN q : q[i] \in Customers \X Goal /\ q[i][2] # "PICKED_UP"
    <3>1. q \in Seq(Customers \X Goal) /\ Len(q) = 3 /\ \A i \in 1..3 : q[i][2] # "PICKED_UP"
      BY <2>3, <2>4, <2>5
    <3>2. DOMAIN q = 1..3
      BY <3>1
    <3>3. \A i \in DOMAIN q : q[i] \in Customers \X Goal
      <4>1. \A S : q \in Seq(S) => \A i \in DOMAIN q : q[i] \in S
        OBVIOUS
      <4>2. q \in Seq(Customers \X Goal)
        BY <3>1
      <4> QED
        BY <4>1, <4>2
    <3> QED
      BY <3>1, <3>2, <3>3
  <2>7. \A s \in ToSet(q) : s \in Customers \X Goal /\ s[2] # "PICKED_UP"
    BY <2>6 DEF ToSet
  <2> QED
    BY <1>3, <2>3, <2>5, <2>7
<1> QED
  BY <1>1, <1>2, <1>3 DEF Script

LEMMA Shorter ==
  ASSUME NEW S, NEW q \in Seq(S), q # <<>>
  PROVE  /\ Head(q) \in S /\ Tail(q) \in Seq(S)
         /\ Head(q) \in ToSet(q) /\ ToSet(Tail(q)) \subseteq ToSet(q)
         /\ \A x \in ToSet(q) : x = Head(q) \/ x \in ToSet(Tail(q))
<1>1. /\ Head(q) \in S /\ Tail(q) \in Seq(S) /\ Head(q) = q[1] /\ 1 \in DOMAIN q
      /\ Len(Tail(q)) = Len(q) - 1 /\ \A i \in 1..(Len(q) - 1) : Tail(q)[i] = q[i + 1]
  OBVIOUS
<1>2. Len(q) \in Nat /\ DOMAIN q = 1..Len(q) /\ DOMAIN Tail(q) = 1..(Len(q) - 1)
  BY <1>1
<1>3. ToSet(Tail(q)) \subseteq ToSet(q)
  <2> SUFFICES ASSUME NEW i \in DOMAIN Tail(q)
               PROVE  Tail(q)[i] \in ToSet(q)
    BY DEF ToSet
  <2>1. i + 1 \in DOMAIN q /\ Tail(q)[i] = q[i + 1]
    BY <1>1, <1>2
  <2> QED
    BY <2>1 DEF ToSet
<1>4. ASSUME NEW i \in DOMAIN q, i # 1
      PROVE  q[i] \in ToSet(Tail(q))
  <2>1. PICK j \in DOMAIN Tail(q) : i = j + 1
    <3>1. i - 1 \in DOMAIN Tail(q) /\ i = (i - 1) + 1
      BY <1>2, <1>4
    <3> QED
      BY <3>1
  <2>2. q[i] = Tail(q)[j]
    BY <1>1, <1>2, <2>1
  <2> QED
    BY <2>1, <2>2 DEF ToSet
<1> QED
  BY <1>1, <1>3, <1>4 DEF ToSet

\* Rows, copies and doors that stay.
LEMMA RowsStay ==
  ASSUME RowsHold, UNCHANGED <<script, rowsSeeded, door, copy, reader, crowded, hidden>>
  PROVE  RowsHold' /\ \A r \in Eatery : Stocked(r)' <=> Stocked(r)
<1>1. \A r \in Eatery : of(r)' = of(r) /\ menuOf(r)' = menuOf(r)
  BY DEF of, menuOf, rowsSeeded
<1>2. \A r \in Eatery : Clear(r)' <=> Clear(r)
  BY <1>1 DEF Clear, rowsSeeded
<1>3. \A r \in Eatery : Stocked(r)' <=> Stocked(r)
  BY <1>1 DEF Stocked, wanted, rowsSeeded
<1> QED
  BY <1>1, <1>2, <1>3 DEF RowsHold, rowsSeeded

LEMMA CatalogStays ==
  ASSUME CatalogHolds, UNCHANGED <<script, accounts, rowsSeeded, door, copy, reader, crowded, hidden, seed>>
  PROVE  CatalogHolds'
<1>1. RowsHold' /\ \A r \in Eatery : Stocked(r)' <=> Stocked(r)
  BY RowsStay DEF CatalogHolds
<1>2. here' = here /\ of(here)' = of(here) /\ (atEatery' <=> atEatery)
  BY DEF here, of, atEatery
<1>3. ProgressHolds'
  BY <1>1, <1>2 DEF CatalogHolds, ProgressHolds
<1>4. ViewHolds'
  BY <1>2 DEF CatalogHolds, ViewHolds, rowsSeeded
<1> QED
  BY <1>1, <1>3, <1>4 DEF CatalogHolds

\* What belongs to two restaurants are different names.
LEMMA Apart ==
  /\ \A r \in Eatery : r \in of(r) /\ of(r) \subseteq Name
  /\ \A r, q \in Eatery : r # q => of(r) \cap of(q) = {}
  /\ \A n \in Name : \E r \in Eatery : n \in of(r)
<1>1. Eatery \cap (Heading \cup Food) = {} /\ eateryOf \in [Heading \cup Food -> Eatery]
  BY SeedingAssumption
<1> QED
  BY <1>1 DEF of, Name

\* While the scenarios are worked off, the catalog is left alone.
LEMMA CatalogKept ==
  ASSUME CatalogHolds, seed.pc \in AtScenarios \cup {"orders"}, seed'.pc \in AtScenarios,
         UNCHANGED <<script, accounts, catalogSeeded>>
  PROVE  CatalogHolds'
<1>1. \A r \in Eatery : Stocked(r)
  BY DEF CatalogHolds, ProgressHolds
<1>2. RowsHold' /\ \A r \in Eatery : Stocked(r)'
  BY <1>1, RowsStay DEF CatalogHolds, catalogSeeded
<1>3. /\ seed.pc \notin {"none", "accounts"}
      /\ seed'.pc \notin {"none", "accounts", "catalog", "eatery", "menu"}
  BY DEF AtScenarios, Working
<1>4. accounts' = Account
  BY <1>3 DEF CatalogHolds, ProgressHolds
<1> QED
  BY <1>2, <1>3, <1>4 DEF CatalogHolds, ProgressHolds, ViewHolds, atEatery

\* One order changes, and the run with it.
LEMMA MetStays ==
  ASSUME seeded \in Seq(Placed), NEW i \in DOMAIN seeded, NEW p,
         seeded' = [seeded EXCEPT ![i] = p], p.by = seeded[i].by,
         NEW s, met(s), seed'.pc \in Working => seed.pc \in Working,
         \/ i = Len(seeded) /\ seed.pc \in Working
         \/ destined(seeded[i]) = s[2] => destined(p) = s[2]
  PROVE  met(s)'
<1>1. PICK n \in DOMAIN seeded : /\ ~(n = Len(seeded) /\ seed.pc \in Working)
                                 /\ seeded[n].by = s[1] /\ destined(seeded[n]) = s[2]
  BY DEF met
<1>2. DOMAIN seeded' = DOMAIN seeded /\ Len(seeded') = Len(seeded)
  OBVIOUS
<1>3. ~(n = Len(seeded') /\ seed'.pc \in Working)
  BY <1>1, <1>2
<1>4. CASE n = i
  <2>1. seeded'[n] = p
    BY <1>4
  <2>2. p.by = s[1] /\ destined(p) = s[2]
    BY <1>1, <1>4
  <2> QED
    BY <1>2, <1>3, <2>1, <2>2 DEF met, destined
<1>5. CASE n # i
  <2>1. seeded'[n] = seeded[n]
    BY <1>1, <1>5
  <2> QED
    BY <1>1, <1>2, <1>3, <2>1 DEF met, destined
<1> QED
  BY <1>4, <1>5

\* The same orders, and no order is at work that was not.
LEMMA MetAlso ==
  ASSUME UNCHANGED seeded, seed'.pc \in Working => seed.pc \in Working, NEW s, met(s)
  PROVE  met(s)'
  BY DEF met, destined

\* A step of the catalog, the start of a run or its end: the orders and the carts stay.
LEMMA QuietStep ==
  ASSUME SeedIInv, seed' \in SeedState, seed'.pc \in Early \cup {"none"},
         UNCHANGED <<script, basket, seeded, complete>>,
         seed'.pc \in Early => AtRest,
         seed'.again => /\ complete /\ ~seed'.more
                        /\ script # "base" => Len(seeded) = seed'.had /\ AtRest
  PROVE  BasketsHold' /\ OrdersHold' /\ ScenariosHold' /\ AgainHolds'
<1>1. seed'.pc \notin AtScenarios /\ seed'.pc \notin Working \cup {"order", "clear", "fill", "finished"}
  BY DEF AtScenarios, Working, Early
<1>2. AtRest' <=> AtRest
  BY DEF AtRest, destined
<1>3. BasketsHold'
  BY <1>1 DEF SeedIInv, BasketsHold, Lines, AtScenarios
<1>4. OrdersHold'
  BY <1>1 DEF SeedIInv, OrdersHold, OnCourse
<1>5. ScenariosHold'
  <2>1. complete => \A s \in ToSet(scenarios) : met(s)'
    BY <1>1, MetAlso DEF SeedIInv, ScenariosHold
  <2>2. scenarios' = scenarios
    BY DEF scenarios
  <2> QED
    BY <1>1, <2>1, <2>2 DEF ScenariosHold
<1>6. AgainHolds'
  BY <1>1, <1>2 DEF AgainHolds
<1> QED
  BY <1>3, <1>4, <1>5, <1>6

\* The order at work goes on: to the next point, or to where its scenario wants it.
LEMMA WorkStep ==
  ASSUME SeedIInv, seed.pc \in Working, NEW p \in Placed, OnCourse(p),
         p.by = seeded[Len(seeded)].by, p.lines = seeded[Len(seeded)].lines,
         seeded' = [seeded EXCEPT ![Len(seeded)] = p],
         \/ \E x \in Working : seed' = [seed EXCEPT !.pc = x] /\ Brought(x, p, goal)
         \/ seed' = scenarioDone(seed) /\ destined(p) = goal,
         UNCHANGED <<script, accounts, catalogSeeded, basket, complete>>
  PROVE  SeedIInv'
<1> DEFINE l == Len(seeded)
<1>1. /\ SeedTypeOK /\ CatalogHolds /\ BasketsHold /\ OrdersHold /\ ScenariosHold /\ AgainHolds
      /\ seeded \in Seq(Placed) /\ seed \in SeedState /\ script \in Script
  BY DEF SeedIInv, SeedTypeOK
<1>2. seed.left # <<>> /\ l > 0 /\ seeded[l].by = customer /\ l \in DOMAIN seeded
  BY <1>1 DEF OrdersHold
<1>3. /\ seeded' \in Seq(Placed) /\ Len(seeded') = l /\ DOMAIN seeded' = DOMAIN seeded
      /\ seeded'[l] = p /\ \A n \in DOMAIN seeded : n # l => seeded'[n] = seeded[n]
  BY <1>1, <1>2
<1>4. seed.left \in Seq(Customers \X Goal)
  BY <1>1 DEF SeedState
<1>5. PICK h, t : h = Head(seed.left) /\ t = Tail(seed.left)
  OBVIOUS
<1>6. /\ h \in Customers \X Goal /\ t \in Seq(Customers \X Goal)
      /\ h \in ToSet(seed.left) /\ ToSet(t) \subseteq ToSet(seed.left)
      /\ \A x \in ToSet(seed.left) : x = h \/ x \in ToSet(t)
  BY <1>2, <1>4, <1>5, Shorter
<1>7. customer = h[1] /\ goal = h[2]
  BY <1>2, <1>5 DEF customer, goal
<1> DEFINE Moved ==
         /\ seed' \in SeedState /\ seed'.again = seed.again /\ seed'.more = seed.more
         /\ seed'.had = seed.had /\ seed'.known = seed.known
         /\ \/ seed'.pc \in Working /\ seed'.left = seed.left /\ Brought(seed'.pc, p, goal)
            \/ seed'.pc = "next" /\ seed'.left = t /\ destined(p) = goal
<1>8. Moved
  <2>1. ASSUME NEW x \in Working, seed' = [seed EXCEPT !.pc = x], Brought(x, p, goal)
        PROVE  Moved
    <3>1. x \in {"none"} \cup Early \cup AtScenarios
      BY DEF AtScenarios
    <3> QED
      BY <1>1, <2>1, <3>1 DEF SeedState
  <2>2. CASE seed' = scenarioDone(seed) /\ destined(p) = goal
    <3>1. PICK z, o : z = "next" /\ o = 0
      OBVIOUS
    <3>2. z \in {"none"} \cup Early \cup AtScenarios /\ o \in Nat
      BY <3>1 DEF AtScenarios
    <3>3. seed' = [seed EXCEPT !.pc = z, !.left = t, !.filled = o]
      BY <1>5, <2>2, <3>1 DEF scenarioDone
    <3>4. /\ seed' \in SeedState /\ seed'.again = seed.again /\ seed'.more = seed.more
          /\ seed'.had = seed.had /\ seed'.known = seed.known /\ seed'.pc = z /\ seed'.left = t
      BY <1>1, <1>6, <3>2, <3>3 DEF SeedState
    <3> QED
      BY <2>2, <3>1, <3>4
  <2> QED
    BY <2>1, <2>2
<1>9. seed'.pc \in AtScenarios /\ seed'.pc \notin {"fill", "order", "finished", "clear", "none"} \cup Early
  BY <1>8 DEF AtScenarios, Working, Early
<1>10. SeedTypeOK'
  BY <1>1, <1>3, <1>8 DEF SeedTypeOK, catalogSeeded, rowsSeeded
<1>11. CatalogHolds'
  BY <1>1, <1>9, CatalogKept DEF AtScenarios
<1>12. BasketsHold'
  BY <1>1, <1>2, <1>3, <1>9 DEF BasketsHold, Lines
<1>13. OrdersHold'
  <2>1. \A n \in DOMAIN seeded' : OnCourse(seeded'[n])
    BY <1>1, <1>3 DEF OrdersHold
  <2>2. ASSUME seed'.pc \in Working
        PROVE  seed'.left = seed.left /\ Brought(seed'.pc, p, goal)
    BY <1>8, <2>2 DEF Working
  <2>3. ASSUME seed'.pc \in Working
        PROVE  /\ seed'.left # <<>> /\ seeded'[Len(seeded')].by = customer'
               /\ Brought(seed'.pc, seeded'[Len(seeded')], goal')
    <3>1. customer' = customer /\ goal' = goal
      BY <2>2, <2>3 DEF customer, goal
    <3> QED
      BY <1>2, <1>3, <2>2, <2>3, <3>1
  <2>4. OnCourse(p)' <=> OnCourse(p)
    BY DEF OnCourse
  <2> QED
    BY <1>2, <1>3, <1>9, <2>1, <2>3 DEF OrdersHold, OnCourse, Brought, destined
<1>14. \A s : met(s) => met(s)'
  BY <1>1, <1>2, MetStays
<1>15. ScenariosHold'
  <2>1. ASSUME NEW s \in ToSet(scenarios)
        PROVE  s \in ToSet(seed'.left) \/ met(s)'
    <3>1. CASE met(s)
      BY <1>14, <3>1
    <3>2. CASE s \in ToSet(seed'.left)
      BY <3>2
    <3>3. CASE s = h /\ seed'.pc = "next" /\ destined(p) = goal
      <4>1. seed'.pc \notin Working
        BY <3>3 DEF Working
      <4>2. seeded'[l].by = s[1] /\ destined(seeded'[l]) = s[2]
        BY <1>2, <1>3, <1>7, <3>3
      <4> QED
        BY <1>2, <1>3, <4>1, <4>2 DEF met, destined
    <3>4. s \in ToSet(seed.left) \/ met(s)
      BY <1>1, <2>1 DEF ScenariosHold, AtScenarios
    <3> QED
      BY <1>6, <1>8, <3>1, <3>2, <3>3, <3>4
  <2>2. ToSet(seed'.left) \subseteq ToSet(scenarios)
    BY <1>1, <1>6, <1>8 DEF ScenariosHold, AtScenarios
  <2>3. scenarios' = scenarios
    BY DEF scenarios
  <2>4. complete' => \A s \in ToSet(scenarios) : met(s)'
    BY <1>1, <1>14 DEF ScenariosHold
  <2>5. script' = "demo" => \A u \in seed'.known \cap Goal : met(<<CustomerA, u>>)'
    BY <1>1, <1>8, <1>14 DEF ScenariosHold, AtScenarios
  <2> QED
    BY <2>1, <2>2, <2>3, <2>4, <2>5 DEF ScenariosHold
<1>16. AgainHolds'
  <2>1. seed.again => complete /\ ~seed.more /\ script = "base"
    BY <1>1 DEF AgainHolds
  <2> QED
    BY <1>8, <1>9, <2>1 DEF AgainHolds
<1> QED
  BY <1>10, <1>11, <1>12, <1>13, <1>15, <1>16 DEF SeedIInv

\* Between two orders: the next scenario is taken up or passed over, the cart prepared.
LEMMA BetweenStep ==
  ASSUME SeedIInv, seed.pc \in {"next", "clear", "fill"},
         seed'.pc \in {"next", "clear", "fill", "order", "finished"}, seed' \in SeedState,
         seed'.known = seed.known, seed'.again = seed.again, seed'.more = seed.more, seed'.had = seed.had,
         \/ seed'.left = seed.left
         \/ seed.left # <<>> /\ seed'.left = Tail(seed.left) /\ met(Head(seed.left)) /\ seed'.pc = "next",
         seed'.pc = "order" => seed'.left # <<>>, seed'.pc = "finished" => seed'.left = <<>>,
         basket' \in [Customers -> Nat], BasketsHold',
         complete' = complete \/ (complete' = TRUE /\ seed.left = <<>>),
         seed.again /\ script # "base" =>
           seed'.pc = "next" \/ (seed'.pc # "order" /\ seed'.left = <<>>),
         UNCHANGED <<script, accounts, catalogSeeded, seeded>>
  PROVE  SeedIInv'
<1>1. /\ SeedTypeOK /\ CatalogHolds /\ BasketsHold /\ OrdersHold /\ ScenariosHold /\ AgainHolds
      /\ seeded \in Seq(Placed) /\ seed \in SeedState /\ script \in Script
  BY DEF SeedIInv, SeedTypeOK
<1>2. seed.left \in Seq(Customers \X Goal)
  BY <1>1 DEF SeedState
<1>3. /\ seed.pc \in AtScenarios /\ seed'.pc \in AtScenarios
      /\ seed'.pc \notin Working /\ seed'.pc \notin Early
  BY DEF AtScenarios, Working, Early
<1>4. SeedTypeOK'
  BY <1>1 DEF SeedTypeOK, catalogSeeded, rowsSeeded
<1>5. CatalogHolds'
  BY <1>1, <1>3, CatalogKept
<1>6. OrdersHold'
  <2>1. \A n \in DOMAIN seeded : OnCourse(seeded[n])
    BY <1>1 DEF OrdersHold
  <2> QED
    BY <1>3, <2>1 DEF OrdersHold, OnCourse
<1>7. \A s : met(s) => met(s)'
  BY <1>3, MetAlso
<1>8. scenarios' = scenarios
  BY DEF scenarios
<1>9. \A s \in ToSet(scenarios) : s \in ToSet(seed.left) \/ met(s)
  BY <1>1, <1>3 DEF ScenariosHold
<1>10. /\ ToSet(seed'.left) \subseteq ToSet(scenarios)
       /\ \A s \in ToSet(scenarios) : s \in ToSet(seed'.left) \/ met(s)'
  <2>1. ToSet(seed.left) \subseteq ToSet(scenarios)
    BY <1>1, <1>3 DEF ScenariosHold
  <2>2. CASE seed'.left = seed.left
    BY <1>7, <1>9, <2>1, <2>2
  <2>3. CASE seed.left # <<>> /\ seed'.left = Tail(seed.left) /\ met(Head(seed.left))
    <3>1. /\ ToSet(seed'.left) \subseteq ToSet(seed.left)
          /\ \A x \in ToSet(seed.left) : x = Head(seed.left) \/ x \in ToSet(seed'.left)
      BY <1>2, <2>3, Shorter
    <3> QED
      BY <1>7, <1>9, <2>1, <2>3, <3>1
  <2> QED
    BY <2>2, <2>3
<1>11. complete' => \A s \in ToSet(scenarios) : met(s)'
  <2>1. CASE complete' = complete
    BY <1>1, <1>7, <2>1 DEF ScenariosHold
  <2>2. CASE seed.left = <<>>
    <3>1. ToSet(seed.left) = {}
      BY <2>2 DEF ToSet
    <3> QED
      BY <1>7, <1>9, <3>1
  <2> QED
    BY <2>1, <2>2
<1>12. script' = "demo" => \A u \in seed'.known \cap Goal : met(<<CustomerA, u>>)'
  BY <1>1, <1>3, <1>7 DEF ScenariosHold
<1>13. ScenariosHold'
  BY <1>8, <1>10, <1>11, <1>12 DEF ScenariosHold
<1>14. AgainHolds'
  <2>1. AtRest' <=> AtRest
    BY DEF AtRest, destined
  <2>2. complete => complete'
    OBVIOUS
  <2> QED
    BY <1>1, <1>3, <1>8, <2>1, <2>2 DEF AgainHolds
<1> QED
  BY <1>4, <1>5, <1>6, <1>13, <1>14 DEF SeedIInv

\* The platform moves an order along its course.
LEMMA PlatformKept ==
  ASSUME SeedIInv, NEW i \in DOMAIN seeded, NEW p \in Placed, OnCourse(p),
         p.by = seeded[i].by, p.lines = seeded[i].lines, seeded' = [seeded EXCEPT ![i] = p],
         destined(seeded[i]) \in Goal => destined(p) = destined(seeded[i]),
         AtRest => (p.coming # <<>> => destined(p) = "DRIVER_ASSIGNED"),
         Brought(seed.pc, seeded[i], goal) => Brought(seed.pc, p, goal),
         UNCHANGED <<script, accounts, catalogSeeded, basket, seed, complete>>
  PROVE  SeedIInv'
<1>1. /\ SeedTypeOK /\ CatalogHolds /\ BasketsHold /\ OrdersHold /\ ScenariosHold /\ AgainHolds
      /\ seeded \in Seq(Placed) /\ seed \in SeedState /\ script \in Script
  BY DEF SeedIInv, SeedTypeOK
<1>2. /\ seeded' \in Seq(Placed) /\ Len(seeded') = Len(seeded) /\ DOMAIN seeded' = DOMAIN seeded
      /\ seeded'[i] = p /\ \A n \in DOMAIN seeded : n # i => seeded'[n] = seeded[n]
  BY <1>1
<1>3. SeedTypeOK'
  BY <1>1, <1>2 DEF SeedTypeOK, catalogSeeded, rowsSeeded
<1>4. CatalogHolds'
  BY <1>1, CatalogStays DEF catalogSeeded
<1>5. customer' = customer /\ goal' = goal
  BY DEF customer, goal
<1>6. BasketsHold'
  BY <1>1, <1>2, <1>5 DEF BasketsHold, Lines
<1>7. OrdersHold'
  <2>1. \A n \in DOMAIN seeded' : OnCourse(seeded'[n])
    BY <1>1, <1>2 DEF OrdersHold
  <2>2. ASSUME seed.pc \in Working
        PROVE  Len(seeded) > 0 /\ seeded'[Len(seeded)].by = customer /\ Brought(seed.pc, seeded'[Len(seeded)], goal)
    BY <1>1, <1>2, <2>2 DEF OrdersHold
  <2>3. seed.pc \in Working \cup {"order"} => seed.left # <<>>
    BY <1>1 DEF OrdersHold
  <2>4. seed.pc = "finished" => seed.left = <<>>
    BY <1>1 DEF OrdersHold
  <2> QED
    BY <1>2, <1>5, <2>1, <2>2, <2>3, <2>4 DEF OrdersHold, OnCourse, Brought, destined
<1>8. \A s \in Customers \X Goal : met(s) => met(s)'
  <2> SUFFICES ASSUME NEW s \in Customers \X Goal, met(s)
               PROVE  met(s)'
    OBVIOUS
  <2>1. destined(seeded[i]) = s[2] => destined(p) = s[2]
    OBVIOUS
  <2> QED
    BY <1>1, <2>1, MetStays
<1>9. scenarios' = scenarios /\ \A s \in ToSet(scenarios) : s \in Customers \X Goal
  BY <1>1, ScenariosTyped DEF scenarios
<1>10. CustomerA \in Customers
  BY DEF Customers
<1>11. ScenariosHold'
  BY <1>1, <1>8, <1>9, <1>10 DEF ScenariosHold
<1>12. AgainHolds'
  <2>1. AtRest => AtRest'
    BY <1>2 DEF AtRest, destined
  <2> QED
    BY <1>1, <1>2, <1>9, <2>1 DEF AgainHolds
<1> QED
  BY <1>3, <1>4, <1>6, <1>7, <1>11, <1>12 DEF SeedIInv

\* The order a run works on.
LEMMA AtWork ==
  ASSUME SeedIInv, seed.pc \in Working
  PROVE  /\ seeded \in Seq(Placed) /\ Len(seeded) \in DOMAIN seeded /\ seed \in SeedState
         /\ seeded[Len(seeded)] \in Placed /\ OnCourse(seeded[Len(seeded)])
         /\ Brought(seed.pc, seeded[Len(seeded)], goal) /\ goal \in Goal
         /\ seeded = [seeded EXCEPT ![Len(seeded)] = seeded[Len(seeded)]]
<1>1. /\ seeded \in Seq(Placed) /\ seed \in SeedState /\ Len(seeded) > 0 /\ seed.left # <<>>
      /\ Brought(seed.pc, seeded[Len(seeded)], goal) /\ \A n \in DOMAIN seeded : OnCourse(seeded[n])
  BY DEF SeedIInv, SeedTypeOK, OrdersHold
<1>2. Len(seeded) \in DOMAIN seeded
  BY <1>1
<1>3. Head(seed.left) \in Customers \X Goal
  BY <1>1, Shorter DEF SeedState
<1> QED
  BY <1>1, <1>2, <1>3 DEF goal

\* A call puts one more change on the way.
bringing(o, status, ride) == [o EXCEPT !.coming = Append(@, status), !.ride = ride]

LEMMA Bringing ==
  ASSUME NEW o \in Placed, NEW status \in OrderStatus, NEW ride \in Ride,
         NEW p, p = bringing(o, status, ride)
  PROVE  /\ p \in Placed /\ p.by = o.by /\ p.lines = o.lines /\ p.status = o.status /\ p.ride = ride
         /\ o.coming = <<>> => p.coming = <<status>>
         /\ \A x \in OrderStatus : o.coming = <<x>> => p.coming = <<x, status>>
         /\ \A x, y \in OrderStatus : o.coming = <<x, y>> => p.coming = <<x, y, status>>
<1>1. PICK q, c : c = o.coming /\ q = Append(c, status)
  OBVIOUS
<1>2. q \in Seq(OrderStatus)
  BY <1>1 DEF Placed
<1>3. p \in Placed /\ p.by = o.by /\ p.lines = o.lines /\ p.status = o.status /\ p.ride = ride /\ p.coming = q
  BY <1>1, <1>2 DEF Placed, bringing
<1>4. c = <<>> => q = <<status>>
  BY <1>1
<1>5. ASSUME NEW x \in OrderStatus, c = <<x>>
      PROVE  q = <<x, status>>
  <2>1. c \in Seq(OrderStatus) /\ Len(c) = 1 /\ c[1] = x
    BY <1>5
  <2>2. Len(q) = 2 /\ q[1] = x /\ q[2] = status
    BY <1>1, <2>1
  <2> QED
    BY <1>2, <2>2
<1>6. ASSUME NEW x \in OrderStatus, NEW y \in OrderStatus, c = <<x, y>>
      PROVE  q = <<x, y, status>>
  <2>1. c \in Seq(OrderStatus) /\ Len(c) = 2 /\ c[1] = x /\ c[2] = y
    BY <1>6
  <2>2. Len(q) = 3 /\ q[1] = x /\ q[2] = y /\ q[3] = status
    BY <1>1, <2>1
  <2> QED
    BY <1>2, <2>2
<1> QED
  BY <1>1, <1>3, <1>4, <1>5, <1>6

LEMMA PaymentKept ==
  ASSUME SeedIInv, PostPayment \/ AwaitPending \/ Process \/ AwaitOutcome
  PROVE  SeedIInv'
<1> DEFINE l == Len(seeded)
           o == seeded[l]
<1>1. seed.pc \in {"pay", "awaitPending", "process", "awaitOutcome"}
  BY DEF PostPayment, AwaitPending, Process, AwaitOutcome, brings, waitForOrder, reached
<1>2. /\ seed.pc \in Working /\ seeded \in Seq(Placed) /\ l \in DOMAIN seeded /\ o \in Placed /\ OnCourse(o)
      /\ Brought(seed.pc, o, goal) /\ goal \in Goal /\ seeded = [seeded EXCEPT ![l] = o]
  BY <1>1, AtWork DEF Working
<1>3. UNCHANGED <<script, accounts, catalogSeeded, basket, complete>>
  BY DEF PostPayment, AwaitPending, Process, AwaitOutcome, brings, waitForOrder
<1>4. o.ride = "none" /\ o.ride \in Ride
  BY <1>1, <1>2 DEF Brought, Ride
<1>5. CASE PostPayment
  <2>1. PICK p : p = bringing(o, "PAYMENT_PENDING", o.ride)
    OBVIOUS
  <2>2. seeded' = [seeded EXCEPT ![l] = p] /\ seed' = [seed EXCEPT !.pc = "awaitPending"]
    BY <1>2, <1>5, <2>1 DEF PostPayment, brings, current, to, bringing, Placed
  <2>3. o.status = "CREATED" /\ o.coming = <<>>
    BY <1>2, <1>5 DEF PostPayment, brings, reached, Brought
  <2>5. "PAYMENT_PENDING" \in OrderStatus
    BY DEF OrderStatus
  <2>6. /\ p \in Placed /\ p.by = o.by /\ p.lines = o.lines /\ p.status = "CREATED" /\ p.ride = "none"
        /\ p.coming = <<"PAYMENT_PENDING">>
    BY <1>2, <1>4, <2>1, <2>3, <2>5, Bringing
  <2>7. OnCourse(p)
    BY <2>6 DEF OnCourse
  <2>8. Brought("awaitPending", p, goal)
    BY <2>6, <2>7, Ends DEF Brought
  <2>9. "awaitPending" \in Working
    BY DEF Working
  <2> QED
    BY <1>2, <1>3, <2>2, <2>6, <2>7, <2>8, <2>9, WorkStep
<1>6. CASE AwaitPending
  <2>1. o.status = "PAYMENT_PENDING" /\ seed' = [seed EXCEPT !.pc = "process"] /\ seeded' = seeded
    BY <1>6 DEF AwaitPending, waitForOrder, current
  <2>2. destined(o) = "PAYMENT_PENDING"
    BY <1>2, <1>6 DEF AwaitPending, waitForOrder, reached, Brought
  <2>3. o.coming = <<>>
    BY <1>2, <2>1, <2>2, Ends DEF OnCourse
  <2>4. Brought("process", o, goal) /\ "process" \in Working
    BY <1>4, <2>2, <2>3 DEF Brought, Working
  <2> QED
    BY <1>2, <1>3, <2>1, <2>4, WorkStep
<1>7. CASE Process
  <2>1. PICK p : p = bringing(o, outcome, o.ride)
    OBVIOUS
  <2>2. seeded' = [seeded EXCEPT ![l] = p] /\ seed' = [seed EXCEPT !.pc = "awaitOutcome"]
    BY <1>2, <1>7, <2>1 DEF Process, brings, current, to, bringing, Placed
  <2>3. o.status = "PAYMENT_PENDING" /\ o.coming = <<>>
    BY <1>2, <1>7, Ends DEF Process, brings, reached, Brought
  <2>5. outcome \in OrderStatus /\ outcome \in {"CONFIRMED", "FAILED"}
    BY DEF OrderStatus, outcome
  <2>6. /\ p \in Placed /\ p.by = o.by /\ p.lines = o.lines /\ p.status = "PAYMENT_PENDING" /\ p.ride = "none"
        /\ p.coming = <<outcome>>
    BY <1>2, <1>4, <2>1, <2>3, <2>5, Bringing
  <2>7. OnCourse(p)
    BY <2>5, <2>6 DEF OnCourse
  <2>8. Brought("awaitOutcome", p, goal) /\ "awaitOutcome" \in Working
    BY <2>5, <2>6, <2>7, Ends DEF Brought, outcome, Working
  <2> QED
    BY <1>2, <1>3, <2>2, <2>6, <2>7, <2>8, WorkStep
<1>8. CASE AwaitOutcome
  <2>1. o.status = outcome /\ seeded' = seeded
    BY <1>8 DEF AwaitOutcome, waitForOrder, current
  <2>2. outcome \in {"CONFIRMED", "FAILED"} /\ (goal = "FAILED" <=> outcome = "FAILED")
    BY DEF outcome
  <2>3. o.coming = <<>> /\ destined(o) = outcome
    BY <1>2, <2>1, <2>2, Standing, Ends DEF Goal
  <2>4. CASE goal \in {"FAILED", "CONFIRMED"}
    <3>1. seed' = scenarioDone(seed) /\ destined(o) = goal
      BY <1>8, <2>2, <2>3, <2>4 DEF AwaitOutcome, waitForOrder
    <3> QED
      BY <1>2, <1>3, <2>1, <3>1, WorkStep
  <2>5. CASE goal = "CANCELLED"
    <3>1. seed' = [seed EXCEPT !.pc = "cancel"]
      BY <1>8, <2>5 DEF AwaitOutcome, waitForOrder
    <3>2. Brought("cancel", o, goal) /\ "cancel" \in Working
      BY <1>4, <2>1, <2>2, <2>3, <2>5 DEF Brought, Working
    <3> QED
      BY <1>2, <1>3, <2>1, <3>1, <3>2, WorkStep
  <2>6. CASE goal \notin {"FAILED", "CONFIRMED", "CANCELLED"}
    <3>1. seed' = [seed EXCEPT !.pc = "prepare"]
      BY <1>8, <2>6 DEF AwaitOutcome, waitForOrder
    <3>2. Brought("prepare", o, goal) /\ "prepare" \in Working
      BY <1>2, <1>4, <2>1, <2>2, <2>3, <2>6 DEF Brought, Working, Goal
    <3> QED
      BY <1>2, <1>3, <2>1, <3>1, <3>2, WorkStep
  <2> QED
    BY <2>4, <2>5, <2>6
<1> QED
  BY <1>5, <1>6, <1>7, <1>8

LEMMA KitchenKept ==
  ASSUME SeedIInv, Cancel \/ Prepare \/ prepareDriver \/ Ready
  PROVE  SeedIInv'
<1> DEFINE l == Len(seeded)
           o == seeded[l]
<1>1. seed.pc \in {"cancel", "prepare", "shift", "ready"}
  BY DEF Cancel, Prepare, prepareDriver, Ready, patchOrder, reached
<1>2. /\ seed.pc \in Working /\ seeded \in Seq(Placed) /\ l \in DOMAIN seeded /\ o \in Placed /\ OnCourse(o)
      /\ Brought(seed.pc, o, goal) /\ goal \in Goal /\ seeded = [seeded EXCEPT ![l] = o] /\ seed \in SeedState
  BY <1>1, AtWork DEF Working
<1>3. UNCHANGED <<script, accounts, catalogSeeded, basket, complete>>
  BY DEF Cancel, Prepare, prepareDriver, Ready, patchOrder
<1>4. o.ride = "none" /\ o.coming = <<>>
  BY <1>1, <1>2 DEF Brought
<1>5. ASSUME NEW status \in {"CANCELLED", "PREPARING", "READY_FOR_PICKUP"}, NEW p,
             p = [o EXCEPT !.status = status]
      PROVE  /\ p \in Placed /\ OnCourse(p) /\ destined(p) = status /\ p.by = o.by /\ p.lines = o.lines
             /\ p.status = status /\ p.coming = <<>> /\ p.ride = "none"
  <2>1. status \in OrderStatus
    BY <1>5 DEF OrderStatus
  <2>2. /\ p \in Placed /\ p.by = o.by /\ p.lines = o.lines
        /\ p.status = status /\ p.coming = <<>> /\ p.ride = "none"
    BY <1>2, <1>4, <1>5, <2>1 DEF Placed
  <2>3. OnCourse(p)
    BY <2>2 DEF OnCourse
  <2> QED
    BY <2>2, <2>3, Ends
<1>6. CASE Cancel
  <2>1. PICK p : p = [o EXCEPT !.status = "CANCELLED"]
    OBVIOUS
  <2>2. seeded' = [seeded EXCEPT ![l] = p] /\ seed' = scenarioDone(seed)
    BY <1>2, <1>6, <2>1 DEF Cancel, patchOrder, current
  <2>3. goal = "CANCELLED"
    BY <1>2, <1>6 DEF Cancel, patchOrder, reached, Brought
  <2> QED
    BY <1>2, <1>3, <1>5, <2>1, <2>2, <2>3, WorkStep
<1>7. CASE Prepare
  <2>1. PICK p : p = [o EXCEPT !.status = "PREPARING"]
    OBVIOUS
  <2>2. seeded' = [seeded EXCEPT ![l] = p]
    BY <1>2, <1>7, <2>1 DEF Prepare, patchOrder, current
  <2>3. goal \in {"PREPARING", "PICKED_UP", "DELIVERED"}
    BY <1>2, <1>7 DEF Prepare, patchOrder, reached, Brought
  <2>4. CASE goal = "PREPARING"
    <3>1. seed' = scenarioDone(seed)
      BY <1>7, <2>4 DEF Prepare, patchOrder
    <3> QED
      BY <1>2, <1>3, <1>5, <2>1, <2>2, <2>4, <3>1, WorkStep
  <2>5. CASE goal # "PREPARING"
    <3>1. seed' = [seed EXCEPT !.pc = "shift"]
      BY <1>7, <2>5 DEF Prepare, patchOrder
    <3>2. p.status = "PREPARING" /\ p.coming = <<>> /\ p.ride = "none"
      BY <1>5, <2>1
    <3>3. Brought("shift", p, goal) /\ "shift" \in Working
      BY <2>3, <2>5, <3>2 DEF Brought, Working
    <3> QED
      BY <1>2, <1>3, <1>5, <2>1, <2>2, <3>1, <3>3, WorkStep
  <2> QED
    BY <2>4, <2>5
<1>8. CASE prepareDriver
  <2>1. seed.pc = "shift" /\ seeded' = seeded
    BY <1>8 DEF prepareDriver, reached
  <2>2. seed' = [seed EXCEPT !.pc = "shift"] \/ seed' = [seed EXCEPT !.pc = "ready"]
    BY <1>2, <1>8, <2>1 DEF prepareDriver, to, SeedState
  <2>3. Brought("shift", o, goal) /\ Brought("ready", o, goal) /\ {"shift", "ready"} \subseteq Working
    BY <1>2, <2>1 DEF Brought, Working
  <2> QED
    BY <1>2, <1>3, <2>1, <2>2, <2>3, WorkStep
<1>9. CASE Ready
  <2>1. PICK p : p = [o EXCEPT !.status = "READY_FOR_PICKUP"]
    OBVIOUS
  <2>2. seeded' = [seeded EXCEPT ![l] = p] /\ seed' = [seed EXCEPT !.pc = "awaitDriver"]
    BY <1>2, <1>9, <2>1 DEF Ready, patchOrder, current
  <2>3. goal \in {"PICKED_UP", "DELIVERED"}
    BY <1>2, <1>9 DEF Ready, patchOrder, reached, Brought
  <2>4. destined(p) = "READY_FOR_PICKUP"
    BY <1>5, <2>1
  <2>5. Brought("awaitDriver", p, goal) /\ "awaitDriver" \in Working
    BY <2>3, <2>4 DEF Brought, Working
  <2> QED
    BY <1>2, <1>3, <1>5, <2>1, <2>2, <2>5, WorkStep
<1> QED
  BY <1>6, <1>7, <1>8, <1>9

LEMMA RideKept ==
  ASSUME SeedIInv, waitForAssignment \/ Pickup \/ AwaitPickup \/ CompleteRide \/ AwaitDelivered
  PROVE  SeedIInv'
<1> DEFINE l == Len(seeded)
           o == seeded[l]
<1>1. seed.pc \in {"awaitDriver", "pickup", "awaitPickup", "complete", "awaitDelivered"}
  BY DEF waitForAssignment, Pickup, AwaitPickup, CompleteRide, AwaitDelivered, brings, waitForOrder, reached
<1>2. /\ seed.pc \in Working /\ seeded \in Seq(Placed) /\ l \in DOMAIN seeded /\ o \in Placed /\ OnCourse(o)
      /\ Brought(seed.pc, o, goal) /\ goal \in Goal /\ seeded = [seeded EXCEPT ![l] = o] /\ seed \in SeedState
  BY <1>1, AtWork DEF Working
<1>3. UNCHANGED <<script, accounts, catalogSeeded, basket, complete>>
  BY DEF waitForAssignment, Pickup, AwaitPickup, CompleteRide, AwaitDelivered, brings, waitForOrder
<1>4. {"DRIVER_ASSIGNED", "PICKED_UP", "DELIVERED"} \subseteq OrderStatus /\ {"ours", "over"} \subseteq Ride
  BY DEF OrderStatus, Ride
<1>5. CASE waitForAssignment
  <2>1. seed' = [seed EXCEPT !.pc = "pickup"] /\ seeded' = seeded /\ o.ride = "ours"
    BY <1>5 DEF waitForAssignment, to, current
  <2>2. destined(o) \in {"READY_FOR_PICKUP", "DRIVER_ASSIGNED"} /\ goal \in {"PICKED_UP", "DELIVERED"}
    BY <1>2, <1>5 DEF waitForAssignment, reached, Brought
  <2>3. destined(o) = "DRIVER_ASSIGNED"
    BY <1>2, <2>1, <2>2, Ends DEF OnCourse
  <2>4. Brought("pickup", o, goal) /\ "pickup" \in Working
    BY <2>1, <2>2, <2>3 DEF Brought, Working
  <2> QED
    BY <1>2, <1>3, <2>1, <2>4, WorkStep
<1>6. CASE Pickup
  <2>1. o.ride = "ours" /\ destined(o) = "DRIVER_ASSIGNED" /\ goal \in {"PICKED_UP", "DELIVERED"}
    BY <1>2, <1>6 DEF Pickup, brings, reached, Brought
  <2>2. PICK p : p = bringing(o, "PICKED_UP", "ours")
    OBVIOUS
  <2>3. seeded' = [seeded EXCEPT ![l] = p]
    BY <1>2, <1>6, <2>1, <2>2 DEF Pickup, brings, current, bringing, Placed
  <2>4. /\ p \in Placed /\ p.by = o.by /\ p.lines = o.lines /\ p.status = o.status /\ p.ride = "ours"
        /\ o.coming = <<>> => p.coming = <<"PICKED_UP">>
        /\ o.coming = <<"DRIVER_ASSIGNED">> => p.coming = <<"DRIVER_ASSIGNED", "PICKED_UP">>
    <3>1. PICK status \in OrderStatus, ride \in Ride : status = "PICKED_UP" /\ ride = "ours"
      BY <1>4
    <3>2. PICK x \in OrderStatus : x = "DRIVER_ASSIGNED"
      BY <1>4
    <3>3. p = bringing(o, status, ride)
      BY <2>2, <3>1
    <3> QED
      BY <1>2, <3>1, <3>2, <3>3, Bringing
  <2>5. \/ o.status = "READY_FOR_PICKUP" /\ o.coming = <<"DRIVER_ASSIGNED">>
        \/ o.status = "DRIVER_ASSIGNED" /\ o.coming = <<>>
    BY <1>2, <2>1, Ends DEF OnCourse
  <2>6. OnCourse(p)
    BY <2>4, <2>5 DEF OnCourse
  <2>7. destined(p) = "PICKED_UP"
    BY <2>4, <2>5, <2>6, Ends
  <2>8. PICK x \in {"awaitPickup", "complete"} : /\ seed' = [seed EXCEPT !.pc = x]
                                                /\ x = IF goal = "PICKED_UP" THEN "awaitPickup" ELSE "complete"
    BY <1>6 DEF Pickup, brings, to
  <2>9. Brought(x, p, goal) /\ x \in Working
    BY <2>1, <2>4, <2>7, <2>8 DEF Brought, Working
  <2> QED
    BY <1>2, <1>3, <2>3, <2>4, <2>6, <2>8, <2>9, WorkStep
<1>7. CASE AwaitPickup
  <2>1. seed' = scenarioDone(seed) /\ seeded' = seeded
    BY <1>7 DEF AwaitPickup, waitForOrder
  <2>2. destined(o) = goal
    BY <1>2, <1>7 DEF AwaitPickup, waitForOrder, reached, Brought
  <2> QED
    BY <1>2, <1>3, <2>1, <2>2, WorkStep
<1>8. CASE CompleteRide
  <2>1. o.ride = "ours" /\ destined(o) = "PICKED_UP" /\ goal = "DELIVERED"
    BY <1>2, <1>8 DEF CompleteRide, reached, Brought
  <2>2. PICK p : p = bringing(o, "DELIVERED", "over")
    OBVIOUS
  <2>3. seeded' = [seeded EXCEPT ![l] = p]
    BY <1>2, <1>8, <2>2 DEF CompleteRide, current, bringing, Placed
  <2>4. /\ p \in Placed /\ p.by = o.by /\ p.lines = o.lines /\ p.status = o.status /\ p.ride = "over"
        /\ o.coming = <<>> => p.coming = <<"DELIVERED">>
        /\ o.coming = <<"PICKED_UP">> => p.coming = <<"PICKED_UP", "DELIVERED">>
        /\ o.coming = <<"DRIVER_ASSIGNED", "PICKED_UP">> => p.coming = <<"DRIVER_ASSIGNED", "PICKED_UP", "DELIVERED">>
    <3>1. PICK status \in OrderStatus, ride \in Ride : status = "DELIVERED" /\ ride = "over"
      BY <1>4
    <3>2. PICK x \in OrderStatus, y \in OrderStatus : x = "DRIVER_ASSIGNED" /\ y = "PICKED_UP"
      BY <1>4
    <3>3. p = bringing(o, status, ride)
      BY <2>2, <3>1
    <3> QED
      BY <1>2, <3>1, <3>2, <3>3, Bringing
  <2>5. \/ o.status = "READY_FOR_PICKUP" /\ o.coming = <<"DRIVER_ASSIGNED", "PICKED_UP">>
        \/ o.status = "DRIVER_ASSIGNED" /\ o.coming = <<"PICKED_UP">>
        \/ o.status = "PICKED_UP" /\ o.coming = <<>>
    BY <1>2, <2>1, Ends DEF OnCourse
  <2>6. OnCourse(p)
    BY <2>4, <2>5 DEF OnCourse
  <2>7. destined(p) = goal
    BY <2>1, <2>4, <2>6, Ends
  <2>8. seed' = scenarioDone(seed) \/ seed' = [seed EXCEPT !.pc = "awaitDelivered"]
    BY <1>8 DEF CompleteRide
  <2>9. Brought("awaitDelivered", p, goal) /\ "awaitDelivered" \in Working
    BY <2>1, <2>4 DEF Brought, Working
  <2> QED
    BY <1>2, <1>3, <2>3, <2>4, <2>6, <2>7, <2>8, <2>9, WorkStep
<1>9. CASE AwaitDelivered
  <2>1. seed' = scenarioDone(seed) /\ seeded' = seeded
    BY <1>9 DEF AwaitDelivered, waitForOrder
  <2>2. o.ride = "over" /\ goal = "DELIVERED"
    BY <1>2, <1>9 DEF AwaitDelivered, waitForOrder, reached, Brought
  <2>3. destined(o) = goal
    BY <1>2, <2>2, Ends
  <2> QED
    BY <1>2, <1>3, <2>1, <2>3, WorkStep
<1> QED
  BY <1>5, <1>6, <1>7, <1>8, <1>9

\* What a customer is shown, and what it will be once all has arrived.
LEMMA ShownIsMet ==
  ASSUME SeedIInv, seed.pc \notin Working, NEW c \in Customers, NEW g \in Goal
  PROVE  /\ AtRest /\ met(<<c, g>>) => has(c, g)
         /\ (AtRest \/ g # "PICKED_UP") /\ has(c, g) => met(<<c, g>>)
<1>1. seeded \in Seq(Placed) /\ \A n \in DOMAIN seeded : OnCourse(seeded[n])
  BY DEF SeedIInv, SeedTypeOK, OrdersHold
<1>2. ASSUME AtRest, met(<<c, g>>)
      PROVE  has(c, g)
  <2>1. PICK n \in DOMAIN seeded : seeded[n].by = c /\ destined(seeded[n]) = g
    BY <1>2 DEF met
  <2>2. seeded[n].coming = <<>>
    BY <1>2, <2>1 DEF AtRest, Goal
  <2> QED
    BY <2>1, <2>2 DEF has, destined
<1>3. ASSUME AtRest \/ g # "PICKED_UP", has(c, g)
      PROVE  met(<<c, g>>)
  <2>1. PICK n \in DOMAIN seeded : seeded[n].by = c /\ seeded[n].status = g
    BY <1>3 DEF has
  <2>2. seeded[n] \in Placed /\ OnCourse(seeded[n])
    BY <1>1
  <2>3. seeded[n].coming = <<>>
    BY <1>3, <2>1, <2>2, Standing DEF AtRest
  <2>4. destined(seeded[n]) = g
    BY <2>1, <2>3 DEF destined
  <2> QED
    BY <2>1, <2>4 DEF met
<1> QED
  BY <1>2, <1>3

LEMMA ReadOrdersKept ==
  ASSUME SeedIInv, ReadOrders
  PROVE  SeedIInv'
<1>1. /\ SeedTypeOK /\ CatalogHolds /\ BasketsHold /\ OrdersHold /\ ScenariosHold /\ AgainHolds
      /\ seed \in SeedState /\ script \in Script
  BY DEF SeedIInv, SeedTypeOK
<1>2. /\ seed.pc = "orders" /\ UNCHANGED <<script, accounts, catalogSeeded, basket, seeded, complete>>
  BY DEF ReadOrders, reached
<1>3. PICK z, k : /\ z = "next" /\ seed' = [seed EXCEPT !.pc = z, !.left = scenarios, !.known = k]
                  /\ k = IF script = "demo" /\ ~seed.more THEN {s \in OrderStatus : has(CustomerA, s)} ELSE {}
  BY DEF ReadOrders
<1>4. /\ scenarios \in Seq(Customers \X Goal) /\ \A s \in ToSet(scenarios) : s \in Customers \X Goal
      /\ script = "demo" => \A s \in ToSet(scenarios) : s[1] = CustomerA
  BY <1>1, ScenariosTyped
<1>5. z \in AtScenarios /\ k \subseteq OrderStatus /\ z \notin Working \cup Early
  BY <1>3 DEF AtScenarios, Working, Early
<1>6. /\ seed' \in SeedState /\ seed'.pc = z /\ seed'.left = scenarios /\ seed'.known = k
      /\ seed'.more = seed.more /\ seed'.again = seed.again /\ seed'.had = seed.had
  BY <1>1, <1>3, <1>4, <1>5 DEF SeedState
<1>7. SeedTypeOK'
  BY <1>1, <1>2, <1>6 DEF SeedTypeOK, catalogSeeded, rowsSeeded
<1>8. CatalogHolds'
  BY <1>1, <1>2, <1>5, <1>6, CatalogKept
<1>9. BasketsHold'
  BY <1>1, <1>2, <1>3, <1>6 DEF BasketsHold, Lines
<1>10. OrdersHold'
  <2>1. \A n \in DOMAIN seeded : OnCourse(seeded[n])
    BY <1>1 DEF OrdersHold
  <2> QED
    BY <1>2, <1>3, <1>5, <1>6, <2>1 DEF OrdersHold, OnCourse
<1>11. \A s : met(s) => met(s)'
  BY <1>2, <1>5, <1>6, MetAlso
<1>12. scenarios' = scenarios
  BY <1>2 DEF scenarios
<1>13. AtRest /\ AtRest' /\ CustomerA \in Customers /\ seed.pc \notin Working
  BY <1>1, <1>2 DEF AgainHolds, Early, AtRest, destined, Customers, Working
<1>14. script = "demo" => \A u \in k \cap Goal : met(<<CustomerA, u>>)'
  BY <1>3, <1>11, <1>13, ShownIsMet
<1>15. ScenariosHold'
  BY <1>1, <1>2, <1>3, <1>5, <1>6, <1>11, <1>12, <1>14 DEF ScenariosHold
<1>16. ASSUME seed.again, script = "demo", NEW s \in ToSet(scenarios)
       PROVE  s[2] \in k
  <2>1. complete /\ ~seed.more
    BY <1>1, <1>16 DEF AgainHolds
  <2>2. met(s)
    BY <1>1, <1>16, <2>1 DEF ScenariosHold
  <2>3. s = <<CustomerA, s[2]>> /\ s[2] \in Goal
    BY <1>4, <1>16
  <2>4. has(CustomerA, s[2])
    BY <1>13, <2>2, <2>3, ShownIsMet
  <2>5. s[2] \in OrderStatus
    BY <2>3 DEF Goal, OrderStatus
  <2> QED
    BY <1>3, <1>16, <2>1, <2>4, <2>5
<1>17. AgainHolds'
  BY <1>1, <1>2, <1>3, <1>5, <1>6, <1>12, <1>13, <1>16 DEF AgainHolds
<1> QED
  BY <1>7, <1>8, <1>9, <1>10, <1>15, <1>17 DEF SeedIInv

LEMMA TakeUpKept ==
  ASSUME SeedIInv, FindOrder
  PROVE  SeedIInv'
<1>1. /\ SeedTypeOK /\ BasketsHold /\ OrdersHold /\ ScenariosHold /\ AgainHolds
      /\ seed \in SeedState /\ script \in Script
  BY DEF SeedIInv, SeedTypeOK
<1>2. /\ seed.pc = "next" /\ seed.left # <<>> /\ script # "base"
      /\ UNCHANGED <<script, accounts, catalogSeeded, basket, seeded, complete>>
      /\ seed' = IF there THEN scenarioDone(seed) ELSE [seed EXCEPT !.pc = "clear"]
  BY DEF FindOrder, reached
<1>3. seed.pc \in AtScenarios /\ seed.pc \notin Working
  BY <1>2 DEF AtScenarios, Working
<1>4. PICK h, t : h = Head(seed.left) /\ t = Tail(seed.left)
  OBVIOUS
<1>5. /\ h \in Customers \X Goal /\ t \in Seq(Customers \X Goal) /\ h \in ToSet(seed.left)
  BY <1>1, <1>2, <1>4, Shorter DEF SeedState
<1>6. /\ h \in ToSet(scenarios) /\ goal = h[2] /\ customer = h[1]
      /\ goal \in Goal /\ customer \in Customers /\ h = <<customer, goal>>
  BY <1>1, <1>2, <1>3, <1>4, <1>5 DEF ScenariosHold, goal, customer
<1>7. /\ script = "demo" => customer = CustomerA
      /\ script = "e2e" => goal # "PICKED_UP"
  BY <1>1, <1>6, ScenariosTyped
<1>8. CASE there
  <2>1. met(h)
    <3>1. CASE script = "demo"
      BY <1>1, <1>3, <1>6, <1>7, <1>8, <3>1 DEF there, ScenariosHold
    <3>2. CASE script = "e2e"
      BY <1>3, <1>6, <1>7, <1>8, <3>2, ShownIsMet DEF there
    <3> QED
      BY <1>1, <1>2, <3>1, <3>2 DEF Script
  <2>2. PICK z, o : z = "next" /\ o = 0
    OBVIOUS
  <2>3. seed' = [seed EXCEPT !.pc = z, !.left = t, !.filled = o]
    BY <1>2, <1>4, <1>8, <2>2 DEF scenarioDone
  <2>4. z \in AtScenarios /\ o \in Nat
    BY <2>2 DEF AtScenarios
  <2>5. /\ seed' \in SeedState /\ seed'.pc = z /\ seed'.left = t /\ seed'.known = seed.known
        /\ seed'.more = seed.more /\ seed'.again = seed.again /\ seed'.had = seed.had
    BY <1>1, <1>5, <2>3, <2>4 DEF SeedState
  <2>6. BasketsHold' /\ basket' \in [Customers -> Nat]
    BY <1>1, <1>2, <2>2, <2>5 DEF BasketsHold, Lines, SeedTypeOK
  <2> QED
    BY <1>2, <1>4, <2>1, <2>2, <2>5, <2>6, BetweenStep
<1>9. CASE ~there
  <2>1. ~seed.again
    <3>1. CASE script = "demo"
      BY <1>1, <1>3, <1>6, <1>9, <3>1 DEF there, AgainHolds
    <3>2. ASSUME seed.again, script = "e2e"
          PROVE  FALSE
      <4>1. AtRest /\ complete
        BY <1>1, <1>2, <3>2 DEF AgainHolds
      <4>2. met(h)
        BY <1>1, <1>6, <4>1 DEF ScenariosHold
      <4>3. has(customer, goal)
        BY <1>3, <1>6, <4>1, <4>2, ShownIsMet
      <4> QED
        BY <1>9, <3>2, <4>3 DEF there
    <3> QED
      BY <1>1, <1>2, <3>1, <3>2 DEF Script
  <2>2. PICK z : z = "clear"
    OBVIOUS
  <2>3. seed' = [seed EXCEPT !.pc = z]
    BY <1>2, <1>9, <2>2
  <2>4. z \in AtScenarios
    BY <2>2 DEF AtScenarios
  <2>5. /\ seed' \in SeedState /\ seed'.pc = z /\ seed'.left = seed.left /\ seed'.known = seed.known
        /\ seed'.more = seed.more /\ seed'.again = seed.again /\ seed'.had = seed.had
    BY <1>1, <2>3, <2>4 DEF SeedState
  <2>6. BasketsHold' /\ basket' \in [Customers -> Nat]
    BY <1>1, <1>2, <2>2, <2>5 DEF BasketsHold, Lines, SeedTypeOK
  <2> QED
    BY <1>2, <2>1, <2>2, <2>5, <2>6, BetweenStep
<1> QED
  BY <1>8, <1>9

LEMMA CartKept ==
  ASSUME SeedIInv, BringOnline \/ ScenariosDone \/ DeleteCart \/ AddLine
  PROVE  SeedIInv'
<1>1. /\ SeedTypeOK /\ BasketsHold /\ OrdersHold /\ ScenariosHold /\ AgainHolds
      /\ seed \in SeedState /\ script \in Script /\ basket \in [Customers -> Nat]
  BY DEF SeedIInv, SeedTypeOK
<1>2. /\ seed.pc \in {"next", "clear", "fill"}
      /\ UNCHANGED <<script, accounts, catalogSeeded, seeded>>
  BY DEF BringOnline, ScenariosDone, DeleteCart, AddLine, reached
<1>3. customer \in Customers /\ (seed.left = <<>> => customer = CustomerA)
  <2>1. seed.left # <<>> => Head(seed.left) \in Customers \X Goal
    BY <1>1, Shorter DEF SeedState
  <2> QED
    BY <2>1 DEF customer, Customers
<1>4. seed.filled \in Nat
  BY <1>1 DEF SeedState
<1>5. ASSUME NEW z \in {"fill", "finished", "clear", "order"}, NEW m \in Nat, seed' = [seed EXCEPT !.pc = z, !.filled = m]
      PROVE  /\ seed' \in SeedState /\ seed'.pc = z /\ seed'.left = seed.left /\ seed'.known = seed.known
             /\ seed'.more = seed.more /\ seed'.again = seed.again /\ seed'.had = seed.had /\ seed'.filled = m
             /\ customer' = customer
  <2>1. z \in AtScenarios
    BY <1>5 DEF AtScenarios
  <2>2. /\ seed' \in SeedState /\ seed'.pc = z /\ seed'.left = seed.left /\ seed'.known = seed.known
        /\ seed'.more = seed.more /\ seed'.again = seed.again /\ seed'.had = seed.had /\ seed'.filled = m
    BY <1>1, <1>4, <1>5, <2>1 DEF SeedState
  <2> QED
    BY <2>2 DEF customer
<1>6. seed = [seed EXCEPT !.filled = seed.filled]
  BY <1>1 DEF SeedState
<1>7. \A z : [seed EXCEPT !.pc = z] = [seed EXCEPT !.pc = z, !.filled = seed.filled]
  BY <1>1 DEF SeedState
<1>8. CASE BringOnline
  <2>1. script = "base" /\ seed' = [seed EXCEPT !.pc = "fill"] /\ UNCHANGED <<basket, complete>>
    BY <1>8 DEF BringOnline, to
  <2>2. BasketsHold'
    BY <1>2, <2>1 DEF BasketsHold
  <2> QED
    BY <1>1, <1>2, <1>4, <1>5, <1>7, <2>1, <2>2, BetweenStep
<1>9. CASE ScenariosDone
  <2>1. seed.left = <<>> /\ UNCHANGED basket
    BY <1>9 DEF ScenariosDone
  <2>2. \/ script = "base" /\ seed' = [seed EXCEPT !.pc = "finished"] /\ complete' = TRUE
        \/ script # "base" /\ seed' = [seed EXCEPT !.pc = "clear"] /\ complete' = complete
    BY <1>9 DEF ScenariosDone, to
  <2>3. PICK z \in {"finished", "clear"} : seed' = [seed EXCEPT !.pc = z] /\ (z = "finished" => script = "base")
    BY <2>2
  <2>4. BasketsHold'
    BY <1>1, <1>2, <1>4, <1>5, <1>7, <2>1, <2>3 DEF BasketsHold, Lines
  <2> QED
    BY <1>1, <1>2, <1>4, <1>5, <1>7, <2>1, <2>2, <2>3, <2>4, BetweenStep
<1>10. CASE DeleteCart
  <2>1. basket' = [basket EXCEPT ![customer] = 0] /\ seed.pc = "clear"
    BY <1>10 DEF DeleteCart, reached
  <2>2. basket' \in [Customers -> Nat] /\ basket'[customer] = 0
    BY <1>1, <1>3, <2>1
  <2>3. CASE seed.left = <<>> /\ script = "e2e"
    <3>1. seed' = [seed EXCEPT !.pc = "finished"] /\ complete' = TRUE
      BY <1>10, <2>3 DEF DeleteCart, to
    <3>2. BasketsHold'
      BY <1>1, <1>2, <1>4, <1>5, <1>7, <2>3, <3>1 DEF BasketsHold, Lines
    <3> QED
      BY <1>1, <1>2, <1>4, <1>5, <1>7, <2>2, <2>3, <3>1, <3>2, BetweenStep
  <2>4. CASE ~(seed.left = <<>> /\ script = "e2e")
    <3>1. seed' = [seed EXCEPT !.pc = "fill", !.filled = 0] /\ complete' = complete
      BY <1>10, <2>4 DEF DeleteCart
    <3>2. /\ seed' \in SeedState /\ seed'.pc = "fill" /\ seed'.left = seed.left /\ seed'.known = seed.known
          /\ seed'.more = seed.more /\ seed'.again = seed.again /\ seed'.had = seed.had /\ seed'.filled = 0
          /\ customer' = customer
      BY <1>5, <3>1
    <3>3. BasketsHold'
      BY <1>1, <1>2, <2>2, <3>2 DEF BasketsHold, Lines
    <3>4. seed.again /\ script # "base" => seed.left = <<>>
      BY <1>1, <2>1 DEF AgainHolds
    <3> QED
      BY <1>2, <2>2, <3>1, <3>2, <3>3, <3>4, BetweenStep
  <2> QED
    BY <2>3, <2>4
<1>11. CASE AddLine
  <2>1. basket' = [basket EXCEPT ![customer] = @ + 1] /\ seed.pc = "fill"
    BY <1>11 DEF AddLine, reached
  <2>2. PICK k, m : k = basket[customer] + 1 /\ m = seed.filled + 1
    OBVIOUS
  <2>3. k \in Nat /\ m \in Nat
    BY <1>1, <1>3, <1>4, <2>2
  <2>4. basket' \in [Customers -> Nat] /\ basket'[customer] = k
    BY <1>1, <1>3, <2>1, <2>2, <2>3
  <2>5. script # "base" => k = m /\ m <= Lines
    BY <1>1, <1>4, <2>1, <2>2 DEF BasketsHold, Lines
  <2>6. seed.again /\ script # "base" => seed.left = <<>>
    BY <1>1, <2>1 DEF AgainHolds
  <2>7. CASE m < Lines
    <3>1. seed' = [seed EXCEPT !.filled = m] /\ complete' = complete
      BY <1>11, <2>2, <2>7 DEF AddLine
    <3>2. seed' = [seed EXCEPT !.pc = "fill", !.filled = m]
      BY <1>1, <2>1, <3>1 DEF SeedState
    <3>3. seed'.pc = "fill" /\ seed'.filled = m /\ customer' = customer
      BY <1>5, <2>3, <3>2
    <3>4. BasketsHold'
      BY <1>1, <1>2, <2>4, <2>5, <2>7, <3>3 DEF BasketsHold, Lines
    <3> QED
      BY <1>2, <1>5, <2>3, <2>4, <2>6, <3>1, <3>2, <3>4, BetweenStep
  <2>8. CASE ~(m < Lines) /\ seed.left = <<>>
    <3>1. seed' = [seed EXCEPT !.pc = "finished"] /\ complete' = TRUE
      BY <1>11, <2>2, <2>8 DEF AddLine, to
    <3>2. script # "base" => k = Lines
      BY <2>3, <2>5, <2>8 DEF Lines
    <3>3. seed'.pc = "finished"
      BY <1>4, <1>5, <1>7, <3>1
    <3>4. BasketsHold'
      BY <1>1, <1>2, <1>3, <2>4, <2>8, <3>2, <3>3 DEF BasketsHold, Lines
    <3> QED
      BY <1>2, <1>4, <1>5, <1>7, <2>4, <2>8, <3>1, <3>4, BetweenStep
  <2>9. CASE ~(m < Lines) /\ seed.left # <<>>
    <3>1. seed' = [seed EXCEPT !.pc = "order"] /\ complete' = complete
      BY <1>11, <2>2, <2>9 DEF AddLine, to
    <3>2. script # "base" => k = Lines
      BY <2>3, <2>5, <2>9 DEF Lines
    <3>3. seed'.pc = "order" /\ customer' = customer
      BY <1>4, <1>5, <1>7, <3>1
    <3>4. BasketsHold'
      BY <1>1, <1>2, <2>4, <3>2, <3>3 DEF BasketsHold, Lines
    <3> QED
      BY <1>2, <1>4, <1>5, <1>7, <2>4, <2>6, <2>9, <3>1, <3>4, BetweenStep
  <2> QED
    BY <2>7, <2>8, <2>9
<1> QED
  BY <1>8, <1>9, <1>10, <1>11

LEMMA PostOrderKept ==
  ASSUME SeedIInv, PostOrder
  PROVE  SeedIInv'
<1>1. /\ SeedTypeOK /\ CatalogHolds /\ BasketsHold /\ OrdersHold /\ ScenariosHold /\ AgainHolds
      /\ seeded \in Seq(Placed) /\ seed \in SeedState /\ script \in Script /\ basket \in [Customers -> Nat]
  BY DEF SeedIInv, SeedTypeOK
<1>2. seed.pc = "order" /\ seed.left # <<>> /\ UNCHANGED <<script, accounts, catalogSeeded, complete>>
  BY <1>1 DEF PostOrder, reached, OrdersHold
<1>3. customer \in Customers
  <2>1. Head(seed.left) \in Customers \X Goal
    BY <1>1, <1>2, Shorter DEF SeedState
  <2> QED
    BY <2>1 DEF customer, Customers
<1>4. PICK p : p = [by |-> customer, lines |-> basket[customer], status |-> "CREATED",
                    coming |-> <<>>, ride |-> "none"]
  OBVIOUS
<1>5. /\ p \in Placed /\ p.by = customer /\ p.lines = basket[customer] /\ p.status = "CREATED"
      /\ p.coming = <<>> /\ p.ride = "none" /\ OnCourse(p)
  <2>1. basket[customer] \in Nat /\ "CREATED" \in OrderStatus /\ "none" \in Ride /\ <<>> \in Seq(OrderStatus)
    BY <1>1, <1>3 DEF OrderStatus, Ride
  <2> QED
    BY <1>3, <1>4, <2>1 DEF Placed, OnCourse
<1>6. PICK k : k = Len(seeded) + 1
  OBVIOUS
<1>7. /\ seeded' = Append(seeded, p) /\ basket' = [basket EXCEPT ![customer] = 0]
      /\ seed' = [seed EXCEPT !.pc = "pay"]
  BY <1>4 DEF PostOrder, to
<1>8. /\ seeded' \in Seq(Placed) /\ Len(seeded') = k /\ DOMAIN seeded' = DOMAIN seeded \cup {k}
      /\ k \in Nat /\ k > 0 /\ k \notin DOMAIN seeded /\ seeded'[k] = p
      /\ \A n \in DOMAIN seeded : seeded'[n] = seeded[n]
  BY <1>1, <1>5, <1>6, <1>7
<1>9. PICK z : z = "pay"
  OBVIOUS
<1>10. z \in AtScenarios /\ z \in Working /\ seed.pc \in AtScenarios /\ seed.pc \notin Working /\ z \notin Early
  BY <1>2, <1>9 DEF AtScenarios, Working, Early
<1>11. /\ seed' \in SeedState /\ seed'.pc = z /\ seed'.left = seed.left /\ seed'.known = seed.known
       /\ seed'.more = seed.more /\ seed'.again = seed.again /\ seed'.had = seed.had
  BY <1>1, <1>7, <1>9, <1>10 DEF SeedState
<1>12. SeedTypeOK'
  BY <1>1, <1>2, <1>3, <1>7, <1>8, <1>11 DEF SeedTypeOK, catalogSeeded, rowsSeeded
<1>13. CatalogHolds'
  BY <1>1, <1>2, <1>10, <1>11, CatalogKept
<1>14. BasketsHold'
  BY <1>1, <1>2, <1>5, <1>8, <1>9, <1>11 DEF BasketsHold, Lines
<1>15. OrdersHold'
  <2>1. \A n \in DOMAIN seeded' : OnCourse(seeded'[n])
    BY <1>1, <1>5, <1>8 DEF OrdersHold
  <2>2. customer' = customer /\ goal' = goal
    BY <1>11 DEF customer, goal
  <2>3. Brought(z, p, goal)
    BY <1>5, <1>9 DEF Brought
  <2> QED
    BY <1>2, <1>5, <1>8, <1>9, <1>11, <2>1, <2>2, <2>3 DEF OrdersHold, OnCourse, Brought, destined
<1>16. \A s : met(s) => met(s)'
  BY <1>1, <1>8 DEF met, destined
<1>17. scenarios' = scenarios
  BY <1>2 DEF scenarios
<1>18. ScenariosHold'
  BY <1>1, <1>2, <1>10, <1>11, <1>16, <1>17 DEF ScenariosHold
<1>19. AgainHolds'
  BY <1>1, <1>2, <1>10, <1>11 DEF AgainHolds
<1> QED
  BY <1>12, <1>13, <1>14, <1>15, <1>18, <1>19 DEF SeedIInv

LEMMA ArriveKept ==
  ASSUME SeedIInv, NEW n \in DOMAIN seeded, Arrive(n) \/ Assign(n)
  PROVE  SeedIInv'
<1> DEFINE o == seeded[n]
<1>1. seeded \in Seq(Placed) /\ o \in Placed /\ OnCourse(o)
  BY DEF SeedIInv, SeedTypeOK, OrdersHold
<1>2. UNCHANGED <<script, accounts, catalogSeeded, basket, seed, complete>>
  BY DEF Arrive, Assign, rest
<1>3. CASE Arrive(n)
  <2>1. PICK p : p = [o EXCEPT !.status = Head(o.coming), !.coming = Tail(@)]
    OBVIOUS
  <2>2. o.coming # <<>> /\ seeded' = [seeded EXCEPT ![n] = p]
    BY <1>1, <1>3, <2>1 DEF Arrive
  <2>3. /\ p \in Placed /\ OnCourse(p) /\ destined(p) = destined(o)
        /\ p.by = o.by /\ p.lines = o.lines /\ p.ride = o.ride
    BY <1>1, <2>1, <2>2, Arrival
  <2>4. Brought(seed.pc, o, goal) => Brought(seed.pc, p, goal)
    BY <2>2, <2>3 DEF Brought
  <2>5. AtRest => (p.coming # <<>> => destined(p) = "DRIVER_ASSIGNED")
    BY <2>2, <2>3 DEF AtRest
  <2> QED
    BY <1>2, <2>2, <2>3, <2>4, <2>5, PlatformKept
<1>4. CASE Assign(n)
  <2>1. o.status = "READY_FOR_PICKUP" /\ o.ride = "none"
    BY <1>4 DEF Assign
  <2>2. PICK ride \in {"ours", "theirs"} :
          seeded' = [seeded EXCEPT ![n].ride = ride, ![n].coming = Append(@, "DRIVER_ASSIGNED")]
    BY <1>4 DEF Assign
  <2>3. PICK p : p = bringing(o, "DRIVER_ASSIGNED", ride)
    OBVIOUS
  <2>4. seeded' = [seeded EXCEPT ![n] = p]
    BY <1>1, <2>2, <2>3 DEF bringing
  <2>5. o.coming = <<>> /\ destined(o) = "READY_FOR_PICKUP"
    BY <1>1, <2>1, Standing, Ends
  <2>6. "DRIVER_ASSIGNED" \in OrderStatus /\ ride \in Ride
    BY DEF OrderStatus, Ride
  <2>7. /\ p \in Placed /\ p.by = o.by /\ p.lines = o.lines /\ p.status = "READY_FOR_PICKUP" /\ p.ride = ride
        /\ p.coming = <<"DRIVER_ASSIGNED">>
    BY <1>1, <2>1, <2>3, <2>5, <2>6, Bringing
  <2>8. OnCourse(p)
    BY <2>7 DEF OnCourse
  <2>9. destined(p) = "DRIVER_ASSIGNED"
    BY <2>7, <2>8, Ends
  <2>10. Brought(seed.pc, o, goal) => Brought(seed.pc, p, goal)
    BY <2>1, <2>5, <2>9 DEF Brought
  <2>11. destined(o) \notin Goal
    BY <2>5 DEF Goal
  <2> QED
    BY <1>2, <2>4, <2>7, <2>8, <2>9, <2>10, <2>11, PlatformKept
<1> QED
  BY <1>3, <1>4

\* The run, the carts and the orders stay.
LEMMA OrdersStay ==
  ASSUME SeedIInv, UNCHANGED <<script, basket, seeded, seed, complete>>
  PROVE  BasketsHold' /\ OrdersHold' /\ ScenariosHold' /\ AgainHolds'
<1>1. /\ BasketsHold /\ OrdersHold /\ ScenariosHold /\ AgainHolds
  BY DEF SeedIInv
<1>4. customer' = customer /\ goal' = goal /\ scenarios' = scenarios
  BY DEF customer, goal, scenarios
<1>5. BasketsHold'
  BY <1>1, <1>4 DEF BasketsHold, Lines
<1>6. OrdersHold'
  BY <1>1, <1>4 DEF OrdersHold, OnCourse, Brought, destined
<1>7. \A s : met(s)' <=> met(s)
  BY DEF met, destined
<1>8. ScenariosHold'
  BY <1>1, <1>4, <1>7 DEF ScenariosHold
<1>9. AgainHolds'
  BY <1>1, <1>4 DEF AgainHolds, AtRest, destined
<1> QED
  BY <1>5, <1>6, <1>8, <1>9

LEMMA NothingSeeded ==
  ASSUME SeedIInv, UNCHANGED <<script, accounts, rowsSeeded, door, copy, reader, crowded, hidden,
                               basket, seeded, seed, complete>>
  PROVE  SeedIInv'
<1>1. SeedTypeOK' /\ CatalogHolds'
  BY CatalogStays DEF SeedIInv, SeedTypeOK, rowsSeeded
<1> QED
  BY <1>1, OrdersStay DEF SeedIInv

\* Somebody reads a menu, a copy expires, or the first page fills.
LEMMA OthersKept ==
  ASSUME SeedIInv, OthersStep
  PROVE  SeedIInv'
<1>1. SeedTypeOK /\ CatalogHolds /\ RowsHold /\ ProgressHolds /\ ViewHolds
  BY DEF SeedIInv, CatalogHolds
<1>2. PICK q \in Eatery : BrowseReads(q) \/ BrowseCaches(q) \/ MenuExpires(q) \/ Crowd(q)
  BY DEF OthersStep
<1>3. UNCHANGED <<script, accounts, rowsSeeded, door, basket, seeded, seed, complete>>
  BY <1>2 DEF BrowseReads, BrowseCaches, MenuExpires, Crowd, others
<1>4. \A r \in Eatery : of(r)' = of(r) /\ menuOf(r)' = menuOf(r)
  BY <1>3 DEF of, menuOf, rowsSeeded
<1>5. menuOf(q) \in Menu /\ menuOf(q).names \subseteq stock \cap of(q)
  <2>1. of(q) \subseteq Name /\ available \subseteq Food
    BY <1>1, Apart DEF SeedTypeOK
  <2> QED
    BY <2>1 DEF menuOf, Menu
<1>6. /\ hidden \subseteq hidden' /\ hidden' \subseteq Eatery
      /\ copy' \in [Eatery -> SUBSET Menu] /\ reader' \in [Eatery -> SUBSET Menu]
      /\ \A r \in Eatery : \A m \in copy'[r] \cup reader'[r] : m \in copy[r] \cup reader[r] \/ (r = q /\ m = menuOf(q))
      /\ \A r \in Eatery \ hidden' : /\ r \in crowded' => r \in crowded
                                     /\ copy'[r] \subseteq copy[r] \cup {menuOf(r)}
  <2>1. CASE BrowseReads(q)
    <3>1. PICK m : m = menuOf(q)
      OBVIOUS
    <3>2. reader' = [reader EXCEPT ![q] = {m}] /\ UNCHANGED <<copy, crowded, hidden>>
      BY <2>1, <3>1 DEF BrowseReads
    <3> QED
      BY <1>1, <1>5, <3>1, <3>2 DEF RowsHold
  <2>2. CASE BrowseCaches(q)
    <3>1. PICK m : m = menuOf(q)
      OBVIOUS
    <3>2. /\ copy' = [copy EXCEPT ![q] = reader[q]] /\ reader' = [reader EXCEPT ![q] = {}]
          /\ hidden' = (IF reader[q] = {m} THEN hidden ELSE hidden \cup {q}) /\ crowded' = crowded
      BY <2>2, <3>1 DEF BrowseCaches
    <3> QED
      BY <1>1, <3>1, <3>2 DEF RowsHold
  <2>3. CASE MenuExpires(q)
    BY <1>1, <2>3 DEF MenuExpires, RowsHold
  <2>4. CASE Crowd(q)
    BY <1>1, <2>4 DEF Crowd, RowsHold
  <2> QED
    BY <1>2, <2>1, <2>2, <2>3, <2>4
<1>7. RowsHold'
  <2>1. \A r \in Eatery \ hidden' : Clear(r)'
    <3> SUFFICES ASSUME NEW r \in Eatery \ hidden'
                 PROVE  Clear(r)'
      OBVIOUS
    <3>1. Clear(r)
      BY <1>1, <1>6 DEF RowsHold
    <3> QED
      BY <1>3, <1>4, <1>6, <3>1 DEF Clear, rowsSeeded
  <2>2. \A r \in Eatery : \A m \in copy'[r] \cup reader'[r] : m.names \subseteq stock \cap of(r)
    BY <1>1, <1>5, <1>6 DEF RowsHold
  <2> QED
    BY <1>1, <1>3, <1>4, <1>6, <2>1, <2>2 DEF RowsHold, rowsSeeded
<1>8. ProgressHolds'
  <2>1. \A r \in Eatery : Stocked(r) => Stocked(r)'
    BY <1>3, <1>4, <1>6 DEF Stocked, wanted, rowsSeeded
  <2>2. here' = here /\ (atEatery' <=> atEatery)
    BY <1>3 DEF here, atEatery
  <2> QED
    BY <1>1, <1>3, <2>1, <2>2 DEF ProgressHolds
<1>9. ViewHolds'
  <2>1. here' = here /\ (atEatery' <=> atEatery) /\ of(here)' = of(here)
    BY <1>3 DEF here, atEatery, of
  <2> QED
    BY <1>1, <1>3, <1>6, <2>1 DEF ViewHolds, rowsSeeded
<1>10. SeedTypeOK'
  BY <1>1, <1>3 DEF SeedTypeOK, rowsSeeded
<1> QED
  BY <1>3, <1>7, <1>8, <1>9, <1>10, OrdersStay DEF SeedIInv, CatalogHolds

LEMMA RunKept ==
  ASSUME SeedIInv, Stop \/ \E more \in BOOLEAN : StartRun(more)
  PROVE  SeedIInv'
<1>1. SeedTypeOK /\ CatalogHolds
  BY DEF SeedIInv
<1>2. UNCHANGED <<script, accounts, catalogSeeded, basket, seeded, complete>>
  BY DEF Stop, StartRun
<1>3. CASE Stop
  <2>1. seed' = NoRun
    BY <1>3 DEF Stop
  <2>2. PICK z, u : z = "none" /\ u = FALSE
    OBVIOUS
  <2>3. seed' = [pc |-> z, more |-> u, todo |-> {}, known |-> {}, offered |-> {}, left |-> <<>>,
                 eatery |-> z, filled |-> 0, again |-> u, had |-> 0]
    BY <2>1, <2>2 DEF NoRun
  <2>4. z \in {"none"} /\ u \in BOOLEAN /\ <<>> \in Seq(Customers \X Goal)
    <3>1. <<>> \in Seq(Customers \X Goal)
      OBVIOUS
    <3>2. z \in {"none"} /\ u \in BOOLEAN
      BY <2>2
    <3> QED
      BY <3>1, <3>2
  <2>5. seed' \in SeedState /\ seed'.pc = z /\ ~seed'.again
    BY <2>2, <2>3, <2>4 DEF SeedState
  <2>6. BasketsHold' /\ OrdersHold' /\ ScenariosHold' /\ AgainHolds'
    BY <1>2, <2>2, <2>5, QuietStep DEF Early
  <2>7. SeedTypeOK'
    BY <1>1, <1>2, <2>5 DEF SeedTypeOK, catalogSeeded, rowsSeeded
  <2>8. CatalogHolds'
    <3>1. RowsHold'
      BY <1>1, <1>2, RowsStay DEF CatalogHolds, catalogSeeded
    <3> QED
      BY <1>1, <1>2, <2>2, <2>5, <3>1
         DEF CatalogHolds, ProgressHolds, ViewHolds, atEatery, catalogSeeded, AtScenarios, Working
  <2> QED
    BY <2>6, <2>7, <2>8 DEF SeedIInv
<1>4. ASSUME NEW more \in BOOLEAN, StartRun(more)
      PROVE  SeedIInv'
  <2>1. PICK z, y, a, k : /\ z = "accounts" /\ y = "none" /\ a = (complete /\ ~more) /\ k = Len(seeded)
    OBVIOUS
  <2>2. seed' = [pc |-> z, more |-> more, todo |-> Account, known |-> {}, offered |-> {}, left |-> <<>>,
                 eatery |-> y, filled |-> 0, again |-> a, had |-> k]
    BY <1>4, <2>1 DEF StartRun, NoRun
  <2>3. /\ z \in Early /\ y \in {"none"} /\ a \in BOOLEAN /\ k \in Nat
        /\ <<>> \in Seq(Customers \X Goal)
    BY <1>1, <2>1 DEF Early, SeedTypeOK
  <2>4. /\ seed' \in SeedState /\ seed'.pc = z /\ seed'.again = a /\ seed'.more = more /\ seed'.had = k
        /\ seed'.todo = Account
    BY <2>2, <2>3 DEF SeedState
  <2>5. AtRest
    BY <1>4 DEF StartRun, settledPlatform, AtRest
  <2>6. BasketsHold' /\ OrdersHold' /\ ScenariosHold' /\ AgainHolds'
    BY <1>2, <2>1, <2>3, <2>4, <2>5, QuietStep
  <2>7. SeedTypeOK'
    BY <1>1, <1>2, <2>4 DEF SeedTypeOK, catalogSeeded, rowsSeeded
  <2>8. CatalogHolds'
    <3>1. RowsHold'
      BY <1>1, <1>2, RowsStay DEF CatalogHolds, catalogSeeded
    <3> QED
      BY <1>1, <1>2, <2>1, <2>4, <3>1
         DEF CatalogHolds, ProgressHolds, ViewHolds, atEatery, catalogSeeded, AtScenarios, Working
  <2> QED
    BY <2>6, <2>7, <2>8 DEF SeedIInv
<1> QED
  BY <1>3, <1>4

LEMMA NoRunTyped == NoRun \in SeedState /\ NoRun.pc = "none" /\ ~NoRun.again
<1>1. PICK z, u : z = "none" /\ u = FALSE
  OBVIOUS
<1>2. NoRun = [pc |-> z, more |-> u, todo |-> {}, known |-> {}, offered |-> {}, left |-> <<>>,
               eatery |-> z, filled |-> 0, again |-> u, had |-> 0]
  BY <1>1 DEF NoRun
<1>3. <<>> \in Seq(Customers \X Goal)
  OBVIOUS
<1>4. z \in {"none"} /\ u \in BOOLEAN
  BY <1>1
<1> QED
  BY <1>1, <1>2, <1>3, <1>4 DEF SeedState

\* A step of a run over the catalog, or a write of it whose drop is lost.
LEMMA AtCatalog ==
  ASSUME SeedIInv, seed.pc \in Early, seed' \in SeedState,
         \/ /\ seed'.pc \in Early
            /\ seed'.again = seed.again /\ seed'.more = seed.more /\ seed'.had = seed.had
         \/ seed' = NoRun,
         UNCHANGED <<script, basket, seeded, complete>>
  PROVE  BasketsHold' /\ OrdersHold' /\ ScenariosHold' /\ AgainHolds'
<1>1. seed'.again => seed.again /\ seed'.more = seed.more /\ seed'.had = seed.had
  BY NoRunTyped
<1>2. seed'.pc \in Early \cup {"none"}
  BY NoRunTyped
<1>3. AtRest
  BY DEF SeedIInv, AgainHolds
<1>4. seed'.again => /\ complete /\ ~seed'.more
                     /\ script # "base" => Len(seeded) = seed'.had /\ AtRest
  BY <1>1 DEF SeedIInv, AgainHolds
<1> QED
  BY <1>2, <1>3, <1>4, QuietStep

LEMMA EarlyPoints ==
  /\ Early = {"accounts", "catalog", "eatery", "menu", "orders"} /\ Early \cap AtScenarios = {}
  /\ "none" \notin AtScenarios
  BY DEF Early, AtScenarios, Working

LEMMA PeopleKept ==
  ASSUME SeedIInv, ensureDriverProfile \/ \E a \in Account : loginOrRegister(a)
  PROVE  SeedIInv'
<1>1. /\ SeedTypeOK /\ CatalogHolds /\ ProgressHolds /\ seed \in SeedState
  BY DEF SeedIInv, SeedTypeOK, CatalogHolds
<1>2. ASSUME NEW a \in Account, loginOrRegister(a)
      PROVE  SeedIInv'
  <2>1. /\ seed.pc = "accounts" /\ accounts' = accounts \cup {a} /\ seed' = [seed EXCEPT !.todo = @ \ {a}]
        /\ UNCHANGED <<script, catalogSeeded, basket, seeded, complete>>
    BY <1>2 DEF loginOrRegister, reached
  <2>2. /\ seed' \in SeedState /\ seed'.pc = seed.pc /\ seed'.todo = seed.todo \ {a}
        /\ seed'.again = seed.again /\ seed'.more = seed.more /\ seed'.had = seed.had
    BY <1>1, <2>1 DEF SeedState
  <2>3. SeedTypeOK'
    BY <1>1, <2>1, <2>2 DEF SeedTypeOK, catalogSeeded, rowsSeeded
  <2>4. ProgressHolds'
    <3>1. Account \subseteq accounts' \cup seed'.todo /\ seed'.todo \subseteq Account
      BY <1>1, <2>1, <2>2 DEF ProgressHolds
    <3> QED
      BY <2>1, <2>2, <3>1, EarlyPoints DEF ProgressHolds, atEatery
  <2>5. RowsHold' /\ ViewHolds'
    BY <1>1, <2>1, <2>2, RowsStay DEF CatalogHolds, ViewHolds, atEatery, catalogSeeded
  <2> QED
    BY <2>1, <2>2, <2>3, <2>4, <2>5, AtCatalog, EarlyPoints DEF SeedIInv, CatalogHolds
<1>3. ASSUME ensureDriverProfile
      PROVE  SeedIInv'
  <2>1. PICK z : z = "catalog"
    OBVIOUS
  <2>2. /\ seed.pc = "accounts" /\ seed.todo = {} /\ seed' = [seed EXCEPT !.pc = z, !.todo = Eatery, !.known = {}]
        /\ UNCHANGED <<script, accounts, catalogSeeded, basket, seeded, complete>>
    BY <1>3, <2>1 DEF ensureDriverProfile, reached
  <2>3. z \in Early
    BY <2>1 DEF Early
  <2>4. /\ seed' \in SeedState /\ seed'.pc = z /\ seed'.todo = Eatery
        /\ seed'.again = seed.again /\ seed'.more = seed.more /\ seed'.had = seed.had
    BY <1>1, <2>2, <2>3 DEF SeedState
  <2>5. SeedTypeOK'
    BY <1>1, <2>2, <2>4 DEF SeedTypeOK, catalogSeeded, rowsSeeded
  <2>6. accounts' = Account
    BY <1>1, <2>2 DEF ProgressHolds, SeedTypeOK
  <2>7. ProgressHolds' /\ ViewHolds'
    BY <2>1, <2>2, <2>4, <2>6, EarlyPoints DEF ProgressHolds, ViewHolds, atEatery
  <2>8. RowsHold'
    BY <1>1, <2>2, RowsStay DEF CatalogHolds, catalogSeeded
  <2> QED
    BY <2>2, <2>3, <2>4, <2>5, <2>7, <2>8, AtCatalog, EarlyPoints DEF SeedIInv, CatalogHolds
<1> QED
  BY <1>2, <1>3

LEMMA LookUpKept ==
  ASSUME SeedIInv, NEW r \in Eatery, LookUp(r)
  PROVE  SeedIInv'
<1>1. /\ SeedTypeOK /\ CatalogHolds /\ RowsHold /\ ProgressHolds /\ seed \in SeedState
  BY DEF SeedIInv, SeedTypeOK, CatalogHolds
<1>2. PICK z, k : z = "eatery" /\ k = {r} \cap (stock \ crowded)
  OBVIOUS
<1>3. /\ seed.pc = "catalog" /\ r \in seed.todo
      /\ seed' = [seed EXCEPT !.pc = z, !.todo = @ \ {r}, !.eatery = r, !.known = k, !.offered = {}]
      /\ UNCHANGED <<script, accounts, catalogSeeded, basket, seeded, complete>>
  BY <1>2 DEF LookUp, reached
<1>4. z \in Early /\ k \subseteq Name /\ r \in of(r)
  BY <1>2, Apart DEF Early, Name
<1>5. /\ seed' \in SeedState /\ seed'.pc = z /\ seed'.todo = seed.todo \ {r} /\ seed'.eatery = r /\ seed'.known = k
      /\ seed'.again = seed.again /\ seed'.more = seed.more /\ seed'.had = seed.had
  BY <1>1, <1>3, <1>4 DEF SeedState
<1>6. SeedTypeOK'
  BY <1>1, <1>3, <1>5 DEF SeedTypeOK, catalogSeeded, rowsSeeded
<1>7. RowsHold' /\ \A x \in Eatery : Stocked(x)' <=> Stocked(x)
  BY <1>1, <1>3, RowsStay DEF catalogSeeded
<1>8. here' = r /\ of(here)' = of(r) /\ atEatery'
  BY <1>2, <1>5 DEF here, of, atEatery
<1>9. ProgressHolds'
  <2>1. /\ accounts = Account /\ seed.todo \subseteq Eatery /\ \A x \in Eatery \ seed.todo : Stocked(x)
    BY <1>1, <1>3 DEF ProgressHolds, atEatery
  <2>2. /\ seed'.todo \subseteq Eatery /\ \A x \in Eatery \ seed'.todo : x = here' \/ Stocked(x)'
    BY <1>5, <1>7, <1>8, <2>1
  <2> QED
    BY <1>2, <1>3, <1>5, <1>8, <2>1, <2>2, EarlyPoints DEF ProgressHolds
<1>10. ViewHolds'
  <2>1. r \notin hidden => r \notin crowded
    BY <1>1 DEF RowsHold, Clear
  <2>2. k \subseteq stock \cap of(r) /\ (r \notin hidden /\ r \in stock => r \in k)
    BY <1>2, <1>4, <2>1
  <2> QED
    BY <1>2, <1>3, <1>5, <1>8, <2>2 DEF ViewHolds, catalogSeeded, rowsSeeded
<1> QED
  BY <1>3, <1>4, <1>5, <1>6, <1>7, <1>9, <1>10, AtCatalog, EarlyPoints DEF SeedIInv, CatalogHolds

LEMMA CreateEateryKept ==
  ASSUME SeedIInv, CreateEatery
  PROVE  SeedIInv'
<1>1. /\ SeedTypeOK /\ CatalogHolds /\ RowsHold /\ ProgressHolds /\ ViewHolds /\ seed \in SeedState
      /\ made \in [Name -> Nat] /\ available \subseteq Food /\ door \in [Eatery -> {"OPEN", "BUSY", "CLOSED"}]
  BY DEF SeedIInv, SeedTypeOK, CatalogHolds
<1>2. PICK h, m, c : h = here /\ m = made[h] + 1 /\ c = "CLOSED"
  OBVIOUS
<1>3. /\ seed.pc = "eatery" /\ h \notin seed.known /\ made' = [made EXCEPT ![h] = m]
      /\ stock' = (stock \ of(h)) \cup {h} /\ available' = available \ of(h)
      /\ door' = [door EXCEPT ![h] = c]
      /\ copy' = [copy EXCEPT ![h] = {}] /\ reader' = [reader EXCEPT ![h] = {}]
      /\ crowded' = crowded \ {h} /\ seed' = [seed EXCEPT !.known = {h}]
      /\ UNCHANGED <<script, accounts, hidden, basket, seeded, complete>>
  BY <1>2 DEF CreateEatery, reached
<1>4. h \in Eatery /\ h \in Name /\ h \in of(h) /\ of(h) \subseteq Name
  BY <1>1, <1>2, <1>3, Apart DEF ViewHolds, atEatery
<1>5. m \in Nat /\ m > 0 /\ c \in {"OPEN", "BUSY", "CLOSED"}
  BY <1>1, <1>2, <1>4
<1>6. /\ made' \in [Name -> Nat] /\ made'[h] = m /\ \A n \in Name : n # h => made'[n] = made[n]
      /\ door' \in [Eatery -> {"OPEN", "BUSY", "CLOSED"}] /\ \A r \in Eatery : r # h => door'[r] = door[r]
      /\ copy' \in [Eatery -> SUBSET Menu] /\ reader' \in [Eatery -> SUBSET Menu]
      /\ copy'[h] = {} /\ reader'[h] = {}
      /\ \A r \in Eatery : r # h => copy'[r] = copy[r] /\ reader'[r] = reader[r]
  BY <1>1, <1>3, <1>4, <1>5 DEF RowsHold
<1>7. /\ seed' \in SeedState /\ seed'.pc = seed.pc /\ seed'.todo = seed.todo /\ seed'.eatery = seed.eatery
      /\ seed'.known = {h} /\ seed'.again = seed.again /\ seed'.more = seed.more /\ seed'.had = seed.had
  BY <1>1, <1>3, <1>4 DEF SeedState
<1>8. SeedTypeOK'
  BY <1>1, <1>3, <1>6, <1>7 DEF SeedTypeOK
<1>9. ASSUME NEW r \in Eatery, r # h
      PROVE  /\ stock' \cap of(r) = stock \cap of(r) /\ available' \cap of(r) = available \cap of(r)
             /\ of(r) \subseteq Name /\ r \in of(r) /\ h \notin of(r) /\ of(r)' = of(r)
             /\ menuOf(r)' = menuOf(r) /\ \A n \in of(r) : made'[n] = made[n]
  <2>1. of(r) \cap of(h) = {} /\ of(r) \subseteq Name /\ r \in of(r) /\ of(r)' = of(r)
    BY <1>4, <1>9, Apart DEF of
  <2>2. /\ stock' \cap of(r) = stock \cap of(r) /\ available' \cap of(r) = available \cap of(r)
        /\ h \notin of(r)
    BY <1>3, <1>4, <2>1
  <2>3. menuOf(r)' = menuOf(r)
    BY <2>1, <2>2 DEF menuOf
  <2>4. \A n \in of(r) : made'[n] = made[n]
    BY <1>6, <2>1, <2>2
  <2> QED
    BY <2>1, <2>2, <2>3, <2>4
<1>10. RowsHold'
  <2>1. stock' \subseteq Name /\ available' \subseteq stock' /\ \A n \in stock' : made'[n] > 0
    BY <1>1, <1>3, <1>4, <1>5, <1>6 DEF RowsHold
  <2>2. \A r \in Eatery : stock' \cap of(r)' # {} => r \in stock'
    BY <1>1, <1>3, <1>4, <1>9 DEF RowsHold
  <2>3. \A r \in Eatery : \A x \in copy'[r] \cup reader'[r] : x.names \subseteq stock' \cap of(r)'
    BY <1>1, <1>6, <1>9 DEF RowsHold
  <2>4. \A r \in Eatery \ hidden : Clear(r)'
    <3> SUFFICES ASSUME NEW r \in Eatery \ hidden
                 PROVE  Clear(r)'
      OBVIOUS
    <3>1. Clear(r)
      BY <1>1 DEF RowsHold
    <3>2. CASE r = h
      <4>1. stock \cap of(h) = {}
        BY <1>1, <1>2, <1>3, <1>4, <3>2 DEF ViewHolds, RowsHold, atEatery
      <4>2. \A n \in of(h) : made[n] = 0
        <5> SUFFICES ASSUME NEW n \in of(h)
                     PROVE  made[n] = 0
          OBVIOUS
        <5>1. n \notin stock /\ (made[n] > 0 => n \in stock) /\ made[n] \in Nat
          BY <1>1, <1>4, <3>1, <3>2, <4>1 DEF Clear
        <5> QED
          BY <5>1
      <4>3. \A n \in of(h) : made'[n] <= 1 /\ (made'[n] > 0 => n \in stock')
        BY <1>2, <1>3, <1>4, <1>6, <4>2
      <4>4. of(h)' = of(h)
        BY DEF of
      <4> QED
        BY <1>3, <1>6, <3>2, <4>3, <4>4 DEF Clear
    <3>3. CASE r # h
      <4>1. /\ of(r)' = of(r) /\ menuOf(r)' = menuOf(r) /\ copy'[r] = copy[r]
            /\ \A n \in of(r) : made'[n] = made[n] /\ (n \in stock' <=> n \in stock)
        BY <1>6, <1>9, <3>3
      <4> QED
        BY <1>3, <3>1, <4>1 DEF Clear
    <3> QED
      BY <3>2, <3>3
  <2> QED
    BY <1>1, <1>3, <1>6, <2>1, <2>2, <2>3, <2>4 DEF RowsHold
<1>11. here' = here /\ of(here)' = of(here) /\ atEatery /\ atEatery'
  BY <1>3, <1>7 DEF here, of, atEatery
<1>12. ProgressHolds'
  <2>1. ASSUME NEW r \in Eatery, r # h, Stocked(r)
        PROVE  Stocked(r)'
    <3>1. /\ of(r)' = of(r) /\ door'[r] = door[r] /\ script' = script /\ hidden' = hidden
          /\ \A n \in of(r) : made'[n] = made[n] /\ (n \in available' <=> n \in available)
      BY <1>3, <1>6, <1>9, <2>1
    <3> QED
      BY <2>1, <3>1 DEF Stocked, wanted
  <2>2. \A r \in Eatery \ seed'.todo : r = here' \/ Stocked(r)'
    BY <1>1, <1>2, <1>7, <1>11, <2>1 DEF ProgressHolds
  <2> QED
    BY <1>1, <1>3, <1>7, <1>11, <2>2, EarlyPoints DEF ProgressHolds
<1>13. ViewHolds'
  BY <1>2, <1>3, <1>4, <1>7, <1>11 DEF ViewHolds
<1> QED
  BY <1>3, <1>7, <1>8, <1>10, <1>12, <1>13, AtCatalog, EarlyPoints DEF SeedIInv, CatalogHolds

LEMMA ReadMenuKept ==
  ASSUME SeedIInv, ReadMenu
  PROVE  SeedIInv'
<1>1. /\ SeedTypeOK /\ CatalogHolds /\ RowsHold /\ ProgressHolds /\ ViewHolds /\ seed \in SeedState
      /\ made \in [Name -> Nat] /\ available \subseteq Food
  BY DEF SeedIInv, SeedTypeOK, CatalogHolds
<1>2. PICK h, z : h = here /\ z = "menu"
  OBVIOUS
<1>3. /\ seed.pc = "eatery" /\ h \in seed.known
      /\ UNCHANGED <<script, accounts, rowsSeeded, door, reader, crowded, hidden, basket, seeded, complete>>
  BY <1>2 DEF ReadMenu, reached
<1>4. PICK menu \in IF copy[h] = {} THEN {menuOf(h)} ELSE copy[h] :
        /\ copy' = [copy EXCEPT ![h] = {menu}]
        /\ \E unseen \in SUBSET {d \in menu.offered : made[d] > 1} :
             seed' = [seed EXCEPT !.pc = z, !.offered = menu.offered \ unseen,
                                  !.known = {h} \cup (@ \cap Heading) \cup menu.names]
  BY <1>2 DEF ReadMenu
<1>5. PICK o, k : /\ copy' = [copy EXCEPT ![h] = {menu}]
                  /\ seed' = [seed EXCEPT !.pc = z, !.offered = o, !.known = k]
                  /\ o \subseteq menu.offered /\ \A d \in menu.offered \ o : made[d] > 1
                  /\ k = {h} \cup (seed.known \cap Heading) \cup menu.names
  <2>1. PICK unseen \in SUBSET {d \in menu.offered : made[d] > 1} :
          seed' = [seed EXCEPT !.pc = z, !.offered = menu.offered \ unseen,
                               !.known = {h} \cup (@ \cap Heading) \cup menu.names]
    BY <1>4
  <2>2. PICK x, y : x = menu.offered \ unseen /\ y = {h} \cup (seed.known \cap Heading) \cup menu.names
    OBVIOUS
  <2>3. seed' = [seed EXCEPT !.pc = z, !.offered = x, !.known = y]
    BY <2>1, <2>2
  <2>4. x \subseteq menu.offered /\ \A d \in menu.offered \ x : made[d] > 1
    BY <2>1, <2>2
  <2>5. /\ copy' = [copy EXCEPT ![h] = {menu}]
        /\ seed' = [seed EXCEPT !.pc = z, !.offered = x, !.known = y]
        /\ x \subseteq menu.offered /\ \A d \in menu.offered \ x : made[d] > 1
        /\ y = {h} \cup (seed.known \cap Heading) \cup menu.names
    BY <1>4, <2>2, <2>3, <2>4
  <2> QED
    BY <2>5, Zenon
<1>6. h \in Eatery /\ h \in of(h) /\ of(h) \subseteq Name /\ h \in stock /\ seed.known \subseteq stock \cap of(h)
  BY <1>1, <1>2, <1>3, Apart DEF ViewHolds, atEatery
<1>7. menu \in Menu /\ menu.names \subseteq stock \cap of(h)
  BY <1>1, <1>4, <1>6 DEF RowsHold, menuOf, Menu
<1>8. h \notin hidden => menu = menuOf(h)
  BY <1>1, <1>4, <1>6 DEF RowsHold, Clear
<1>9. z \in Early /\ o \subseteq Food /\ k \subseteq stock \cap of(h) /\ k \subseteq Name
  BY <1>2, <1>5, <1>6, <1>7 DEF Menu, Early
<1>10. /\ seed' \in SeedState /\ seed'.pc = z /\ seed'.todo = seed.todo /\ seed'.eatery = seed.eatery
       /\ seed'.known = k /\ seed'.offered = o
       /\ seed'.again = seed.again /\ seed'.more = seed.more /\ seed'.had = seed.had
  BY <1>1, <1>5, <1>9 DEF SeedState
<1>11. SeedTypeOK'
  BY <1>1, <1>3, <1>10 DEF SeedTypeOK, rowsSeeded
<1>12. /\ copy' \in [Eatery -> SUBSET Menu] /\ copy'[h] = {menu}
       /\ \A r \in Eatery : r # h => copy'[r] = copy[r]
  BY <1>1, <1>5, <1>6, <1>7 DEF RowsHold
<1>13. \A r \in Eatery : of(r)' = of(r) /\ menuOf(r)' = menuOf(r)
  BY <1>3 DEF of, menuOf, rowsSeeded
<1>14. RowsHold'
  <2>1. \A r \in Eatery : \A x \in copy'[r] \cup reader[r] : x.names \subseteq stock \cap of(r)
    BY <1>1, <1>7, <1>12 DEF RowsHold
  <2>2. \A r \in Eatery \ hidden : Clear(r)'
    <3> SUFFICES ASSUME NEW r \in Eatery \ hidden
                 PROVE  Clear(r)'
      OBVIOUS
    <3>1. Clear(r)
      BY <1>1 DEF RowsHold
    <3>2. copy'[r] \subseteq {menuOf(r)}
      BY <1>8, <1>12, <3>1 DEF Clear
    <3> QED
      BY <1>3, <1>13, <3>1, <3>2 DEF Clear, rowsSeeded
  <2> QED
    BY <1>1, <1>3, <1>12, <1>13, <2>1, <2>2 DEF RowsHold, rowsSeeded
<1>15. here' = here /\ of(here)' = of(here) /\ atEatery /\ atEatery'
  BY <1>2, <1>3, <1>10 DEF here, of, atEatery
<1>16. ProgressHolds'
  <2>1. \A r \in Eatery : Stocked(r) => Stocked(r)'
    BY <1>3, <1>13 DEF Stocked, wanted, rowsSeeded
  <2> QED
    BY <1>1, <1>2, <1>3, <1>10, <1>15, <2>1, EarlyPoints DEF ProgressHolds
<1>17. ViewHolds'
  <2>1. ASSUME h \notin hidden
        PROVE  stock \cap of(h) \subseteq k /\ o = available \cap of(h)
    <3>1. menu.names = stock \cap of(h) /\ menu.offered = available \cap of(h)
      BY <1>8, <2>1 DEF menuOf
    <3>2. \A d \in menu.offered : ~(made[d] > 1)
      <4> SUFFICES ASSUME NEW d \in menu.offered
                   PROVE  ~(made[d] > 1)
        OBVIOUS
      <4>1. d \in of(h) /\ d \in Name /\ made[d] \in Nat /\ Clear(h)
        BY <1>1, <1>6, <2>1, <3>1 DEF RowsHold
      <4> QED
        BY <4>1 DEF Clear
    <3> QED
      BY <1>5, <3>1, <3>2
  <2> QED
    BY <1>2, <1>3, <1>5, <1>6, <1>9, <1>10, <1>15, <2>1 DEF ViewHolds, rowsSeeded
<1> QED
  BY <1>3, <1>9, <1>10, <1>11, <1>14, <1>16, <1>17, AtCatalog, EarlyPoints DEF SeedIInv, CatalogHolds

\* A write of a row of the restaurant and its drop of the copy, kept or lost.
LEMMA Dropped ==
  ASSUME RowsHold, ViewHolds, seed.pc = "menu", NEW onward, dropsMenu(onward)
  PROVE  /\ here \in Eatery /\ hidden \subseteq hidden' /\ hidden' \subseteq hidden \cup {here}
         /\ copy' \in [Eatery -> SUBSET Menu] /\ (here \notin hidden' => copy'[here] = {})
         /\ \A r \in Eatery : copy'[r] \subseteq copy[r] /\ (r # here => copy'[r] = copy[r])
         /\ (seed' = onward /\ hidden' = hidden) \/ seed' = NoRun
<1>1. PICK h : h = here
  OBVIOUS
<1>2. h \in Eatery /\ copy \in [Eatery -> SUBSET Menu]
  BY <1>1 DEF ViewHolds, atEatery, RowsHold
<1>3. \/ copy' = [copy EXCEPT ![h] = {}] /\ seed' = onward /\ UNCHANGED hidden
      \/ /\ seed' = NoRun /\ UNCHANGED copy
         /\ hidden' = IF copy[h] = {} THEN hidden ELSE hidden \cup {h}
  BY <1>1 DEF dropsMenu
<1>4. CASE copy' = [copy EXCEPT ![h] = {}] /\ seed' = onward /\ UNCHANGED hidden
  BY <1>1, <1>2, <1>4
<1>5. CASE /\ seed' = NoRun /\ UNCHANGED copy
           /\ hidden' = IF copy[h] = {} THEN hidden ELSE hidden \cup {h}
  BY <1>1, <1>2, <1>5
<1> QED
  BY <1>3, <1>4, <1>5

LEMMA CreateKept ==
  ASSUME SeedIInv, NEW n \in Name, Create(n)
  PROVE  SeedIInv'
<1>1. /\ SeedTypeOK /\ CatalogHolds /\ RowsHold /\ ProgressHolds /\ ViewHolds /\ seed \in SeedState
      /\ made \in [Name -> Nat] /\ available \subseteq Food
  BY DEF SeedIInv, SeedTypeOK, CatalogHolds
<1>2. PICK h, m, z, x : /\ h = here /\ m = made[n] + 1 /\ x = {n} \cap Food
                        /\ z = IF script = "base" /\ n \in Heading THEN "eatery" ELSE seed.pc
  OBVIOUS
<1>3. PICK onward : onward = [seed EXCEPT !.pc = z, !.known = @ \cup {n}, !.offered = @ \cup x]
  OBVIOUS
<1>4. /\ seed.pc = "menu" /\ n \in of(h) \ seed.known /\ made' = [made EXCEPT ![n] = m]
      /\ stock' = stock \cup {n} /\ available' = available \cup x /\ dropsMenu(onward)
      /\ UNCHANGED <<script, accounts, door, reader, crowded, basket, seeded, complete>>
  BY <1>2, <1>3 DEF Create, reached
<1>5. /\ h \in Eatery /\ hidden \subseteq hidden' /\ hidden' \subseteq hidden \cup {h}
      /\ copy' \in [Eatery -> SUBSET Menu] /\ (h \notin hidden' => copy'[h] = {})
      /\ \A r \in Eatery : copy'[r] \subseteq copy[r] /\ (r # h => copy'[r] = copy[r])
      /\ (seed' = onward /\ hidden' = hidden) \/ seed' = NoRun
  BY <1>1, <1>2, <1>4, Dropped
<1>6. /\ of(h) \subseteq Name /\ h \in stock /\ h \in seed.known /\ seed.known \subseteq stock \cap of(h)
      /\ (h \notin hidden => stock \cap of(h) \subseteq seed.known /\ seed.offered = available \cap of(h))
  BY <1>1, <1>2, <1>4, <1>5, Apart DEF ViewHolds, atEatery
<1>7. m \in Nat /\ m > 0 /\ x \subseteq Food \cap of(h) /\ x \subseteq {n}
  BY <1>1, <1>2, <1>4
<1>8. made' \in [Name -> Nat] /\ made'[n] = m /\ \A y \in Name : y # n => made'[y] = made[y]
  BY <1>1, <1>4, <1>7
<1>9. z \in {"eatery", "menu"} /\ z \in Early
  BY <1>2, <1>4 DEF Early
<1>10. /\ onward \in SeedState /\ onward.pc = z /\ onward.todo = seed.todo /\ onward.eatery = seed.eatery
       /\ onward.known = seed.known \cup {n} /\ onward.offered = seed.offered \cup x
       /\ onward.again = seed.again /\ onward.more = seed.more /\ onward.had = seed.had
  BY <1>1, <1>3, <1>7, <1>9 DEF SeedState
<1>11. seed' \in SeedState
  BY <1>5, <1>10, NoRunTyped
<1>12. SeedTypeOK'
  BY <1>1, <1>4, <1>7, <1>8, <1>11 DEF SeedTypeOK
<1>13. ASSUME NEW r \in Eatery, r # h
       PROVE  /\ n \notin of(r) /\ of(r)' = of(r) /\ of(r) \subseteq Name
              /\ menuOf(r)' = menuOf(r) /\ \A y \in of(r) : made'[y] = made[y]
  <2>1. n \notin of(r) /\ of(r)' = of(r) /\ of(r) \subseteq Name
    BY <1>4, <1>5, <1>13, Apart DEF of
  <2>2. stock' \cap of(r) = stock \cap of(r) /\ available' \cap of(r) = available \cap of(r)
    BY <1>4, <1>7, <2>1
  <2>3. menuOf(r)' = menuOf(r)
    BY <2>1, <2>2 DEF menuOf
  <2> QED
    BY <1>8, <2>1, <2>3
<1>14. RowsHold'
  <2>1. stock' \subseteq Name /\ available' \subseteq stock' /\ \A y \in stock' : made'[y] > 0
    BY <1>1, <1>4, <1>7, <1>8 DEF RowsHold
  <2>2. \A r \in Eatery : stock' \cap of(r)' # {} => r \in stock'
    <3> SUFFICES ASSUME NEW r \in Eatery, stock' \cap of(r)' # {}
                 PROVE  r \in stock'
      OBVIOUS
    <3>1. r # h => stock \cap of(r) # {}
      BY <1>4, <1>13
    <3> QED
      BY <1>1, <1>4, <1>6, <3>1 DEF RowsHold
  <2>3. \A r \in Eatery : \A y \in copy'[r] \cup reader'[r] : y.names \subseteq stock' \cap of(r)'
    <3> SUFFICES ASSUME NEW r \in Eatery, NEW y \in copy'[r] \cup reader'[r]
                 PROVE  y.names \subseteq stock' \cap of(r)'
      OBVIOUS
    <3>1. y \in copy[r] \cup reader[r] /\ of(r)' = of(r)
      BY <1>4, <1>5 DEF of
    <3> QED
      BY <1>1, <1>4, <3>1 DEF RowsHold
  <2>4. \A r \in Eatery \ hidden' : Clear(r)'
    <3> SUFFICES ASSUME NEW r \in Eatery \ hidden'
                 PROVE  Clear(r)'
      OBVIOUS
    <3>1. Clear(r) /\ r \notin hidden
      BY <1>1, <1>5 DEF RowsHold
    <3>2. CASE r = h
      <4>1. n \notin stock /\ (made[n] > 0 => n \in stock) /\ made[n] \in Nat
        BY <1>1, <1>4, <1>6, <3>1, <3>2 DEF Clear
      <4>2. made'[n] = 1
        BY <1>2, <1>8, <4>1
      <4>3. \A y \in of(h) : made'[y] <= 1 /\ (made'[y] > 0 => y \in stock')
        BY <1>4, <1>6, <1>8, <3>1, <3>2, <4>2 DEF Clear
      <4>4. of(h)' = of(h)
        BY DEF of
      <4> QED
        BY <1>4, <1>5, <3>1, <3>2, <4>3, <4>4 DEF Clear
    <3>3. CASE r # h
      <4>1. /\ of(r)' = of(r) /\ menuOf(r)' = menuOf(r) /\ copy'[r] = copy[r]
            /\ \A y \in of(r) : made'[y] = made[y]
        BY <1>5, <1>13, <3>3
      <4> QED
        BY <1>4, <3>1, <4>1 DEF Clear
    <3> QED
      BY <3>2, <3>3
  <2> QED
    BY <1>1, <1>4, <1>5, <2>1, <2>2, <2>3, <2>4 DEF RowsHold
<1>15. ProgressHolds' /\ ViewHolds'
  <2>1. CASE seed' = NoRun
    BY <2>1, NoRunTyped, EarlyPoints DEF ProgressHolds, ViewHolds, atEatery
  <2>2. CASE seed' = onward /\ hidden' = hidden
    <3>1. here' = here /\ of(here)' = of(here) /\ atEatery /\ atEatery' /\ seed'.pc = z
      BY <1>4, <1>9, <1>10, <2>2 DEF here, of, atEatery
    <3>2. ASSUME NEW r \in Eatery, r # h, Stocked(r)
          PROVE  Stocked(r)'
      <4>1. /\ of(r)' = of(r) /\ door' = door /\ script' = script /\ hidden' = hidden
            /\ \A y \in of(r) : made'[y] = made[y] /\ (y \in available' <=> y \in available)
        BY <1>4, <1>7, <1>13, <2>2, <3>2
      <4> QED
        BY <3>2, <4>1 DEF Stocked, wanted
    <3>3. \A r \in Eatery \ seed'.todo : r = here' \/ Stocked(r)'
      BY <1>1, <1>2, <1>10, <2>2, <3>1, <3>2 DEF ProgressHolds
    <3>4. ProgressHolds'
      BY <1>1, <1>4, <1>9, <1>10, <2>2, <3>1, <3>3, EarlyPoints DEF ProgressHolds
    <3>5. ViewHolds'
      BY <1>2, <1>4, <1>5, <1>6, <1>7, <1>10, <2>2, <3>1 DEF ViewHolds
    <3> QED
      BY <3>4, <3>5
  <2> QED
    BY <1>5, <2>1, <2>2
<1>16. \/ /\ seed'.pc \in Early
          /\ seed'.again = seed.again /\ seed'.more = seed.more /\ seed'.had = seed.had
       \/ seed' = NoRun
  BY <1>5, <1>9, <1>10
<1> QED
  BY <1>4, <1>11, <1>12, <1>14, <1>15, <1>16, AtCatalog, EarlyPoints DEF SeedIInv, CatalogHolds

LEMMA AvailabilityKept ==
  ASSUME SeedIInv, NEW d \in Food, SetAvailability(d)
  PROVE  SeedIInv'
<1>1. /\ SeedTypeOK /\ CatalogHolds /\ RowsHold /\ ProgressHolds /\ ViewHolds /\ seed \in SeedState
      /\ made \in [Name -> Nat] /\ available \subseteq Food
  BY DEF SeedIInv, SeedTypeOK, CatalogHolds
<1>2. PICK h, o : h = here /\ o = IF wanted(d) THEN seed.offered \cup {d} ELSE seed.offered \ {d}
  OBVIOUS
<1>3. PICK onward : onward = [seed EXCEPT !.offered = o]
  OBVIOUS
<1>4. /\ seed.pc = "menu" /\ allKnown /\ d \in of(h)
      /\ \/ wanted(d) /\ available' = available \cup {d}
         \/ ~wanted(d) /\ available' = available \ {d}
         \/ ~wanted(d) /\ made[d] > 1 /\ UNCHANGED available
      /\ dropsMenu(onward)
      /\ UNCHANGED <<script, accounts, made, stock, door, reader, crowded, basket, seeded, complete>>
  BY <1>2, <1>3 DEF SetAvailability, reached
<1>5. /\ h \in Eatery /\ hidden \subseteq hidden' /\ hidden' \subseteq hidden \cup {h}
      /\ copy' \in [Eatery -> SUBSET Menu] /\ (h \notin hidden' => copy'[h] = {})
      /\ \A r \in Eatery : copy'[r] \subseteq copy[r] /\ (r # h => copy'[r] = copy[r])
      /\ (seed' = onward /\ hidden' = hidden) \/ seed' = NoRun
  BY <1>1, <1>2, <1>4, Dropped
<1>6. /\ of(h) \subseteq Name /\ d \in stock /\ (h \notin hidden => seed.offered = available \cap of(h))
  BY <1>1, <1>2, <1>4, <1>5, Apart DEF ViewHolds, atEatery, allKnown
<1>7. /\ onward \in SeedState /\ onward.pc = "menu" /\ onward.todo = seed.todo /\ onward.eatery = seed.eatery
      /\ onward.known = seed.known /\ onward.offered = o
      /\ onward.again = seed.again /\ onward.more = seed.more /\ onward.had = seed.had
  <2>1. o \subseteq Food
    BY <1>1, <1>2 DEF SeedState
  <2> QED
    BY <1>1, <1>3, <1>4, <2>1 DEF SeedState
<1>8. seed' \in SeedState
  BY <1>5, <1>7, NoRunTyped
<1>9. /\ available' \subseteq Food /\ available' \subseteq stock
      /\ \A y : y # d => (y \in available' <=> y \in available)
  BY <1>1, <1>4, <1>6 DEF RowsHold
<1>10. SeedTypeOK'
  BY <1>1, <1>4, <1>8, <1>9 DEF SeedTypeOK
<1>11. ASSUME NEW r \in Eatery, r # h
       PROVE  d \notin of(r) /\ of(r)' = of(r) /\ menuOf(r)' = menuOf(r)
  <2>1. d \notin of(r) /\ of(r)' = of(r)
    BY <1>4, <1>5, <1>11, Apart DEF of
  <2>2. available' \cap of(r) = available \cap of(r)
    BY <1>9, <2>1
  <2> QED
    BY <1>4, <2>1, <2>2 DEF menuOf
<1>12. RowsHold'
  <2>1. \A r \in Eatery : of(r)' = of(r)
    BY DEF of
  <2>2. \A r \in Eatery \ hidden' : Clear(r)'
    <3> SUFFICES ASSUME NEW r \in Eatery \ hidden'
                 PROVE  Clear(r)'
      OBVIOUS
    <3>1. Clear(r)
      BY <1>1, <1>5 DEF RowsHold
    <3>2. copy'[r] \subseteq {menuOf(r)'}
      BY <1>5, <1>11, <3>1 DEF Clear
    <3> QED
      BY <1>4, <2>1, <3>1, <3>2 DEF Clear
  <2>3. \A r \in Eatery : \A y \in copy'[r] \cup reader[r] : y.names \subseteq stock \cap of(r)
    BY <1>1, <1>5 DEF RowsHold
  <2> QED
    BY <1>1, <1>4, <1>5, <1>9, <2>1, <2>2, <2>3 DEF RowsHold
<1>13. ProgressHolds' /\ ViewHolds'
  <2>1. CASE seed' = NoRun
    BY <2>1, NoRunTyped, EarlyPoints DEF ProgressHolds, ViewHolds, atEatery
  <2>2. CASE seed' = onward /\ hidden' = hidden
    <3>1. here' = here /\ of(here)' = of(here) /\ atEatery /\ atEatery' /\ seed'.pc = "menu"
      BY <1>4, <1>7, <2>2 DEF here, of, atEatery
    <3>2. ASSUME NEW r \in Eatery, r # h, Stocked(r)
          PROVE  Stocked(r)'
      <4>1. /\ of(r)' = of(r) /\ door' = door /\ script' = script /\ hidden' = hidden /\ made' = made
            /\ \A y \in of(r) : y \in available' <=> y \in available
        BY <1>4, <1>9, <1>11, <2>2, <3>2
      <4> QED
        BY <3>2, <4>1 DEF Stocked, wanted
    <3>3. \A r \in Eatery \ seed'.todo : r = here' \/ Stocked(r)'
      BY <1>1, <1>2, <1>7, <2>2, <3>1, <3>2 DEF ProgressHolds
    <3>4. ProgressHolds'
      BY <1>1, <1>4, <1>7, <2>2, <3>1, <3>3, EarlyPoints DEF ProgressHolds
    <3>5. h \notin hidden => o = available' \cap of(h)
      <4> SUFFICES ASSUME h \notin hidden
                   PROVE  o = available' \cap of(h)
        OBVIOUS
      <4>1. ~(made[d] > 1)
        <5>1. Clear(h) /\ made[d] \in Nat
          BY <1>1, <1>4, <1>5, <1>6 DEF RowsHold
        <5> QED
          BY <1>4, <5>1 DEF Clear
      <4> QED
        BY <1>2, <1>4, <1>6, <4>1
    <3>6. ViewHolds'
      BY <1>1, <1>2, <1>4, <1>5, <1>7, <2>2, <3>1, <3>5 DEF ViewHolds
    <3> QED
      BY <3>4, <3>6
  <2> QED
    BY <1>5, <2>1, <2>2
<1>14. \/ /\ seed'.pc \in Early
          /\ seed'.again = seed.again /\ seed'.more = seed.more /\ seed'.had = seed.had
       \/ seed' = NoRun
  BY <1>5, <1>7, EarlyPoints
<1> QED
  BY <1>4, <1>8, <1>10, <1>12, <1>13, <1>14, AtCatalog, EarlyPoints DEF SeedIInv, CatalogHolds

LEMMA DoorKept ==
  ASSUME SeedIInv, SetDoor \/ CatalogDone
  PROVE  SeedIInv'
<1>1. /\ SeedTypeOK /\ CatalogHolds /\ RowsHold /\ ProgressHolds /\ ViewHolds /\ seed \in SeedState
      /\ door \in [Eatery -> {"OPEN", "BUSY", "CLOSED"}]
  BY DEF SeedIInv, SeedTypeOK, CatalogHolds
<1>2. ASSUME SetDoor
      PROVE  SeedIInv'
  <2>1. PICK h, s : h = here /\ s = doorOf[h]
    OBVIOUS
  <2>2. /\ seed.pc \in {"eatery", "menu"} /\ door' = [door EXCEPT ![h] = s]
        /\ UNCHANGED <<script, accounts, rowsSeeded, copy, reader, crowded, hidden,
                       basket, seeded, seed, complete>>
    BY <1>2, <2>1 DEF SetDoor, reached
  <2>3. h \in Eatery /\ s \in {"OPEN", "BUSY", "CLOSED"}
    BY <1>1, <2>1, <2>2, SeedingAssumption DEF ViewHolds, atEatery
  <2>4. /\ door' \in [Eatery -> {"OPEN", "BUSY", "CLOSED"}] /\ \A r \in Eatery : r # h => door'[r] = door[r]
        /\ door'[h] = doorOf[h]
    BY <1>1, <2>1, <2>2, <2>3
  <2>5. SeedTypeOK'
    BY <1>1, <2>2, <2>4 DEF SeedTypeOK, rowsSeeded
  <2>6. \A r \in Eatery : of(r)' = of(r) /\ menuOf(r)' = menuOf(r)
    BY <2>2 DEF of, menuOf, rowsSeeded
  <2>7. RowsHold'
    <3>1. \A r \in Eatery : Clear(r)' <=> Clear(r)
      BY <2>2, <2>6 DEF Clear, rowsSeeded
    <3> QED
      BY <1>1, <2>2, <2>6, <3>1 DEF RowsHold, rowsSeeded
  <2>8. \A r \in Eatery : Stocked(r) => Stocked(r)'
    BY <2>2, <2>4, <2>6 DEF Stocked, wanted, rowsSeeded
  <2>9. here' = here /\ of(here)' = of(here) /\ (atEatery' <=> atEatery)
    BY <2>2 DEF here, of, atEatery
  <2>10. ProgressHolds'
    BY <1>1, <2>2, <2>8, <2>9 DEF ProgressHolds
  <2>11. ViewHolds'
    BY <1>1, <2>2, <2>9 DEF ViewHolds, rowsSeeded
  <2> QED
    BY <2>2, <2>5, <2>7, <2>10, <2>11, OrdersStay DEF SeedIInv, CatalogHolds
<1>3. ASSUME CatalogDone
      PROVE  SeedIInv'
  <2>1. PICK z : z = (IF seed.todo = {} THEN "orders" ELSE "catalog")
    OBVIOUS
  <2>2. /\ seed.pc = "menu" /\ allKnown /\ door[here] = doorOf[here] /\ (script # "base" => offeredAsWanted)
        /\ seed' = [seed EXCEPT !.pc = z]
        /\ UNCHANGED <<script, accounts, catalogSeeded, basket, seeded, complete>>
    BY <1>3, <2>1 DEF CatalogDone, reached, to
  <2>3. z \in Early /\ z \notin {"none", "accounts", "eatery", "menu"}
    BY <2>1 DEF Early
  <2>4. /\ seed' \in SeedState /\ seed'.pc = z /\ seed'.todo = seed.todo
        /\ seed'.again = seed.again /\ seed'.more = seed.more /\ seed'.had = seed.had
    BY <1>1, <2>2, <2>3 DEF SeedState
  <2>5. SeedTypeOK'
    BY <1>1, <2>2, <2>4 DEF SeedTypeOK, catalogSeeded, rowsSeeded
  <2>6. Stocked(here)
    <3>1. here \in Eatery /\ of(here) \subseteq stock
      BY <1>1, <2>2 DEF ViewHolds, atEatery, allKnown
    <3>2. \A n \in of(here) : made[n] > 0
      BY <1>1, <3>1 DEF RowsHold
    <3>3. script # "base" /\ here \notin hidden => \A d \in of(here) \cap Food : d \in available <=> wanted(d)
      BY <1>1, <2>2 DEF ViewHolds, offeredAsWanted
    <3> QED
      BY <2>2, <3>2, <3>3 DEF Stocked
  <2>7. RowsHold' /\ \A r \in Eatery : Stocked(r)' <=> Stocked(r)
    BY <1>1, <2>2, RowsStay DEF catalogSeeded
  <2>8. /\ accounts = Account /\ seed.todo \subseteq Eatery
        /\ \A r \in Eatery \ seed.todo : Stocked(r)'
    BY <1>1, <2>2, <2>6, <2>7 DEF ProgressHolds, atEatery
  <2>9. z = "catalog" \/ (z = "orders" /\ seed.todo = {})
    BY <2>1
  <2>10. ProgressHolds'
    BY <2>2, <2>3, <2>4, <2>8, <2>9, EarlyPoints DEF ProgressHolds, atEatery
  <2>11. ViewHolds'
    BY <2>3, <2>4 DEF ViewHolds, atEatery
  <2> QED
    BY <2>2, <2>3, <2>4, <2>5, <2>7, <2>10, <2>11, AtCatalog, EarlyPoints DEF SeedIInv, CatalogHolds
<1> QED
  BY <1>2, <1>3

LEMMA CatalogStepKept ==
  ASSUME SeedIInv, CatalogStep
  PROVE  SeedIInv'
<1>1. tryImage => SeedIInv'
  BY NothingSeeded DEF tryImage
<1> QED
  BY <1>1, PeopleKept, LookUpKept, CreateEateryKept, ReadMenuKept, CreateKept, AvailabilityKept, DoorKept
     DEF CatalogStep

-----------------------------------------------------------------------------
\* Between any two runs of the scripts, wherever they ended, and in them: an order holds
\* the lines of its scenario, a run that finished left everything, a plain run after that
\* places no order, and nothing of a restaurant is there twice unless a lost drop, a slow
\* reader's copy or the first page hid rows of it.
THEOREM RerunIsSafe == SeedingSpec => []SeedKept
<1>1. SeedingInit => SeedIInv
  <2> SUFFICES ASSUME SeedingInit
               PROVE  SeedIInv
    OBVIOUS
  <2>1. PICK z, u : z = "none" /\ u = FALSE
    OBVIOUS
  <2>2. seed = [pc |-> z, more |-> u, todo |-> {}, known |-> {}, offered |-> {}, left |-> <<>>,
                eatery |-> z, filled |-> 0, again |-> u, had |-> 0]
    BY <2>1 DEF SeedingInit, NoRun
  <2>3. z \in {"none"} /\ u \in BOOLEAN /\ <<>> \in Seq(Customers \X Goal)
    <3>1. <<>> \in Seq(Customers \X Goal)
      OBVIOUS
    <3>2. z \in {"none"} /\ u \in BOOLEAN
      BY <2>1
    <3> QED
      BY <3>1, <3>2
  <2>4. seed \in SeedState /\ seed.pc = "none" /\ ~seed.again
    BY <2>1, <2>2, <2>3 DEF SeedState
  <2>5. "none" \notin Early \cup AtScenarios \cup Working
                        \cup {"accounts", "catalog", "eatery", "menu", "orders", "fill", "order", "finished"}
    BY DEF Early, AtScenarios, Working
  <2>6. /\ seeded = <<>> /\ seeded \in Seq(Placed) /\ DOMAIN seeded = {} /\ complete = FALSE
    BY DEF SeedingInit
  <2>7. SeedTypeOK
    BY <2>4, <2>6 DEF SeedTypeOK, SeedingInit, Customers
  <2>8. CatalogHolds
    <3>1. RowsHold
      <4>1. \A r \in Eatery : Clear(r)
        BY Apart DEF Clear, SeedingInit
      <4> QED
        BY <4>1 DEF RowsHold, SeedingInit
    <3> QED
      BY <2>4, <2>5, <3>1 DEF CatalogHolds, ProgressHolds, ViewHolds, atEatery
  <2>9. BasketsHold /\ OrdersHold
    BY <2>4, <2>5, <2>6 DEF BasketsHold, OrdersHold
  <2>10. ScenariosHold /\ AgainHolds
    BY <2>4, <2>5, <2>6 DEF ScenariosHold, AgainHolds
  <2> QED
    BY <2>7, <2>8, <2>9, <2>10 DEF SeedIInv
<1>2. SeedIInv /\ [SeedingNext]_seedVars => SeedIInv'
  <2> SUFFICES ASSUME SeedIInv, [SeedingNext]_seedVars
               PROVE  SeedIInv'
    OBVIOUS
  <2>1. CASE UNCHANGED seedVars
    BY <2>1, NothingSeeded DEF seedVars, catalogSeeded
  <2>2. CASE PlatformStep
    <3>1. CASE Reconcile
      BY <3>1, NothingSeeded DEF Reconcile, rest, catalogSeeded
    <3> QED
      BY <2>2, <3>1, ArriveKept DEF PlatformStep
  <2>3. CASE ScenarioStep
    BY <2>3, ReadOrdersKept, TakeUpKept, CartKept, PostOrderKept, PaymentKept, KitchenKept, RideKept
       DEF ScenarioStep
  <2> QED
    BY <2>1, <2>2, <2>3, RunKept, CatalogStepKept, OthersKept DEF SeedingNext
<1>3. SeedIInv => SeedKept
  <2> SUFFICES ASSUME SeedIInv
               PROVE  SeedKept
    OBVIOUS
  <2>1. /\ SeedTypeOK /\ CatalogHolds /\ BasketsHold /\ OrdersHold /\ ScenariosHold /\ AgainHolds
    BY DEF SeedIInv
  <2>2. CatalogOnce
    BY <2>1 DEF CatalogOnce, CatalogHolds, RowsHold, Clear
  <2>3. OrdersExact
    BY <2>1 DEF OrdersExact, BasketsHold
  <2>4. FinishedIsComplete
    <3> SUFFICES ASSUME seed.pc = "finished"
                 PROVE  /\ accounts = Account /\ \A n \in Name : made[n] > 0
                        /\ \A r \in Eatery : door[r] = doorOf[r]
                        /\ script # "base" =>
                             \A r \in Eatery \ hidden : available \cap of(r) = (Food \cap of(r)) \ SoldOut
                        /\ script = "demo" => basket[CustomerA] = Lines
                        /\ \A s \in ToSet(scenarios) :
                             \E n \in DOMAIN seeded : seeded[n].by = s[1] /\ destined(seeded[n]) = s[2]
      BY DEF FinishedIsComplete, reached
    <3>1. accounts = Account /\ \A r \in Eatery : Stocked(r)
      BY <2>1 DEF CatalogHolds, ProgressHolds, AtScenarios
    <3>3. \A n \in Name : made[n] > 0
      BY <3>1, Apart DEF Stocked
    <3>4. script # "base" =>
            \A r \in Eatery \ hidden : available \cap of(r) = (Food \cap of(r)) \ SoldOut
      <4>1. available \subseteq Food
        BY <2>1 DEF SeedTypeOK
      <4> QED
        BY <3>1, <4>1 DEF Stocked, wanted
    <3>5. script = "demo" => basket[CustomerA] = Lines
      BY <2>1 DEF BasketsHold
    <3>6. ToSet(seed.left) = {}
      BY <2>1 DEF OrdersHold, ToSet
    <3>7. \A s \in ToSet(scenarios) : met(s)
      BY <2>1, <3>6 DEF ScenariosHold, AtScenarios
    <3> QED
      BY <3>1, <3>3, <3>4, <3>5, <3>7 DEF Stocked, met
  <2>5. RerunAddsNothing
    BY <2>1 DEF RerunAddsNothing, AgainHolds
  <2> QED
    BY <2>2, <2>3, <2>4, <2>5 DEF SeedKept
<1> QED
  BY <1>1, <1>2, <1>3, PTL DEF SeedingSpec
=============================================================================
