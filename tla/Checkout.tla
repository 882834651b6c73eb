------------------------------ MODULE Checkout ------------------------------
(***************************************************************************)
(* One customer's cart (cart-service, one Redis value) and the orders made *)
(* from it (order-service, createFromCart).                                *)
(*                                                                         *)
(* A cart command reads the whole cart, changes its copy and writes the    *)
(* whole back, so commands that cross overwrite each other.  A checkout    *)
(* looks for an order of its Idempotency-Key, reads the cart, asks the     *)
(* other services, inserts the order and clears the cart, one action each; *)
(* an order found or inserted later with the same key wins.  A crash stops *)
(* it anywhere without an answer, and the customer may ask again.          *)
(***************************************************************************)
EXTENDS Naturals, Sequences

CONSTANTS
  Item, restaurantOf,     \* menu items and the restaurant of each
  NoRestaurant, Nothing,  \* no restaurant; no cart about to be written
  CheckoutKey, NoHeader,  \* Idempotency-Keys; no header
  CheckoutSlot, CartSlot, \* requests at work
  MaxQuantity, MaxOrders  \* bounds

ASSUME CheckoutAssumption ==
  /\ NoHeader \notin CheckoutKey /\ Item # {}
  /\ \A i \in Item : restaurantOf[i] # NoRestaurant
  /\ MaxQuantity \in Nat \ {0} /\ MaxOrders \in Nat

VARIABLES
  cart,     \* the Redis value; no value and no items are the same
  saving,   \* the cart each cart command is about to write
  orders,   \* orders in the order they were inserted: key and items
  checkout  \* the request in each slot

checkoutVars == <<cart, saving, orders, checkout>>

emptyCart == [restaurantId |-> NoRestaurant, items |-> [i \in Item |-> 0]]
Cart == [restaurantId : {restaurantOf[i] : i \in Item} \cup {NoRestaurant},
         items : [Item -> 0..MaxQuantity]]
CheckoutIdle == [pc |-> "idle", key |-> NoHeader, read |-> emptyCart, order |-> 0]
CheckoutState == [pc : {"idle", "find", "cart", "insert", "clear", "recover", "answered"},
                  key : CheckoutKey \cup {NoHeader}, read : Cart, order : 0..MaxOrders]

holds(c, i) == c.items[i] > 0
isEmpty(c) == \A i \in Item : ~holds(c, i)

CheckoutTypeOK ==
  /\ cart \in Cart
  /\ saving \in [CartSlot -> Cart \cup {Nothing}]
  /\ orders \in Seq([key : CheckoutKey \cup {NoHeader}, cart : Cart]) /\ Len(orders) <= MaxOrders
  /\ checkout \in [CheckoutSlot -> CheckoutState]
  /\ cart.restaurantId = NoRestaurant <=> isEmpty(cart)

CheckoutInit ==
  /\ cart = emptyCart
  /\ saving = [c \in CartSlot |-> Nothing]
  /\ orders = <<>>
  /\ checkout = [q \in CheckoutSlot |-> CheckoutIdle]

-----------------------------------------------------------------------------
(* cart-service: what a command makes of the cart it read *)
withItem(c, i, n) == [restaurantId |-> restaurantOf[i], items |-> [c.items EXCEPT ![i] = @ + n]]

AddItem(c) ==
  {withItem(c, i, n) : i \in {j \in Item : isEmpty(c) \/ c.restaurantId = restaurantOf[j]},
                       n \in 1..MaxQuantity} \cap Cart

UpdateItemQuantity(c) ==
  {[c EXCEPT !.items[i] = n] : i \in {j \in Item : holds(c, j)}, n \in 0..MaxQuantity}

RemoveItem(c) == IF isEmpty(c) THEN {} ELSE {[c EXCEPT !.items[i] = 0] : i \in Item}

\* A cart left without items is deleted, and its restaurant with it.
persistOrClear(c) == IF isEmpty(c) THEN emptyCart ELSE c

ReadCart(s) ==
  /\ saving[s] = Nothing
  /\ \E c \in AddItem(cart) \cup UpdateItemQuantity(cart) \cup RemoveItem(cart) :
       saving' = [saving EXCEPT ![s] = persistOrClear(c)]
  /\ UNCHANGED <<cart, orders, checkout>>

SaveCart(s) ==
  /\ saving[s] # Nothing
  /\ cart' = saving[s]
  /\ saving' = [saving EXCEPT ![s] = Nothing]
  /\ UNCHANGED <<orders, checkout>>

\* DELETE /cart, or cartTtlSeconds without a change.
ClearOrExpire ==
  /\ ~isEmpty(cart)
  /\ cart' = emptyCart
  /\ UNCHANGED <<saving, orders, checkout>>

-----------------------------------------------------------------------------
(* order-service: createFromCart *)
ordersOf(k) == {n \in DOMAIN orders : orders[n].key = k}
at(q, pc) == checkout[q].pc = pc
become(q, pc) == checkout' = [checkout EXCEPT ![q].pc = pc]
answer(q, n) ==
  checkout' = [checkout EXCEPT ![q] = [@ EXCEPT !.pc = "answered", !.read = emptyCart, !.order = n]]
refuse(q) == checkout' = [checkout EXCEPT ![q] = CheckoutIdle]

CreateFromCart(q, k) ==
  /\ checkout[q].pc \in {"idle", "answered"}
  /\ checkout' = [checkout EXCEPT ![q] = [CheckoutIdle EXCEPT !.pc = "find", !.key = k]]
  /\ UNCHANGED <<cart, saving, orders>>

FindPrior(q) ==
  /\ at(q, "find")
  /\ IF checkout[q].key # NoHeader /\ ordersOf(checkout[q].key) # {}
       THEN \E n \in ordersOf(checkout[q].key) : answer(q, n)
       ELSE become(q, "cart")
  /\ UNCHANGED <<cart, saving, orders>>

\* Restaurant closed, no address, phone not verified, or a service that fails.
Refuse(q) ==
  /\ checkout[q].pc \in {"cart", "insert"}
  /\ refuse(q)
  /\ UNCHANGED <<cart, saving, orders>>

GetCart(q) ==
  /\ at(q, "cart")
  /\ IF isEmpty(cart) THEN refuse(q)
     ELSE checkout' = [checkout EXCEPT ![q].pc = "insert", ![q].read = cart]
  /\ UNCHANGED <<cart, saving, orders>>

insert(q) ==
  /\ Len(orders) < MaxOrders
  /\ orders' = Append(orders, [key |-> checkout[q].key, cart |-> checkout[q].read])
  /\ checkout' = [checkout EXCEPT ![q] = [@ EXCEPT !.pc = "clear", !.read = emptyCart,
                                                      !.order = Len(orders) + 1]]
  /\ UNCHANGED <<cart, saving>>

InsertOrder_NoIndex(q) == at(q, "insert") /\ insert(q)
InsertOrder(q) ==
  /\ at(q, "insert")
  /\ checkout[q].key # NoHeader => ordersOf(checkout[q].key) = {}
  /\ insert(q)

\* The unique index refuses a second order of the key; the database may fail.
InsertFails(q) ==
  /\ at(q, "insert")
  /\ IF checkout[q].key = NoHeader THEN refuse(q) ELSE become(q, "recover")
  /\ UNCHANGED <<cart, saving, orders>>

ClearCart(q) ==
  /\ at(q, "clear")
  /\ cart' = emptyCart
  /\ answer(q, checkout[q].order)
  /\ UNCHANGED <<saving, orders>>

ClearFails(q) ==
  /\ at(q, "clear")
  /\ IF checkout[q].key = NoHeader THEN refuse(q) ELSE become(q, "recover")
  /\ UNCHANGED <<cart, saving, orders>>

Recover(q) ==
  /\ at(q, "recover")
  /\ IF ordersOf(checkout[q].key) = {} THEN refuse(q)
     ELSE \E n \in ordersOf(checkout[q].key) : answer(q, n)
  /\ UNCHANGED <<cart, saving, orders>>

CrashCheckout(q) ==
  /\ checkout[q].pc \notin {"idle", "answered"}
  /\ refuse(q)
  /\ UNCHANGED <<cart, saving, orders>>

-----------------------------------------------------------------------------
CheckoutNext ==
  \/ \E s \in CartSlot : ReadCart(s) \/ SaveCart(s)
  \/ ClearOrExpire
  \/ \E q \in CheckoutSlot :
       \/ \E k \in CheckoutKey \cup {NoHeader} : CreateFromCart(q, k)
       \/ FindPrior(q) \/ Refuse(q) \/ GetCart(q)
       \/ InsertOrder(q) \/ InsertFails(q) \/ ClearCart(q) \/ ClearFails(q) \/ Recover(q)
       \/ CrashCheckout(q)

CheckoutSpec == CheckoutInit /\ [][CheckoutNext]_checkoutVars

-----------------------------------------------------------------------------
(* What checkout promises *)

\* A key makes one order, however often and however closely its checkout is
\* retried, and whatever fails in between (UQ_orders_customer_idempotency_key).
OnePerKey == \A k \in CheckoutKey : \A m, n \in ordersOf(k) : m = n

\* A checkout with a key that was answered with an order was answered with that
\* key's order, also when it lost the race to insert it (createFromCart, catch).
AnsweredWithOwn ==
  \A q \in CheckoutSlot : at(q, "answered") => orders[checkout[q].order].key = checkout[q].key

\* Neither the cart nor an order ever mixes restaurants, and no order is empty,
\* although cart commands overwrite each other and carts change under a checkout.
OneRestaurant ==
  \A c \in {cart} \cup {orders[n].cart : n \in DOMAIN orders} :
    \A i \in Item : holds(c, i) => c.restaurantId = restaurantOf[i]

\* An order is made of a cart that had something in it, whatever was cleared or
\* saved between its reading and the insert (createFromCart).
NoEmptyOrder == \A n \in DOMAIN orders : ~isEmpty(orders[n].cart)

\* All of these at once, with commands on the cart and checkouts of it crossing
\* (CartService, OrdersService.createFromCart).
CheckoutInv == CheckoutTypeOK /\ OnePerKey /\ AnsweredWithOwn /\ OneRestaurant /\ NoEmptyOrder
=============================================================================
