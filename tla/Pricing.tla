------------------------------- MODULE Pricing -------------------------------
(***************************************************************************)
(* What an order costs and who gets its delivery fee: order-service prices *)
(* a checkout with the policy its process was started with and stores the  *)
(* snapshot, payment-service charges the total it reads from the order,    *)
(* and delivery-service pays the driver from the split it reads when the   *)
(* delivery ends, when the policy may have changed several times.          *)
(*                                                                         *)
(* Money is computed in whole piasters and kept as a decimal with two      *)
(* places, in columns and in JSON; the cart sums floats, so its total is   *)
(* off by less than half a piaster.  Fractions are counted in hundredths   *)
(* of a piaster.                                                           *)
(***************************************************************************)
EXTENDS Naturals

CONSTANTS
  Bill,     \* orders
  Policy,   \* configurations order-service is started with
  Sum,      \* what a cart's items may cost, in piasters
  Dust,     \* the most a float sum is off, in hundredths of a piaster
  NoAmount  \* null

ASSUME PricingAssumption ==
  /\ Policy \subseteq [fee : Nat, share : 0..100, cancelShare : 0..100] /\ Policy # {}
  /\ Sum \subseteq Nat \ {0} /\ Dust \in 0..49
  /\ NoAmount \notin Nat \X Nat

VARIABLES
  policy,   \* the PricingPolicy of the running process
  snapshot, \* each order's amounts, NoAmount before it is placed
  charged,  \* payments.amount of each order
  earned,   \* each order's ledger entry: its type and amount
  atPlacing \* the cart's exact sum and the policy when each order was placed

pricingVars == <<policy, snapshot, charged, earned, atPlacing>>

\* numeric(10,2) and toFixed(2); parseFloat and Math.round(value * 100).
Decimal == Nat \X (0..99)
fromPiasters(p) == <<p \div 100, p % 100>>
valueOf(d) == 100 * d[1] + d[2]
toPiasters(hundredths) == (hundredths + 50) \div 100

Snapshot == [subtotal : Decimal, fee : Decimal, total : Decimal,
             driver : Decimal, platform : Decimal, cancel : Decimal]
Entry == [type : {"DELIVERY_EARNING", "CANCELLATION_COMPENSATION"}, amount : Decimal]

PricingTypeOK ==
  /\ policy \in Policy
  /\ snapshot \in [Bill -> Snapshot \cup {NoAmount}]
  /\ charged \in [Bill -> Decimal \cup {NoAmount}]
  /\ earned \in [Bill -> Entry \cup {NoAmount}]
  /\ atPlacing \in [Bill -> [sum : Sum, policy : Policy] \cup {NoAmount}]

PricingInit ==
  /\ policy \in Policy
  /\ snapshot = [b \in Bill |-> NoAmount] /\ charged = [b \in Bill |-> NoAmount]
  /\ earned = [b \in Bill |-> NoAmount] /\ atPlacing = [b \in Bill |-> NoAmount]

-----------------------------------------------------------------------------
(* order-service *)

\* Rounded down; the platform's side takes the remainder.
percentOf(amount, percent) == (amount * percent) \div 100

keeps(fee, p) == fee - percentOf(fee, p.share)

priceOrder(total, p) ==
  LET subtotal == toPiasters(total) IN
  [subtotal |-> fromPiasters(subtotal), fee |-> fromPiasters(p.fee),
   total |-> fromPiasters(subtotal + p.fee),
   driver |-> fromPiasters(percentOf(p.fee, p.share)),
   platform |-> fromPiasters(keeps(p.fee, p)),
   cancel |-> fromPiasters(percentOf(p.fee, p.cancelShare))]

\* The process is started again, with whatever the environment says by then.
Restart(p) ==
  /\ policy' = p
  /\ UNCHANGED <<snapshot, charged, earned, atPlacing>>

PlaceOrder(b, sum) ==
  /\ snapshot[b] = NoAmount
  /\ \E total \in (100 * sum - Dust)..(100 * sum + Dust) :
       snapshot' = [snapshot EXCEPT ![b] = priceOrder(total, policy)]
  /\ atPlacing' = [atPlacing EXCEPT ![b] = [sum |-> sum, policy |-> policy]]
  /\ UNCHANGED <<policy, charged, earned>>

-----------------------------------------------------------------------------
(* payment-service, and the ledger of delivery-service *)
Charge(b) ==
  /\ snapshot[b] # NoAmount /\ charged[b] = NoAmount
  /\ charged' = [charged EXCEPT ![b] = snapshot[b].total]
  /\ UNCHANGED <<policy, snapshot, earned, atPlacing>>

\* earningFor: nothing is written when the share is zero.
pays(b, type, amount) ==
  /\ snapshot[b] # NoAmount /\ earned[b] = NoAmount
  /\ valueOf(amount) > 0
  /\ earned' = [earned EXCEPT ![b] = [type |-> type, amount |-> amount]]
  /\ UNCHANGED <<policy, snapshot, charged, atPlacing>>

Deliver_PolicyNow(b) == pays(b, "DELIVERY_EARNING", fromPiasters(percentOf(policy.fee, policy.share)))
Deliver(b) == pays(b, "DELIVERY_EARNING", snapshot[b].driver)
CancelAfterPickup(b) == pays(b, "CANCELLATION_COMPENSATION", snapshot[b].cancel)

-----------------------------------------------------------------------------
PricingNext ==
  \/ \E p \in Policy : Restart(p)
  \/ \E b \in Bill : Charge(b) \/ Deliver(b) \/ CancelAfterPickup(b)
                     \/ \E sum \in Sum : PlaceOrder(b, sum)

PricingSpec == PricingInit /\ [][PricingNext]_pricingVars

-----------------------------------------------------------------------------
(* What the customer, the driver and the platform may rely on *)

\* What the customer was charged for a delivered order is what its items cost,
\* what the driver earned and what the platform keeps, to the piaster; and that
\* was settled at checkout, whatever the configuration says when the order is
\* paid and when it is delivered or cancelled (priceOrder, getFeeSplit).
MoneyAddsUp ==
  \A b \in Bill : snapshot[b] # NoAmount =>
    LET split == snapshot[b]
        then == atPlacing[b]
    IN
    /\ valueOf(split.subtotal) = then.sum
    /\ valueOf(split.driver) + valueOf(split.platform) = then.policy.fee
    /\ charged[b] # NoAmount => valueOf(charged[b]) = then.sum + then.policy.fee
    /\ earned[b] # NoAmount =>
         /\ valueOf(earned[b].amount) <= then.policy.fee
         /\ earned[b].type = "DELIVERY_EARNING" =>
              valueOf(earned[b].amount) + valueOf(split.platform) = then.policy.fee

\* That, and every amount a decimal of two places, in each service's column
\* (orders, payments, driver_ledger_entries).
PricesKept == PricingTypeOK /\ MoneyAddsUp
=============================================================================
