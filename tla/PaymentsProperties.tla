------------------------- MODULE PaymentsProperties -------------------------
(* What paying for an order promises, and what its documents say it does. *)
EXTENDS Payments

Ever(target) == target \in orderEvents
paid(p) == status[p] \in {"COMPLETED", "REFUNDED"}

-----------------------------------------------------------------------------
(* Safety *)

\* No order has two payments in force, however many creates and process calls
\* race: the customer is never charged twice (createPayment, the unique index).
NeverChargedTwice == \A p, q \in Active : p = q

\* An order always passes PAYMENT_PENDING before its payment is claimed, so the
\* outcome can be applied to it (processPayment: creation's effects come first).
SettledOrderWasPending ==
  \A p \in Payment : status[p] \in {"PROCESSING"} \cup Settled => Ever("PAYMENT_PENDING")

\* A request that claimed a payment finds it still PROCESSING when it settles it
\* ("anything else is a bug", processPayment).
ClaimerSettles ==
  \A r \in Request : req[r].pc = "settle" => status[req[r].pay] = "PROCESSING"

\* Order-service is told nothing untrue: a confirmed or paid order has a payment
\* that completed, a failed or declined one a payment that failed, by whichever
\* of the two paths it heard.
OrderKnowsTruth ==
  /\ Ever("CONFIRMED") \/ orderPaid = "COMPLETED" => \E p \in Payment : paid(p)
  /\ Ever("FAILED") \/ orderPaid = "FAILED" => \E p \in Payment : status[p] = "FAILED"

\* The marker of a sync is never ahead of the order: a payment marked synced
\* moved its order, and only a decline may have found it closed, so money taken
\* for a closed order stays visible as owed (syncOrder).
SyncApplied(s) ==
  /\ s = "PENDING" => Ever("PAYMENT_PENDING")
  /\ s = "COMPLETED" => Ever("CONFIRMED")
  /\ s = "FAILED" => orderStatus \in Closed

SyncedTellsTruth == \A p \in Payment : SyncApplied(synced[p])

\* The marker of an event is never ahead of Kafka, and Kafka never ahead of the
\* payment: no retry skips an event that was not accepted, none announces an
\* outcome that was not reached.
reached(p, s) ==
  /\ s = "COMPLETED" => paid(p)
  /\ s = "FAILED" => status[p] = "FAILED"

PublishedTellsTruth ==
  \A p \in Payment :
    /\ published[p] # "NONE" => <<p, published[p]>> \in topic
    /\ \A s \in HasEffects : <<p, s>> \in topic => reached(p, s)

\* Once reached, an outcome changes only by a refund, whatever is retried.
OutcomeFinal ==
  [][\A p \in Payment : status[p] \in Settled \cup {"REFUNDED"} =>
       status'[p] = status[p] \/ (status[p] = "COMPLETED" /\ status'[p] = "REFUNDED")]_vars

\* One request at a time performs the side effects of a payment, as long as
\* none outlives its lease (completeSideEffects, acquireSideEffectsLease).
EffectsExclusive ==
  \A r, s \in Request : req[r].pc \in UnderLease /\ req[s].pc \in UnderLease /\ req[r].pay = req[s].pay
    => r = s

\* Without failures each event is published once, however many requests are
\* owed it: each reads what is left under the lease.
PublishedOnce ==
  \A r \in Request : req[r].pc = "publish" => <<req[r].pay, req[r].cur>> \notin topic

-----------------------------------------------------------------------------
(* The inductive invariant *)

\* What a request relies on at the point it has come to: the row it works on
\* exists, the claim it holds or asks for is still good, and what it read under
\* the lease has since been overtaken only by a refund or, from PENDING, by an
\* outcome; a mark it is about to make is already true.
RequestInv(r) ==
  LET p == req[r].pay
      s == req[r].cur
      at(pcs) == req[r].pc \in pcs
  IN
  /\ at(Working) => p \in Payment /\ status[p] # "NONE"
  /\ at({"settle"}) => status[p] = "PROCESSING"
  /\ at({"claim"}) /\ status[p] = "PENDING" => Ever("PAYMENT_PENDING")
  /\ at(UnderLease \ {"read"}) /\ status[p] = "PENDING" => s = "PENDING" \/ req[r].after = "throw"
  /\ at(UnderLease \ {"read", "release"}) => s \in HasEffects /\ reached(p, s)
  /\ at({"markPublished"}) => <<p, s>> \in topic
  /\ at({"look"}) => s = "FAILED"
  /\ at({"markSynced"}) => SyncApplied(s)

\* No two requests hold the claim of one payment.
SingleClaimer ==
  \A r, s \in Request : req[r].pc = "settle" /\ req[s].pc = "settle" /\ req[r].pay = req[s].pay => r = s

\* Only a row that was inserted has a key.
KeyOfRow == \A p \in Payment : keyOf[p] # NoKey => status[p] # "NONE"

\* The consumer only knows what is on the topic.
ConsumerInv == inHand \subseteq topic

\* Holds in every state, and from one state to the next: the fields are well
\* typed and each request's local view agrees with the rows, the order and the
\* topic (PaymentsService throughout).
PaymentsInv ==
  /\ TypeOK
  /\ NeverChargedTwice /\ SettledOrderWasPending /\ OrderKnowsTruth
  /\ SyncedTellsTruth /\ PublishedTellsTruth
  /\ \A r \in Request : RequestInv(r)
  /\ SingleClaimer /\ KeyOfRow /\ ConsumerInv

\* Unless it is slow, a request under the lease is the one that holds it.
LeaseHeld == \A r \in Request : req[r].pc \in UnderLease => lease[req[r].pay] = r

-----------------------------------------------------------------------------
(* Liveness *)

\* A settled payment's event is handled and its order leaves the unpaid states,
\* unless the money was given back first: calls fail, requests and the consumer
\* die at any point, and the retries make up for it.
OutcomeSpreads ==
  \A p \in Payment : \A s \in Settled :
    status[p] = s ~>
      \/ status[p] = "REFUNDED"
      \/ <<p, s>> \in handled /\ orderStatus \notin {"CREATED", "PAYMENT_PENDING"}
=============================================================================
