------------------------------ MODULE Payments ------------------------------
(***************************************************************************)
(* Paying for one order: payment-service's rows and requests, the order    *)
(* they move over HTTP, and order-service's consumer of their events.      *)
(*                                                                         *)
(* A payment's status changes by compare-and-set.  Each status then owes   *)
(* an event and an order update, which a request performs under a lease:   *)
(* publish, mark published, PATCH the order, mark synced, release, one     *)
(* action per call.  Requests retry, race and die anywhere in between.     *)
(*                                                                         *)
(* A PATCH of the order is one action although order-service reads the row *)
(* before its compare-and-set: each status asked for here has one          *)
(* predecessor, so an answer to a lost race is the answer to a later read. *)
(* Kafka is the set of events accepted; consumers drop a repeated one.     *)
(***************************************************************************)
EXTENDS OrderLife, Naturals, FiniteSets

CONSTANTS
  Payment,     \* bound: rows that may be inserted for the order
  Key, NoKey,  \* Idempotency-Keys of the customer; no header
  Request,     \* request slots: at most this many in flight
  Nobody,      \* no holder, no payment
  Orphan,      \* the holder of a lease whose request died
  Environment  \* which of the behaviours below may happen

(***************************************************************************)
(*   "fault"   a request or the consumer dies between two calls, a call    *)
(*             fails before or after it took effect                        *)
(*   "slow"    a request outlives its 30 s lease                           *)
(*   "refund"  support refunds a completed payment                         *)
(***************************************************************************)
Behaviours == {"fault", "slow", "refund"}

ASSUME PaymentsAssumption ==
  /\ NoKey \notin Key
  /\ {Nobody, Orphan} \cap (Request \cup Payment) = {} /\ Nobody # Orphan
  /\ Environment \subseteq Behaviours

VARIABLES
  status,     \* payments.status, "NONE" before the insert
  keyOf,      \* payments.idempotencyKey
  published,  \* payments.publishedEventStatus
  synced,     \* payments.orderSyncedStatus
  lease,      \* payments.sideEffectsLeaseUntil: who took it, if it is in the future
  topic,      \* payment.events: <<payment, status>> of each accepted event
  orderPaid,  \* orders.paymentStatus
  inHand,     \* the event the consumer is handling
  handled,    \* events it has handled
  req         \* the requests in flight

rowVars      == <<status, keyOf, published, synced, lease>>
consumerVars == <<orderPaid, inHand, handled>>
vars == <<orderVars, rowVars, topic, consumerVars, req>>

-----------------------------------------------------------------------------
Settled == {"COMPLETED", "FAILED"}
ACTIVE_PAYMENT_STATUSES == {"PENDING", "PROCESSING", "COMPLETED"}

\* The order status owed for each payment status; an event is owed as well.
SIDE_EFFECTS == [PENDING |-> "PAYMENT_PENDING", COMPLETED |-> "CONFIRMED", FAILED |-> "FAILED"]
HasEffects == DOMAIN SIDE_EFFECTS

owedOf(p) ==
  {e \in {"event", "order"} : /\ status[p] \in HasEffects
                              /\ e = "event" => published[p] # status[p]
                              /\ e = "order" => synced[p] # status[p]}

hasOwedSideEffects(p) == owedOf(p) # {}

Active == {p \in Payment : status[p] \in ACTIVE_PAYMENT_STATUSES}
taken(k) == k # NoKey /\ \E p \in Payment : keyOf[p] = k

Idle == [op |-> "none", pc |-> "idle", pay |-> Nobody, key |-> NoKey,
         cur |-> "NONE", owes |-> {}, after |-> "return"]

Answers == {"ok", "refused", "error"}
UnderLease == {"read", "publish", "markPublished", "sync", "look", "markSynced", "release"}
Working == {"lease", "reread", "claim", "settle"} \cup UnderLease
Steps == {"idle", "order", "latest", "insert"} \cup Working \cup Answers
RequestState ==
  [op : {"none", "create", "prepare", "finish"},  \* process: before and after the claim
   pc : Steps,
   pay : Payment \cup {Nobody},
   key : Key \cup {NoKey},
   cur : PaymentStatus \cup {"NONE"},    \* status read under the lease
   owes : SUBSET {"event", "order"},     \* what it read as owed
   after : {"return", "throw"}]           \* how it ends after the release

Event == Payment \X HasEffects
Marks == HasEffects \cup {"NONE"}

TypeOK ==
  /\ orderStatus \in OrderStatus /\ orderEvents \subseteq OrderStatus
  /\ status \in [Payment -> PaymentStatus \cup {"NONE"}]
  /\ keyOf \in [Payment -> Key \cup {NoKey}]
  /\ published \in [Payment -> Marks]
  /\ synced \in [Payment -> Marks]
  /\ lease \in [Payment -> Request \cup {Nobody, Orphan}]
  /\ topic \subseteq Event
  /\ orderPaid \in {"UNKNOWN", "PENDING", "COMPLETED", "FAILED"}
  /\ inHand \subseteq Event /\ handled \subseteq Event
  /\ req \in [Request -> RequestState]

Init ==
  /\ OrderInit
  /\ status = [p \in Payment |-> "NONE"]
  /\ keyOf = [p \in Payment |-> NoKey]
  /\ published = [p \in Payment |-> "NONE"]
  /\ synced = [p \in Payment |-> "NONE"]
  /\ lease = [p \in Payment |-> Nobody]
  /\ topic = {} /\ orderPaid = "UNKNOWN" /\ inHand = {} /\ handled = {}
  /\ req = [r \in Request |-> Idle]

-----------------------------------------------------------------------------
(* Requests *)
goto(r, pc) == req' = [req EXCEPT ![r].pc = pc]
fail(r) == req' = [req EXCEPT ![r] = [@ EXCEPT !.pc = "release", !.after = "throw"]]

\* The call was made; its answer comes back, or is lost.
answered(r, pc) == goto(r, pc) \/ ("fault" \in Environment /\ fail(r))

\* completeSideEffects of payment p as it is now, on behalf of op.
enterEffects(r, op, p) ==
  req' = [req EXCEPT ![r] = [Idle EXCEPT
            !.op = op, !.pay = p,
            !.pc = IF hasOwedSideEffects(p) THEN "lease" ELSE IF op = "prepare" THEN "claim" ELSE "ok"]]

\* replayCreate: the payment this key already made.
replay(r, k) == k # NoKey /\ \E p \in Payment : keyOf[p] = k /\ enterEffects(r, "create", p)

\* Bound: one row is left for every create under way.
RowsLeft ==
  Cardinality({p \in Payment : status[p] = "NONE"})
    > Cardinality({r \in Request : req[r].pc \in {"order", "latest", "insert"}})

CreateBegin(r, k) ==
  /\ req[r] = Idle
  /\ \/ replay(r, k)
     \/ /\ ~taken(k) /\ RowsLeft
        /\ req' = [req EXCEPT ![r] = [Idle EXCEPT !.op = "create", !.pc = "order", !.key = k]]
  /\ UNCHANGED <<orderVars, rowVars, topic, consumerVars>>

GetOrder(r) ==
  /\ req[r].pc = "order"
  /\ goto(r, IF orderStatus = "CREATED" THEN "latest" ELSE "refused")
  /\ UNCHANGED <<orderVars, rowVars, topic, consumerVars>>

\* At most one payment of the order is active, and none is newer.
FindLatest(r) ==
  /\ req[r].pc = "latest"
  /\ goto(r, IF Active = {} THEN "insert" ELSE "refused")
  /\ UNCHANGED <<orderVars, rowVars, topic, consumerVars>>

insertable_NoActiveIndex(k) == ~taken(k)

\* The two unique indexes.
insertable(k) == Active = {} /\ ~taken(k)

Insert(r, p) ==
  /\ req[r].pc = "insert" /\ insertable(req[r].key)
  /\ status[p] = "NONE"
  /\ status' = [status EXCEPT ![p] = "PENDING"]
  /\ keyOf' = [keyOf EXCEPT ![p] = req[r].key]
  /\ req' = [req EXCEPT ![r] = [@ EXCEPT !.pc = "lease", !.pay = p, !.key = NoKey]]
  /\ UNCHANGED <<orderVars, published, synced, lease, topic, consumerVars>>

InsertConflict(r) ==
  /\ req[r].pc = "insert" /\ ~insertable(req[r].key)
  /\ \/ replay(r, req[r].key)
     \/ ~taken(req[r].key) /\ goto(r, "refused")
  /\ UNCHANGED <<orderVars, rowVars, topic, consumerVars>>

\* What a process request does on reading p: finish, refuse, or prepare the claim.
resume(r, p) ==
  \/ status[p] \in Settled /\ enterEffects(r, "finish", p)
  \/ status[p] \in {"PROCESSING", "REFUNDED"} /\ goto(r, "refused")

ProcessBegin(r, p) ==
  /\ req[r] = Idle /\ status[p] # "NONE"
  /\ resume(r, p) \/ (status[p] = "PENDING" /\ enterEffects(r, "prepare", p))
  /\ UNCHANGED <<orderVars, rowVars, topic, consumerVars>>

Claim_AnyStatus(r) ==
  LET p == req[r].pay IN
  /\ req[r].pc = "claim"
  /\ status' = [status EXCEPT ![p] = "PROCESSING"]
  /\ goto(r, "settle")
  /\ UNCHANGED <<orderVars, keyOf, published, synced, lease, topic, consumerVars>>

Claim(r) ==
  LET p == req[r].pay IN
  /\ req[r].pc = "claim" /\ status[p] = "PENDING"
  /\ status' = [status EXCEPT ![p] = "PROCESSING"]
  /\ goto(r, "settle")
  /\ UNCHANGED <<orderVars, keyOf, published, synced, lease, topic, consumerVars>>

ClaimLost(r) ==
  /\ req[r].pc = "claim" /\ status[req[r].pay] # "PENDING"
  /\ resume(r, req[r].pay)
  /\ UNCHANGED <<orderVars, rowVars, topic, consumerVars>>

\* Its other branch, the payment no longer PROCESSING, is what ClaimerSettles excludes.
Settle(r, outcome) ==
  LET p == req[r].pay IN
  /\ req[r].pc = "settle" /\ status[p] = "PROCESSING"
  /\ status' = [status EXCEPT ![p] = outcome]
  /\ req' = [req EXCEPT ![r] = [@ EXCEPT !.op = "finish", !.pc = "reread"]]
  /\ UNCHANGED <<orderVars, keyOf, published, synced, lease, topic, consumerVars>>

\* findOrThrow after the effects of a prepare, and after a settlement.
Reread(r) ==
  /\ req[r].pc = "reread"
  /\ IF hasOwedSideEffects(req[r].pay)
       THEN goto(r, IF req[r].op = "prepare" THEN "refused" ELSE "lease")
       ELSE goto(r, IF req[r].op = "prepare" THEN "claim" ELSE "ok")
  /\ UNCHANGED <<orderVars, rowVars, topic, consumerVars>>

Refund(p) ==
  /\ "refund" \in Environment
  /\ isTransitionAllowed(PAYMENT_TRANSITIONS, status[p], "REFUNDED")
  /\ status' = [status EXCEPT ![p] = "REFUNDED"]
  /\ UNCHANGED <<orderVars, keyOf, published, synced, lease, topic, consumerVars, req>>

-----------------------------------------------------------------------------
(* Side effects under the lease *)

AcquireLease(r) ==
  LET p == req[r].pay IN
  /\ req[r].pc = "lease" /\ lease[p] = Nobody
  /\ lease' = [lease EXCEPT ![p] = r]
  /\ goto(r, "read")
  /\ UNCHANGED <<orderVars, status, keyOf, published, synced, topic, consumerVars>>

LeaseBusy(r) ==
  /\ req[r].pc = "lease" /\ lease[req[r].pay] # Nobody
  /\ goto(r, IF req[r].op = "prepare" THEN "refused" ELSE "ok")
  /\ UNCHANGED <<orderVars, rowVars, topic, consumerVars>>

firstOf(owes) ==
  IF "event" \in owes THEN "publish" ELSE IF "order" \in owes THEN "sync" ELSE "release"

ReadUnderLease_AllOwed(r) ==
  LET p == req[r].pay IN
  /\ req[r].pc = "read"
  /\ req' = [req EXCEPT ![r] = [@ EXCEPT !.cur = status[p], !.owes = {"event", "order"},
               !.pc = IF status[p] \in HasEffects THEN "publish" ELSE "release"]]
  /\ UNCHANGED <<orderVars, rowVars, topic, consumerVars>>

ReadUnderLease(r) ==
  LET p == req[r].pay IN
  /\ req[r].pc = "read"
  /\ req' = [req EXCEPT ![r] = [@ EXCEPT !.cur = status[p], !.owes = owedOf(p), !.pc = firstOf(owedOf(p))]]
  /\ UNCHANGED <<orderVars, rowVars, topic, consumerVars>>

Publish(r) ==
  /\ req[r].pc = "publish"
  /\ topic' = topic \cup {<<req[r].pay, req[r].cur>>}
  /\ answered(r, "markPublished")
  /\ UNCHANGED <<orderVars, rowVars, consumerVars>>

MarkPublished_StatusNow(r) ==
  /\ req[r].pc = "markPublished"
  /\ published' = [published EXCEPT ![req[r].pay] = status[req[r].pay]]
  /\ answered(r, firstOf(req[r].owes \ {"event"}))
  /\ UNCHANGED <<orderVars, status, keyOf, synced, lease, topic, consumerVars>>

MarkPublished(r) ==
  /\ req[r].pc = "markPublished"
  /\ published' = [published EXCEPT ![req[r].pay] = req[r].cur]
  /\ answered(r, firstOf(req[r].owes \ {"event"}))
  /\ UNCHANGED <<orderVars, status, keyOf, synced, lease, topic, consumerVars>>

SyncOrder(r) ==
  /\ req[r].pc = "sync"
  /\ SetStatus(SIDE_EFFECTS[req[r].cur])
  /\ answered(r, "markSynced")
  /\ UNCHANGED <<rowVars, topic, consumerVars>>

\* 409: a declined payment may have found the order closed.
SyncRefused(r) ==
  /\ req[r].pc = "sync" /\ ~accepts(SIDE_EFFECTS[req[r].cur])
  /\ IF req[r].cur = "FAILED" THEN goto(r, "look") ELSE fail(r)
  /\ UNCHANGED <<orderVars, rowVars, topic, consumerVars>>

LookAtOrder(r) ==
  /\ req[r].pc = "look"
  /\ IF orderStatus \in Closed THEN goto(r, "markSynced") ELSE fail(r)
  /\ UNCHANGED <<orderVars, rowVars, topic, consumerVars>>

MarkSynced(r) ==
  /\ req[r].pc = "markSynced"
  /\ synced' = [synced EXCEPT ![req[r].pay] = req[r].cur]
  /\ answered(r, "release")
  /\ UNCHANGED <<orderVars, status, keyOf, published, lease, topic, consumerVars>>

CallFails_Swallowed(r) ==
  /\ "fault" \in Environment
  /\ \/ req[r].pc = "publish" /\ goto(r, "markPublished")
     \/ req[r].pc = "sync" /\ goto(r, "markSynced")
  /\ UNCHANGED <<orderVars, rowVars, topic, consumerVars>>

\* A call made under the lease fails without effect.
CallFails(r) ==
  /\ "fault" \in Environment
  /\ req[r].pc \in UnderLease \ {"release"}
  /\ fail(r)
  /\ UNCHANGED <<orderVars, rowVars, topic, consumerVars>>

\* The lease column is cleared whoever set it.
Release(r) ==
  /\ req[r].pc = "release"
  /\ lease' = [lease EXCEPT ![req[r].pay] = Nobody]
  /\ req' = [req EXCEPT ![r] = [@ EXCEPT !.cur = "NONE", !.owes = {}, !.after = "return",
               !.pc = IF req[r].after = "throw" THEN "error"
                         ELSE IF req[r].op # "prepare" THEN "ok"
                         ELSE IF req[r].cur \in HasEffects THEN "reread" ELSE "claim"]]
  /\ UNCHANGED <<orderVars, status, keyOf, published, synced, topic, consumerVars>>

LeaseExpires(p) ==
  /\ lease[p] = Orphan \/ ("slow" \in Environment /\ lease[p] # Nobody)
  /\ lease' = [lease EXCEPT ![p] = Nobody]
  /\ UNCHANGED <<orderVars, status, keyOf, published, synced, topic, consumerVars, req>>

Finish(r) ==
  /\ req[r].pc \in Answers
  /\ req' = [req EXCEPT ![r] = Idle]
  /\ UNCHANGED <<orderVars, rowVars, topic, consumerVars>>

Die(r) ==
  /\ "fault" \in Environment
  /\ req[r].pc \notin {"idle"} \cup Answers
  /\ lease' = [p \in Payment |-> IF lease[p] = r THEN Orphan ELSE lease[p]]
  /\ req' = [req EXCEPT ![r] = Idle]
  /\ UNCHANGED <<orderVars, status, keyOf, published, synced, topic, consumerVars>>

-----------------------------------------------------------------------------
(* The order: other requests, and order-service's consumer of payment.events *)
othersMove == {"CANCELLED"} \cup (Placed \ {"CONFIRMED"})

\* The customer cancels, the restaurant and the driver go on.
OthersMove(target) ==
  /\ target \in othersMove /\ target # orderStatus
  /\ SetStatus(target)
  /\ UNCHANGED <<rowVars, topic, consumerVars, req>>

\* recordPaymentStatus: never backwards.
learnt(s) ==
  IF orderPaid = "UNKNOWN" \/ (orderPaid = "PENDING" /\ s # "PENDING") THEN s ELSE orderPaid

\* An event handled before comes again after a crash, or from the dead letters.
RecordPaymentStatus(e) ==
  /\ inHand = {} /\ e \in topic
  /\ e \notin handled \/ "fault" \in Environment
  /\ inHand' = {e}
  /\ orderPaid' = learnt(e[2])
  /\ UNCHANGED <<orderVars, rowVars, topic, handled, req>>

\* syncStatusFromEvent ignores an order that has moved on.
SyncFromEvent(e) ==
  /\ e \in inHand
  /\ IF accepts(SIDE_EFFECTS[e[2]]) THEN SetStatus(SIDE_EFFECTS[e[2]]) ELSE UNCHANGED orderVars
  /\ inHand' = {} /\ handled' = handled \cup {e}
  /\ UNCHANGED <<rowVars, topic, orderPaid, req>>

ConsumerDies ==
  /\ "fault" \in Environment
  /\ inHand # {} /\ inHand' = {}
  /\ UNCHANGED <<orderVars, rowVars, topic, orderPaid, handled, req>>

-----------------------------------------------------------------------------
CreateStep(r) ==
  \/ \E k \in Key \cup {NoKey} : CreateBegin(r, k)
  \/ GetOrder(r) \/ FindLatest(r)
  \/ \E p \in Payment : Insert(r, p)
  \/ InsertConflict(r)

ProcessStep(r) ==
  \/ \E p \in Payment : ProcessBegin(r, p)
  \/ Claim(r) \/ ClaimLost(r)
  \/ \E outcome \in Settled : Settle(r, outcome)
  \/ Reread(r)

EffectStep(r) ==
  \/ AcquireLease(r) \/ LeaseBusy(r) \/ ReadUnderLease(r)
  \/ Publish(r) \/ MarkPublished(r)
  \/ SyncOrder(r) \/ SyncRefused(r) \/ LookAtOrder(r) \/ MarkSynced(r)
  \/ CallFails(r) \/ Release(r)

RequestStep(r) == CreateStep(r) \/ ProcessStep(r) \/ EffectStep(r) \/ Finish(r) \/ Die(r)

ConsumerStep == (\E e \in topic : RecordPaymentStatus(e) \/ SyncFromEvent(e)) \/ ConsumerDies

Next ==
  \/ \E r \in Request : RequestStep(r)
  \/ \E p \in Payment : Refund(p) \/ LeaseExpires(p)
  \/ \E target \in OrderStatus : OthersMove(target)
  \/ ConsumerStep

(***************************************************************************)
(* A request's code goes on, the consumer is handed what is on the topic   *)
(* until it has handled it, a dead holder's lease expires, and a customer  *)
(* whose settled payment still owes something asks again, as the retry     *)
(* contract of the API expects.  Calls that fail do not fail for ever: of  *)
(* the steps that talk to another service, the answered one is fair.       *)
(***************************************************************************)
wellAnswered(r) == req'[r].after # "throw"

Fairness ==
  /\ \A r \in Request :
       /\ SF_vars(\E p \in Payment : status[p] \in Settled /\ hasOwedSideEffects(p) /\ ProcessBegin(r, p))
       /\ SF_vars(AcquireLease(r)) /\ SF_vars(ReadUnderLease(r))
       /\ SF_vars(Publish(r) /\ wellAnswered(r))
       /\ SF_vars(MarkPublished(r) /\ wellAnswered(r))
       /\ SF_vars(SyncOrder(r))
       /\ WF_vars(RequestStep(r) /\ req[r] # Idle)
  /\ \A p \in Payment :
       /\ WF_vars(lease[p] = Orphan /\ LeaseExpires(p))
       /\ SF_vars(\E s \in Settled : <<p, s>> \notin handled /\ RecordPaymentStatus(<<p, s>>))
       /\ SF_vars(\E s \in Settled : SyncFromEvent(<<p, s>>))
  /\ WF_vars(\E e \in topic : SyncFromEvent(e))

Spec == Init /\ [][Next]_vars
FairSpec == Spec /\ Fairness
=============================================================================
