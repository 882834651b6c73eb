--------------------------- MODULE PaymentsProofs ---------------------------
(***************************************************************************)
(* PaymentsInv is inductive for any number of payments, keys and requests, *)
(* whatever fails, dies, outlives its lease or is refunded.                *)
(*                                                                         *)
(* Most steps only move one request: LocalStep says what such a step still *)
(* has to show.  The others change one row, the order, the topic or the    *)
(* consumer; OthersKeep says why the requests they do not serve still rely *)
(* on something true.                                                      *)
(***************************************************************************)
EXTENDS PaymentsProperties, TLAPS

sharedVars == <<orderVars, status, keyOf, published, synced, topic, consumerVars>>

others(r) == \A s \in Request \ {r} : req'[s] = req[s]

\* One request moves: its record stays well formed.
LEMMA GoTo ==
  ASSUME TypeOK, NEW r \in Request, NEW pc \in Steps, goto(r, pc)
  PROVE  /\ req' \in [Request -> RequestState] /\ others(r)
         /\ req'[r].pc = pc /\ req'[r].pay = req[r].pay /\ req'[r].cur = req[r].cur
         /\ req'[r].after = req[r].after
BY DEF TypeOK, goto, others, RequestState

LEMMA Fail ==
  ASSUME TypeOK, NEW r \in Request, fail(r)
  PROVE  /\ req' \in [Request -> RequestState] /\ others(r)
         /\ req'[r].pc = "release" /\ req'[r].pay = req[r].pay /\ req'[r].cur = req[r].cur
         /\ req'[r].after = "throw"
<1> DEFINE x == [req[r] EXCEPT !.pc = "release", !.after = "throw"]
<1>1. req[r] \in RequestState
  BY DEF TypeOK
<1>2. "release" \in Steps
  BY DEF Steps, Working, UnderLease
<1>3. /\ x \in RequestState /\ x.pc = "release" /\ x.after = "throw"
      /\ x.pay = req[r].pay /\ x.cur = req[r].cur
  BY <1>1, <1>2 DEF RequestState
<1>4. req' = [req EXCEPT ![r] = x]
  BY DEF fail
<1> HIDE DEF x
<1> QED
  BY <1>3, <1>4 DEF TypeOK, others

LEMMA Answered ==
  ASSUME TypeOK, NEW r \in Request, NEW pc \in Steps, answered(r, pc)
  PROVE  /\ req' \in [Request -> RequestState] /\ others(r)
         /\ req'[r].pc \in {pc, "release"} /\ req'[r].pay = req[r].pay /\ req'[r].cur = req[r].cur
         /\ req'[r].after \in {req[r].after, "throw"}
         /\ req'[r].pc # pc => req'[r].after = "throw"
BY GoTo, Fail DEF answered, TypeOK, RequestState

LEMMA EnterEffects ==
  ASSUME TypeOK, NEW r \in Request, NEW op \in {"create", "prepare", "finish"}, NEW p \in Payment,
         enterEffects(r, op, p)
  PROVE  /\ req' \in [Request -> RequestState] /\ others(r)
         /\ req'[r].pc \in {"lease", "claim", "ok"} /\ req'[r].pay = p
         /\ req'[r].pc = "claim" => ~hasOwedSideEffects(p)
BY DEF TypeOK, enterEffects, others, RequestState, Idle, Steps, Working, UnderLease, Answers

\* A payment that owes nothing and is still PENDING has moved its order.
LEMMA NothingOwed ==
  ASSUME PaymentsInv, NEW p \in Payment, ~hasOwedSideEffects(p), status[p] = "PENDING"
  PROVE  Ever("PAYMENT_PENDING")
<1>1. status[p] \in HasEffects
  BY DEF HasEffects, SIDE_EFFECTS
<1>2. "order" \notin owedOf(p)
  BY DEF hasOwedSideEffects
<1>3. synced[p] = "PENDING"
  BY <1>1, <1>2 DEF owedOf
<1> QED
  BY <1>3 DEF PaymentsInv, SyncedTellsTruth, SyncApplied

\* What a step that only moves request r, and not to the settlement, must show.
LEMMA LocalStep ==
  ASSUME PaymentsInv, NEW r \in Request, UNCHANGED sharedVars, TypeOK', others(r),
         RequestInv(r)', req'[r].pc # "settle"
  PROVE  PaymentsInv'
<1> USE DEF PaymentsInv, sharedVars, orderVars, consumerVars
<1>1. NeverChargedTwice' /\ SettledOrderWasPending' /\ OrderKnowsTruth' /\ SyncedTellsTruth'
      /\ PublishedTellsTruth' /\ KeyOfRow' /\ ConsumerInv'
  BY DEF NeverChargedTwice, Active, SettledOrderWasPending, OrderKnowsTruth, SyncedTellsTruth, SyncApplied,
         PublishedTellsTruth, KeyOfRow, ConsumerInv, Ever, paid, reached
<1>2. ASSUME NEW s \in Request \ {r} PROVE RequestInv(s)'
  BY DEF others, RequestInv, Ever, reached, paid, SyncApplied
<1>3. SingleClaimer'
  BY DEF SingleClaimer, others
<1> QED
  BY <1>1, <1>2, <1>3

-----------------------------------------------------------------------------
(* Steps of one request that touch neither the rows nor the order *)

LEMMA RequestTypes ==
  ASSUME TypeOK, UNCHANGED <<orderVars, rowVars, topic, consumerVars>>, req' \in [Request -> RequestState]
  PROVE  TypeOK' /\ UNCHANGED sharedVars
BY DEF TypeOK, orderVars, rowVars, consumerVars, sharedVars, Marks, Event

\* A request that answers, or has not yet taken up a payment, relies on nothing.
LEMMA Elsewhere ==
  ASSUME NEW r \in Request, req'[r].pc \in {"idle", "order", "latest", "insert"} \cup Answers
  PROVE  RequestInv(r)' /\ req'[r].pc # "settle"
BY DEF RequestInv, Working, UnderLease, Answers

\* Entering the effects of a payment that exists.
LEMMA EffectsEntered ==
  ASSUME PaymentsInv, NEW r \in Request, NEW op \in {"create", "prepare", "finish"}, NEW p \in Payment,
         status[p] # "NONE", enterEffects(r, op, p), UNCHANGED <<orderVars, rowVars, topic, consumerVars>>
  PROVE  PaymentsInv'
<1>1. TypeOK
  BY DEF PaymentsInv
<1>2. /\ req' \in [Request -> RequestState] /\ others(r)
      /\ req'[r].pc \in {"lease", "claim", "ok"} /\ req'[r].pay = p
      /\ req'[r].pc = "claim" => ~hasOwedSideEffects(p)
  BY <1>1, EnterEffects
<1>3. TypeOK' /\ UNCHANGED sharedVars
  BY <1>1, <1>2, RequestTypes
<1>4. req'[r].pc = "claim" /\ status[p] = "PENDING" => Ever("PAYMENT_PENDING")
  BY <1>2, NothingOwed
<1>5. RequestInv(r)'
  BY <1>2, <1>3, <1>4 DEF RequestInv, Working, UnderLease, sharedVars, orderVars, Ever
<1> QED
  BY <1>2, <1>3, <1>5, LocalStep

\* A request that moves on by goto, and can rely on what its next step needs.
LEMMA GoneTo ==
  ASSUME PaymentsInv, NEW r \in Request, NEW pc \in Steps \ {"settle"}, goto(r, pc),
         UNCHANGED <<orderVars, rowVars, topic, consumerVars>>, RequestInv(r)'
  PROVE  PaymentsInv'
<1>1. TypeOK
  BY DEF PaymentsInv
<1>2. req' \in [Request -> RequestState] /\ others(r) /\ req'[r].pc = pc
  BY <1>1, GoTo
<1>3. TypeOK' /\ UNCHANGED sharedVars
  BY <1>1, <1>2, RequestTypes
<1> QED
  BY <1>2, <1>3, LocalStep

LEMMA Refused ==
  ASSUME PaymentsInv, NEW r \in Request, NEW pc \in {"order", "latest", "insert"} \cup Answers, goto(r, pc),
         UNCHANGED <<orderVars, rowVars, topic, consumerVars>>
  PROVE  PaymentsInv'
<1>1. pc \in Steps \ {"settle"}
  BY DEF Steps, Answers
<1>2. req'[r].pc = pc
  BY <1>1, GoTo DEF PaymentsInv
<1>3. RequestInv(r)'
  BY <1>2, Elsewhere
<1> QED
  BY <1>1, <1>3, GoneTo

\* A call under the lease fails: the lease is released and the error thrown.
LEMMA Failed ==
  ASSUME PaymentsInv, NEW r \in Request, req[r].pc \in UnderLease, fail(r),
         UNCHANGED <<orderVars, rowVars, topic, consumerVars>>
  PROVE  PaymentsInv'
<1>1. TypeOK
  BY DEF PaymentsInv
<1>2. /\ req' \in [Request -> RequestState] /\ others(r)
      /\ req'[r].pc = "release" /\ req'[r].pay = req[r].pay /\ req'[r].after = "throw"
  BY <1>1, Fail
<1>3. TypeOK' /\ UNCHANGED sharedVars
  BY <1>1, <1>2, RequestTypes
<1>4. RequestInv(r)'
  BY <1>2, <1>3 DEF PaymentsInv, RequestInv, Working, UnderLease, sharedVars
<1> QED
  BY <1>2, <1>3, <1>4, LocalStep

LEMMA Replayed ==
  ASSUME PaymentsInv, NEW r \in Request, NEW k \in Key \cup {NoKey}, replay(r, k),
         UNCHANGED <<orderVars, rowVars, topic, consumerVars>>
  PROVE  PaymentsInv'
<1>1. PICK p \in Payment : keyOf[p] = k /\ enterEffects(r, "create", p)
  BY DEF replay
<1>2. k # NoKey
  BY DEF replay
<1>3. status[p] # "NONE"
  BY <1>1, <1>2 DEF PaymentsInv, KeyOfRow
<1> QED
  BY <1>1, <1>3, EffectsEntered

LEMMA Resumed ==
  ASSUME PaymentsInv, NEW r \in Request, NEW p \in Payment, resume(r, p),
         UNCHANGED <<orderVars, rowVars, topic, consumerVars>>
  PROVE  PaymentsInv'
<1>1. CASE status[p] \in Settled /\ enterEffects(r, "finish", p)
  BY <1>1, EffectsEntered DEF Settled
<1>2. CASE goto(r, "refused")
  BY <1>2, Refused DEF Answers
<1> QED
  BY <1>1, <1>2 DEF resume

LEMMA CreateBeginStep ==
  ASSUME PaymentsInv, NEW r \in Request, NEW k \in Key \cup {NoKey}, CreateBegin(r, k)
  PROVE  PaymentsInv'
<1> USE DEF CreateBegin
<1>1. CASE replay(r, k)
  BY <1>1, Replayed
<1>2. CASE req' = [req EXCEPT ![r] = [Idle EXCEPT !.op = "create", !.pc = "order", !.key = k]]
  <2>1. TypeOK
    BY DEF PaymentsInv
  <2>2. req' \in [Request -> RequestState] /\ others(r) /\ req'[r].pc = "order"
    BY <1>2, <2>1 DEF TypeOK, RequestState, Idle, Steps, others
  <2> QED
    BY <2>1, <2>2, RequestTypes, Elsewhere, LocalStep
<1> QED
  BY <1>1, <1>2

LEMMA LookupSteps ==
  ASSUME PaymentsInv, NEW r \in Request, GetOrder(r) \/ FindLatest(r) \/ InsertConflict(r)
  PROVE  PaymentsInv'
<1>1. CASE GetOrder(r)
  BY <1>1, Refused DEF GetOrder, Answers
<1>2. CASE FindLatest(r)
  BY <1>2, Refused DEF FindLatest, Answers
<1>3. CASE InsertConflict(r)
  <2>1. req[r].key \in Key \cup {NoKey}
    BY DEF PaymentsInv, TypeOK, RequestState
  <2> QED
    BY <1>3, <2>1, Refused, Replayed DEF InsertConflict, Answers
<1> QED
  BY <1>1, <1>2, <1>3

LEMMA ProcessBeginStep ==
  ASSUME PaymentsInv, NEW r \in Request, NEW p \in Payment, ProcessBegin(r, p)
  PROVE  PaymentsInv'
BY Resumed, EffectsEntered DEF ProcessBegin

LEMMA WorkingPayment ==
  ASSUME PaymentsInv, NEW r \in Request, req[r].pc \in Working
  PROVE  req[r].pay \in Payment /\ status[req[r].pay] \in PaymentStatus
BY DEF PaymentsInv, RequestInv, TypeOK

LEMMA ClaimLostStep ==
  ASSUME PaymentsInv, NEW r \in Request, ClaimLost(r)
  PROVE  PaymentsInv'
BY WorkingPayment, Resumed DEF ClaimLost, Working

LEMMA RereadStep ==
  ASSUME PaymentsInv, NEW r \in Request, Reread(r)
  PROVE  PaymentsInv'
<1> DEFINE p == req[r].pay
<1>1. p \in Payment /\ status[p] # "NONE"
  BY WorkingPayment DEF Reread, Working, PaymentsInv, RequestInv
<1>2. TypeOK
  BY DEF PaymentsInv
<1>3. CASE hasOwedSideEffects(p)
  <2>1. CASE goto(r, "refused")
    BY <2>1, Refused DEF Reread, Answers
  <2>2. CASE goto(r, "lease")
    <3>1. "lease" \in Steps \ {"settle"}
      BY DEF Steps, Working
    <3>2. req'[r].pc = "lease" /\ req'[r].pay = p
      BY <1>2, <2>2, <3>1, GoTo
    <3>3. RequestInv(r)'
      BY <1>1, <3>2 DEF RequestInv, Working, UnderLease, Reread, rowVars
    <3> QED
      BY <2>2, <3>1, <3>3, GoneTo DEF Reread
  <2> QED
    BY <1>3, <2>1, <2>2 DEF Reread
<1>4. CASE ~hasOwedSideEffects(p)
  <2>1. CASE goto(r, "ok")
    BY <2>1, Refused DEF Reread, Answers
  <2>2. CASE goto(r, "claim")
    <3>1. "claim" \in Steps \ {"settle"}
      BY DEF Steps, Working
    <3>2. req'[r].pc = "claim" /\ req'[r].pay = p
      BY <1>2, <2>2, <3>1, GoTo
    <3>3. status[p] = "PENDING" => Ever("PAYMENT_PENDING")
      BY <1>1, <1>4, NothingOwed
    <3>4. RequestInv(r)'
      BY <1>1, <3>2, <3>3 DEF RequestInv, Working, UnderLease, Reread, rowVars, orderVars, Ever
    <3> QED
      BY <2>2, <3>1, <3>4, GoneTo DEF Reread
  <2> QED
    BY <1>4, <2>1, <2>2 DEF Reread
<1> QED
  BY <1>3, <1>4

-----------------------------------------------------------------------------
(* The lease, and reading under it *)

LEMMA LeaseTypes ==
  ASSUME TypeOK, UNCHANGED sharedVars, req' \in [Request -> RequestState],
         lease' \in [Payment -> Request \cup {Nobody, Orphan}]
  PROVE  TypeOK'
BY DEF TypeOK, orderVars, consumerVars, sharedVars, Marks, Event

LEMMA AcquireLeaseStep ==
  ASSUME PaymentsInv, NEW r \in Request, AcquireLease(r)
  PROVE  PaymentsInv'
<1> USE DEF AcquireLease
<1>1. TypeOK /\ req[r].pay \in Payment /\ status[req[r].pay] # "NONE"
  BY DEF PaymentsInv, RequestInv, Working
<1>2. "read" \in Steps
  BY DEF Steps, Working, UnderLease
<1>3. /\ req' \in [Request -> RequestState] /\ others(r)
      /\ req'[r].pc = "read" /\ req'[r].pay = req[r].pay
  BY <1>1, <1>2, GoTo
<1>4. UNCHANGED sharedVars
  BY DEF sharedVars
<1>5. TypeOK'
  BY <1>1, <1>3, <1>4, LeaseTypes DEF TypeOK
<1>6. RequestInv(r)'
  BY <1>1, <1>3 DEF RequestInv, Working, UnderLease
<1> QED
  BY <1>3, <1>4, <1>5, <1>6, LocalStep

LEMMA LeaseBusyStep ==
  ASSUME PaymentsInv, NEW r \in Request, LeaseBusy(r)
  PROVE  PaymentsInv'
BY Refused DEF LeaseBusy, Answers

LEMMA OwedEffects ==
  ASSUME TypeOK, NEW p \in Payment
  PROVE  /\ owedOf(p) \subseteq {"event", "order"}
         /\ firstOf(owedOf(p)) \in {"publish", "sync", "release"}
         /\ firstOf(owedOf(p)) # "release" => status[p] \in HasEffects
BY DEF owedOf, firstOf

LEMMA ReadUnderLeaseStep ==
  ASSUME PaymentsInv, NEW r \in Request, ReadUnderLease(r)
  PROVE  PaymentsInv'
<1> DEFINE p == req[r].pay
           x == [req[r] EXCEPT !.cur = status[p], !.owes = owedOf(p), !.pc = firstOf(owedOf(p))]
<1>1. TypeOK /\ p \in Payment /\ status[p] \in PaymentStatus /\ status[p] # "NONE"
  BY WorkingPayment DEF ReadUnderLease, PaymentsInv, RequestInv, Working, UnderLease
<1>2. /\ owedOf(p) \subseteq {"event", "order"}
      /\ firstOf(owedOf(p)) \in {"publish", "sync", "release"} /\ firstOf(owedOf(p)) \in Steps
      /\ firstOf(owedOf(p)) # "release" => status[p] \in HasEffects
  BY <1>1, OwedEffects DEF Steps, Working, UnderLease
<1>3. req[r] \in RequestState
  BY <1>1 DEF TypeOK
<1>4. x \in RequestState /\ x.pc = firstOf(owedOf(p)) /\ x.cur = status[p] /\ x.pay = p
  BY <1>1, <1>2, <1>3 DEF RequestState
<1>5. req' = [req EXCEPT ![r] = x]
  BY DEF ReadUnderLease
<1> HIDE DEF x
<1>6. req' \in [Request -> RequestState] /\ others(r) /\ req'[r] = x
  BY <1>1, <1>4, <1>5 DEF TypeOK, others
<1>7. TypeOK' /\ UNCHANGED sharedVars
  BY <1>1, <1>6, RequestTypes DEF ReadUnderLease
<1>8. reached(p, status[p])
  BY DEF reached, paid
<1>9. RequestInv(r)'
  BY <1>1, <1>2, <1>4, <1>6, <1>7, <1>8 DEF RequestInv, Working, UnderLease, sharedVars, reached, paid
<1> QED
  BY <1>2, <1>4, <1>6, <1>7, <1>9, LocalStep

LEMMA SyncRefusedSteps ==
  ASSUME PaymentsInv, NEW r \in Request, SyncRefused(r) \/ LookAtOrder(r) \/ CallFails(r)
  PROVE  PaymentsInv'
<1>1. UNCHANGED <<orderVars, rowVars, topic, consumerVars>> /\ req[r].pc \in UnderLease
  BY DEF SyncRefused, LookAtOrder, CallFails, UnderLease
<1>2. CASE fail(r)
  BY <1>1, <1>2, Failed
<1>3. CASE SyncRefused(r) /\ req[r].cur = "FAILED" /\ goto(r, "look")
  <2>1. "look" \in Steps \ {"settle"}
    BY DEF Steps, Working, UnderLease
  <2>2. req'[r].pc = "look" /\ req'[r].pay = req[r].pay /\ req'[r].cur = req[r].cur /\ req'[r].after = req[r].after
    BY <1>3, <2>1, GoTo DEF PaymentsInv
  <2>3. RequestInv(r)'
    BY <1>1, <1>3, <2>2 DEF PaymentsInv, RequestInv, SyncRefused, Working, UnderLease, rowVars, reached, paid
  <2> QED
    BY <1>1, <1>3, <2>1, <2>3, GoneTo
<1>4. CASE LookAtOrder(r) /\ orderStatus \in Closed /\ goto(r, "markSynced")
  <2>1. "markSynced" \in Steps \ {"settle"}
    BY DEF Steps, Working, UnderLease
  <2>2. req'[r].pc = "markSynced" /\ req'[r].pay = req[r].pay /\ req'[r].cur = req[r].cur /\ req'[r].after = req[r].after
    BY <1>4, <2>1, GoTo DEF PaymentsInv
  <2>3. RequestInv(r)'
    BY <1>1, <1>4, <2>2
    DEF PaymentsInv, RequestInv, LookAtOrder, Working, UnderLease, rowVars, orderVars, reached, paid, SyncApplied
  <2> QED
    BY <1>1, <1>4, <2>1, <2>3, GoneTo
<1> QED
  BY <1>2, <1>3, <1>4 DEF SyncRefused, LookAtOrder, CallFails

LEMMA ReleaseStep ==
  ASSUME PaymentsInv, NEW r \in Request, Release(r)
  PROVE  PaymentsInv'
<1> DEFINE p == req[r].pay
           next == IF req[r].after = "throw" THEN "error"
                   ELSE IF req[r].op # "prepare" THEN "ok"
                   ELSE IF req[r].cur \in HasEffects THEN "reread" ELSE "claim"
           x == [req[r] EXCEPT !.cur = "NONE", !.owes = {}, !.after = "return", !.pc = next]
<1>1. TypeOK /\ p \in Payment /\ status[p] # "NONE"
  BY DEF Release, PaymentsInv, RequestInv, Working, UnderLease
<1>2. next \in {"error", "ok", "reread", "claim"} /\ next \in Steps
  BY DEF Steps, Working, Answers
<1>3. next = "claim" => status[p] # "PENDING"
  BY DEF Release, PaymentsInv, RequestInv, UnderLease, HasEffects, SIDE_EFFECTS
<1>4. req[r] \in RequestState
  BY <1>1 DEF TypeOK
<1> HIDE DEF next
<1>5. x \in RequestState /\ x.pc = next /\ x.pay = p
  BY <1>2, <1>4 DEF RequestState
<1>6. req' = [req EXCEPT ![r] = x]
  BY DEF Release, next
<1> HIDE DEF x
<1>7. req' \in [Request -> RequestState] /\ others(r) /\ req'[r] = x
  BY <1>1, <1>5, <1>6 DEF TypeOK, others
<1>8. UNCHANGED sharedVars
  BY DEF Release, sharedVars
<1>9. TypeOK'
  BY <1>1, <1>7, <1>8, LeaseTypes DEF TypeOK, Release
<1>10. RequestInv(r)'
  BY <1>1, <1>2, <1>3, <1>5, <1>7, <1>8 DEF RequestInv, Working, UnderLease, sharedVars
<1> QED
  BY <1>2, <1>5, <1>7, <1>8, <1>9, <1>10, LocalStep

\* Answered, or dead: the slot is free again.
LEMMA SlotFreed ==
  ASSUME PaymentsInv, NEW r \in Request, req' = [req EXCEPT ![r] = Idle], UNCHANGED sharedVars,
         lease' \in [Payment -> Request \cup {Nobody, Orphan}]
  PROVE  PaymentsInv'
<1>1. TypeOK
  BY DEF PaymentsInv
<1>2. Idle \in RequestState /\ Idle.pc = "idle"
  BY DEF Idle, RequestState, Steps
<1>3. req' \in [Request -> RequestState] /\ others(r) /\ req'[r].pc = "idle"
  BY <1>1, <1>2 DEF TypeOK, others
<1>4. TypeOK'
  BY <1>1, <1>3, LeaseTypes
<1> QED
  BY <1>3, <1>4, Elsewhere, LocalStep

LEMMA FinishStep ==
  ASSUME PaymentsInv, NEW r \in Request, Finish(r) \/ Die(r)
  PROVE  PaymentsInv'
<1>1. UNCHANGED sharedVars /\ req' = [req EXCEPT ![r] = Idle]
  BY DEF Finish, Die, sharedVars, rowVars
<1>2. lease' \in [Payment -> Request \cup {Nobody, Orphan}]
  BY DEF PaymentsInv, TypeOK, Finish, Die, rowVars
<1> QED
  BY <1>1, <1>2, SlotFreed

LEMMA LeaseExpiresStep ==
  ASSUME PaymentsInv, NEW p \in Payment, LeaseExpires(p)
  PROVE  PaymentsInv'
<1> USE DEF PaymentsInv, LeaseExpires, orderVars, consumerVars
<1>1. TypeOK'
  BY DEF TypeOK, Marks, Event
<1> QED
  BY <1>1 DEF NeverChargedTwice, Active, SettledOrderWasPending, OrderKnowsTruth, SyncedTellsTruth, SyncApplied,
    PublishedTellsTruth, KeyOfRow, ConsumerInv, Ever, paid, reached, RequestInv, SingleClaimer

-----------------------------------------------------------------------------
(* Steps that change a row, the topic or the order *)

\* What every step keeps: statuses go forward, nothing is taken off the topic
\* or out of the order's history, and a closed order stays closed.
statusMoves ==
  {<<"NONE", "PENDING">>, <<"PENDING", "PROCESSING">>, <<"PROCESSING", "COMPLETED">>,
   <<"PROCESSING", "FAILED">>, <<"COMPLETED", "REFUNDED">>}

Forward ==
  /\ \A p \in Payment : status'[p] = status[p] \/ <<status[p], status'[p]>> \in statusMoves
  /\ topic \subseteq topic'
  /\ orderEvents \subseteq orderEvents'
  /\ orderStatus \in Closed => orderStatus' \in Closed

LEMMA OthersKeep ==
  ASSUME TypeOK, Forward, NEW s \in Request, req'[s] = req[s], RequestInv(s),
         req[s].pc = "settle" => status'[req[s].pay] = status[req[s].pay]
  PROVE  RequestInv(s)'
<1> DEFINE p == req[s].pay
<1>1. CASE req[s].pc \in Working
  <2>1. p \in Payment /\ status[p] # "NONE"
    BY <1>1 DEF RequestInv
  <2>2. status'[p] # "NONE" /\ (status'[p] = "PENDING" => status[p] = "PENDING")
    BY <2>1 DEF Forward, statusMoves
  <2>3. reached(p, req[s].cur) => reached(p, req[s].cur)'
    BY <2>1 DEF Forward, statusMoves, reached, paid
  <2>4. SyncApplied(req[s].cur) => SyncApplied(req[s].cur)'
    BY DEF Forward, SyncApplied, Ever
  <2> QED
    BY <2>1, <2>2, <2>3, <2>4 DEF RequestInv, Forward, Ever, Working, UnderLease
<1>2. CASE req[s].pc \notin Working
  BY <1>2 DEF RequestInv, Working, UnderLease
<1> QED
  BY <1>1, <1>2

\* The facts about rows, order and topic that survive any step forward.
LEMMA FactsKept ==
  ASSUME PaymentsInv, Forward
  PROVE  /\ \A p \in Payment, s \in HasEffects : reached(p, s) => reached(p, s)'
         /\ \A s \in Marks : SyncApplied(s) => SyncApplied(s)'
         /\ \A p \in Payment : status[p] # "NONE" => status'[p] # "NONE"
         /\ (\E p \in Payment : paid(p)) => \E p \in Payment : paid(p)'
         /\ (\E p \in Payment : status[p] = "FAILED") => \E p \in Payment : status'[p] = "FAILED"
<1>1. \A p \in Payment : status'[p] = status[p] \/ <<status[p], status'[p]>> \in statusMoves
  BY DEF Forward
<1>2. \A p \in Payment : paid(p) => paid(p)'
  BY <1>1 DEF statusMoves, paid
<1>3. \A p \in Payment : status[p] = "FAILED" => status'[p] = "FAILED"
  BY <1>1 DEF statusMoves
<1>4. \A p \in Payment : status[p] # "NONE" => status'[p] # "NONE"
  BY <1>1 DEF statusMoves
<1>5. \A p \in Payment, s \in HasEffects : reached(p, s) => reached(p, s)'
  BY <1>2, <1>3 DEF reached
<1>6. \A s \in Marks : SyncApplied(s) => SyncApplied(s)'
  BY DEF Forward, SyncApplied, Ever
<1> QED
  BY <1>2, <1>3, <1>4, <1>5, <1>6

LEMMA InsertStep ==
  ASSUME PaymentsInv, NEW r \in Request, NEW p \in Payment, Insert(r, p)
  PROVE  PaymentsInv'
<1> DEFINE x == [req[r] EXCEPT !.pc = "lease", !.pay = p, !.key = NoKey]
<1> USE DEF Insert
<1>1. TypeOK /\ status[p] = "NONE" /\ Active = {}
  BY DEF PaymentsInv, insertable
<1>2. req[r] \in RequestState
  BY <1>1 DEF TypeOK
<1>3. x \in RequestState /\ x.pc = "lease" /\ x.pay = p
  BY <1>2 DEF RequestState, Steps, Working
<1>4. req' = [req EXCEPT ![r] = x]
  OBVIOUS
<1> HIDE DEF x
<1>5. req' \in [Request -> RequestState] /\ others(r) /\ req'[r] = x
  BY <1>1, <1>3, <1>4 DEF TypeOK, others
<1>6. TypeOK'
  <2>1. req[r].key \in Key \cup {NoKey}
    BY <1>2 DEF RequestState
  <2> QED
    BY <1>1, <1>5, <2>1 DEF TypeOK, PaymentStatus, orderVars, consumerVars
<1>7. Forward
  BY <1>1 DEF TypeOK, Forward, statusMoves, orderVars
<1>8. NeverChargedTwice'
  BY <1>1 DEF TypeOK, NeverChargedTwice, Active, ACTIVE_PAYMENT_STATUSES
<1>9. SettledOrderWasPending' /\ OrderKnowsTruth' /\ ConsumerInv'
  BY <1>1, <1>7, FactsKept
  DEF PaymentsInv, TypeOK, SettledOrderWasPending, OrderKnowsTruth, ConsumerInv, Ever, Settled, orderVars, consumerVars
<1>10. SyncedTellsTruth'
  BY DEF PaymentsInv, SyncedTellsTruth, SyncApplied, Ever, orderVars
<1>11. PublishedTellsTruth'
  BY <1>7, FactsKept DEF PaymentsInv, PublishedTellsTruth
<1>12. KeyOfRow'
  BY <1>1 DEF PaymentsInv, TypeOK, KeyOfRow
<1>13. RequestInv(r)'
  BY <1>1, <1>3, <1>5 DEF TypeOK, RequestInv, Working, UnderLease
<1>14. ASSUME NEW s \in Request \ {r} PROVE RequestInv(s)'
  <2>1. req[s].pc = "settle" => req[s].pay # p
    BY <1>1 DEF PaymentsInv, RequestInv
  <2>2. req[s].pc = "settle" => status'[req[s].pay] = status[req[s].pay]
    BY <2>1 DEF PaymentsInv, TypeOK, RequestInv, Working
  <2> QED
    BY <1>1, <1>5, <1>7, <2>2, OthersKeep DEF PaymentsInv, others
<1>15. SingleClaimer'
  BY <1>3, <1>5 DEF PaymentsInv, SingleClaimer, others
<1> QED
  BY <1>6, <1>8, <1>9, <1>10, <1>11, <1>12, <1>13, <1>14, <1>15 DEF PaymentsInv

\* The three steps that move one row onwards share their argument.
LEMMA RowMoved ==
  ASSUME PaymentsInv, NEW p \in Payment, NEW s \in PaymentStatus,
         <<status[p], s>> \in statusMoves \ {<<"NONE", "PENDING">>},
         status' = [status EXCEPT ![p] = s],
         UNCHANGED <<orderVars, keyOf, published, synced, lease, topic, consumerVars>>,
         req' \in [Request -> RequestState],
         s = "PROCESSING" => Ever("PAYMENT_PENDING"),
         \A q \in Request : RequestInv(q)', SingleClaimer'
  PROVE  PaymentsInv'
<1>1. TypeOK
  BY DEF PaymentsInv
<1>2. TypeOK'
  BY <1>1 DEF TypeOK, Marks, Event, orderVars, consumerVars
<1>3. Forward
  BY <1>1 DEF TypeOK, Forward, orderVars
<1>4. Active' \subseteq Active
  BY <1>1 DEF TypeOK, Active, ACTIVE_PAYMENT_STATUSES, statusMoves
<1>5. NeverChargedTwice'
  BY <1>4 DEF PaymentsInv, NeverChargedTwice
<1>6. SettledOrderWasPending'
  BY <1>1 DEF PaymentsInv, TypeOK, SettledOrderWasPending, Ever, Settled, statusMoves, orderVars
<1>7. OrderKnowsTruth' /\ ConsumerInv'
  BY <1>3, FactsKept DEF PaymentsInv, OrderKnowsTruth, ConsumerInv, Ever, orderVars, consumerVars
<1>8. SyncedTellsTruth'
  BY DEF PaymentsInv, SyncedTellsTruth, SyncApplied, Ever, orderVars
<1>9. PublishedTellsTruth'
  BY <1>3, FactsKept DEF PaymentsInv, PublishedTellsTruth
<1>10. KeyOfRow'
  BY <1>3, FactsKept DEF PaymentsInv, KeyOfRow
<1> QED
  BY <1>2, <1>5, <1>6, <1>7, <1>8, <1>9, <1>10 DEF PaymentsInv

LEMMA ClaimStep ==
  ASSUME PaymentsInv, NEW r \in Request, Claim(r)
  PROVE  PaymentsInv'
<1> DEFINE p == req[r].pay
<1> USE DEF Claim
<1>1. TypeOK /\ p \in Payment
  BY DEF PaymentsInv, RequestInv, Working
<1>2. "settle" \in Steps /\ "PROCESSING" \in PaymentStatus
  BY DEF Steps, Working, PaymentStatus
<1>3. /\ req' \in [Request -> RequestState] /\ others(r)
      /\ req'[r].pc = "settle" /\ req'[r].pay = p
  BY <1>1, <1>2, GoTo
<1>4. Ever("PAYMENT_PENDING")
  BY DEF PaymentsInv, RequestInv
<1>5. Forward
  BY <1>1 DEF TypeOK, Forward, statusMoves, orderVars
<1>6. \A s \in Request : req[s].pc = "settle" => req[s].pay # p
  BY DEF PaymentsInv, RequestInv
<1>7. RequestInv(r)'
  BY <1>1, <1>3 DEF TypeOK, RequestInv, Working, UnderLease
<1>8. ASSUME NEW s \in Request \ {r} PROVE RequestInv(s)'
  <2>1. req[s].pc = "settle" => status'[req[s].pay] = status[req[s].pay]
    BY <1>6 DEF PaymentsInv, TypeOK, RequestInv, Working
  <2> QED
    BY <1>1, <1>3, <1>5, <2>1, OthersKeep DEF PaymentsInv, others
<1>9. SingleClaimer'
  BY <1>3, <1>6 DEF PaymentsInv, SingleClaimer, others
<1>10. <<status[p], "PROCESSING">> \in statusMoves \ {<<"NONE", "PENDING">>}
  BY DEF statusMoves
<1> HIDE DEF Claim
<1> QED
  BY <1>1, <1>2, <1>3, <1>4, <1>7, <1>8, <1>9, <1>10, RowMoved DEF Claim

LEMMA SettleStep ==
  ASSUME PaymentsInv, NEW r \in Request, NEW outcome \in Settled, Settle(r, outcome)
  PROVE  PaymentsInv'
<1> DEFINE p == req[r].pay
           x == [req[r] EXCEPT !.op = "finish", !.pc = "reread"]
<1> USE DEF Settle
<1>1. TypeOK /\ p \in Payment
  BY DEF PaymentsInv, RequestInv, Working
<1>2. outcome \in PaymentStatus /\ outcome \notin {"NONE", "PENDING", "PROCESSING"}
  BY DEF PaymentStatus, Settled
<1>3. x \in RequestState /\ x.pc = "reread" /\ x.pay = p
  <2>1. req[r] \in RequestState
    BY <1>1 DEF TypeOK
  <2> QED
    BY <2>1 DEF RequestState, Steps, Working
<1>4. req' = [req EXCEPT ![r] = x]
  OBVIOUS
<1> HIDE DEF x
<1>5. req' \in [Request -> RequestState] /\ others(r) /\ req'[r] = x
  BY <1>1, <1>3, <1>4 DEF TypeOK, others
<1>6. <<status[p], outcome>> \in statusMoves \ {<<"NONE", "PENDING">>}
  BY DEF statusMoves, Settled
<1>7. Forward
  BY <1>1, <1>6 DEF TypeOK, Forward, orderVars
<1>8. RequestInv(r)'
  BY <1>1, <1>2, <1>3, <1>5 DEF TypeOK, RequestInv, Working, UnderLease
<1>9. ASSUME NEW s \in Request \ {r} PROVE RequestInv(s)'
  <2>1. req[s].pc = "settle" => req[s].pay # p
    BY DEF PaymentsInv, SingleClaimer
  <2>2. req[s].pc = "settle" => status'[req[s].pay] = status[req[s].pay]
    BY <2>1 DEF PaymentsInv, TypeOK, RequestInv, Working
  <2> QED
    BY <1>1, <1>5, <1>7, <2>2, OthersKeep DEF PaymentsInv, others
<1>10. SingleClaimer'
  BY <1>3, <1>5 DEF PaymentsInv, SingleClaimer, others
<1> HIDE DEF Settle
<1> QED
  BY <1>1, <1>2, <1>5, <1>6, <1>8, <1>9, <1>10, RowMoved DEF Settle

LEMMA RefundStep ==
  ASSUME PaymentsInv, NEW p \in Payment, Refund(p)
  PROVE  PaymentsInv'
<1> USE DEF Refund
<1>1. TypeOK /\ status[p] = "COMPLETED" /\ "REFUNDED" \in PaymentStatus
  BY DEF PaymentsInv, isTransitionAllowed, PAYMENT_TRANSITIONS, PaymentStatus
<1>2. <<status[p], "REFUNDED">> \in statusMoves \ {<<"NONE", "PENDING">>}
  BY <1>1 DEF statusMoves
<1>3. Forward
  BY <1>1, <1>2 DEF TypeOK, Forward, orderVars
<1>4. ASSUME NEW s \in Request PROVE RequestInv(s)'
  <2>1. req[s].pc = "settle" => req[s].pay # p
    BY <1>1 DEF PaymentsInv, RequestInv
  <2>2. req[s].pc = "settle" => status'[req[s].pay] = status[req[s].pay]
    BY <2>1 DEF PaymentsInv, TypeOK, RequestInv, Working
  <2> QED
    BY <1>1, <1>3, <2>2, OthersKeep DEF PaymentsInv
<1>5. SingleClaimer'
  BY DEF PaymentsInv, SingleClaimer
<1> QED
  BY <1>1, <1>2, <1>4, <1>5, RowMoved DEF TypeOK

\* The order moves, on the word of a payment where it is confirmed or fails.
LEMMA OrderMoved ==
  ASSUME PaymentsInv, NEW target \in OrderStatus, SetStatus(target),
         UNCHANGED <<rowVars, topic, orderPaid>>,
         target = "CONFIRMED" => \E p \in Payment : paid(p),
         target = "FAILED" => \E p \in Payment : status[p] = "FAILED"
  PROVE  /\ Forward /\ orderStatus' = target /\ target \in orderEvents'
         /\ orderStatus' \in OrderStatus /\ orderEvents' \subseteq OrderStatus
         /\ NeverChargedTwice' /\ SettledOrderWasPending' /\ OrderKnowsTruth'
         /\ SyncedTellsTruth' /\ PublishedTellsTruth' /\ KeyOfRow'
<1> USE DEF SetStatus, rowVars
<1>1. TypeOK
  BY DEF PaymentsInv
<1>2. orderStatus \in Closed => target = orderStatus
  BY DEF accepts, isTransitionAllowed, ORDER_TRANSITIONS, Closed
<1>3. Forward
  BY <1>2 DEF Forward
<1>4. OrderKnowsTruth'
  BY DEF PaymentsInv, OrderKnowsTruth, Ever, paid
<1>5. NeverChargedTwice' /\ SettledOrderWasPending' /\ PublishedTellsTruth' /\ KeyOfRow'
  BY DEF PaymentsInv, NeverChargedTwice, Active, SettledOrderWasPending, Ever, PublishedTellsTruth, reached, paid, KeyOfRow
<1>6. SyncedTellsTruth'
  BY <1>1, <1>3, FactsKept DEF PaymentsInv, SyncedTellsTruth, TypeOK
<1> QED
  BY <1>1, <1>3, <1>4, <1>5, <1>6 DEF TypeOK

LEMMA PublishStep ==
  ASSUME PaymentsInv, NEW r \in Request, Publish(r)
  PROVE  PaymentsInv'
<1> DEFINE e == <<req[r].pay, req[r].cur>>
<1> USE DEF Publish
<1>1. TypeOK /\ req[r].pay \in Payment /\ req[r].cur \in HasEffects /\ reached(req[r].pay, req[r].cur)
      /\ status[req[r].pay] # "NONE"
  BY DEF PaymentsInv, RequestInv, Working, UnderLease
<1>2. /\ req' \in [Request -> RequestState] /\ others(r)
      /\ req'[r].pc \in {"markPublished", "release"} /\ req'[r].pay = req[r].pay /\ req'[r].cur = req[r].cur
      /\ req'[r].after \in {req[r].after, "throw"}
  <2>1. "markPublished" \in Steps
    BY DEF Steps, Working, UnderLease
  <2> QED
    BY <1>1, <2>1, Answered
<1>3. e \in Event /\ topic' = topic \cup {e}
  BY <1>1 DEF Event
<1>4. TypeOK'
  BY <1>1, <1>2, <1>3 DEF TypeOK, orderVars, rowVars, consumerVars, Marks
<1>5. Forward
  BY DEF Forward, orderVars, rowVars
<1>6. NeverChargedTwice' /\ SettledOrderWasPending' /\ OrderKnowsTruth' /\ SyncedTellsTruth' /\ KeyOfRow' /\ ConsumerInv'
  BY DEF PaymentsInv, NeverChargedTwice, Active, SettledOrderWasPending, OrderKnowsTruth, SyncedTellsTruth, SyncApplied,
         KeyOfRow, ConsumerInv, Ever, paid, orderVars, rowVars, consumerVars
<1>7. PublishedTellsTruth'
  BY <1>1 DEF PaymentsInv, PublishedTellsTruth, reached, paid, rowVars
<1>8. RequestInv(r)'
  BY <1>1, <1>2, <1>3 DEF PaymentsInv, RequestInv, Working, UnderLease, rowVars, reached, paid
<1>9. ASSUME NEW s \in Request \ {r} PROVE RequestInv(s)'
  BY <1>1, <1>2, <1>5, OthersKeep DEF PaymentsInv, others, rowVars
<1>10. SingleClaimer'
  BY <1>2 DEF PaymentsInv, SingleClaimer, others
<1> QED
  BY <1>4, <1>6, <1>7, <1>8, <1>9, <1>10 DEF PaymentsInv

LEMMA MarkPublishedStep ==
  ASSUME PaymentsInv, NEW r \in Request, MarkPublished(r)
  PROVE  PaymentsInv'
<1> DEFINE next == firstOf(req[r].owes \ {"event"})
<1> USE DEF MarkPublished
<1>1. TypeOK /\ req[r].pay \in Payment /\ req[r].cur \in HasEffects /\ reached(req[r].pay, req[r].cur)
      /\ status[req[r].pay] # "NONE" /\ <<req[r].pay, req[r].cur>> \in topic
  BY DEF PaymentsInv, RequestInv, Working, UnderLease
<1>2. next \in {"sync", "release"} /\ next \in Steps
  BY DEF firstOf, Steps, Working, UnderLease
<1> HIDE DEF next
<1>3. /\ req' \in [Request -> RequestState] /\ others(r)
      /\ req'[r].pc \in {"sync", "release"} /\ req'[r].pay = req[r].pay /\ req'[r].cur = req[r].cur
      /\ req'[r].after \in {req[r].after, "throw"}
  BY <1>1, <1>2, Answered DEF next
<1>4. TypeOK'
  BY <1>1, <1>3 DEF TypeOK, orderVars, consumerVars, Marks, Event
<1>5. Forward
  BY DEF Forward, orderVars
<1>6. NeverChargedTwice' /\ SettledOrderWasPending' /\ OrderKnowsTruth' /\ SyncedTellsTruth' /\ KeyOfRow' /\ ConsumerInv'
  BY DEF PaymentsInv, NeverChargedTwice, Active, SettledOrderWasPending, OrderKnowsTruth, SyncedTellsTruth, SyncApplied,
         KeyOfRow, ConsumerInv, Ever, paid, orderVars, consumerVars
<1>7. PublishedTellsTruth'
  BY <1>1 DEF PaymentsInv, TypeOK, PublishedTellsTruth, reached, paid
<1>8. RequestInv(r)'
  BY <1>1, <1>3 DEF PaymentsInv, RequestInv, Working, UnderLease, reached, paid
<1>9. ASSUME NEW s \in Request \ {r} PROVE RequestInv(s)'
  BY <1>1, <1>3, <1>5, OthersKeep DEF PaymentsInv, others
<1>10. SingleClaimer'
  BY <1>3 DEF PaymentsInv, SingleClaimer, others
<1> QED
  BY <1>4, <1>6, <1>7, <1>8, <1>9, <1>10 DEF PaymentsInv

LEMMA SyncOrderStep ==
  ASSUME PaymentsInv, NEW r \in Request, SyncOrder(r)
  PROVE  PaymentsInv'
<1> DEFINE p == req[r].pay
           s == req[r].cur
<1> USE DEF SyncOrder
<1>1. TypeOK /\ p \in Payment /\ s \in HasEffects /\ reached(p, s) /\ status[p] # "NONE"
  BY DEF PaymentsInv, RequestInv, Working, UnderLease
<1>2. /\ SIDE_EFFECTS[s] \in OrderStatus
      /\ s = "PENDING" => SIDE_EFFECTS[s] = "PAYMENT_PENDING"
      /\ s = "COMPLETED" <=> SIDE_EFFECTS[s] = "CONFIRMED"
      /\ s = "FAILED" <=> SIDE_EFFECTS[s] = "FAILED"
  BY <1>1 DEF HasEffects, SIDE_EFFECTS, OrderStatus
<1>3. /\ Forward /\ orderStatus' = SIDE_EFFECTS[s] /\ SIDE_EFFECTS[s] \in orderEvents'
      /\ orderStatus' \in OrderStatus /\ orderEvents' \subseteq OrderStatus
      /\ NeverChargedTwice' /\ SettledOrderWasPending' /\ OrderKnowsTruth'
      /\ SyncedTellsTruth' /\ PublishedTellsTruth' /\ KeyOfRow'
  BY <1>1, <1>2, OrderMoved DEF reached, consumerVars
<1>4. /\ req' \in [Request -> RequestState] /\ others(r)
      /\ req'[r].pc \in {"markSynced", "release"} /\ req'[r].pay = p /\ req'[r].cur = s
      /\ req'[r].after \in {req[r].after, "throw"}
  <2>1. "markSynced" \in Steps
    BY DEF Steps, Working, UnderLease
  <2> QED
    BY <1>1, <2>1, Answered
<1>5. TypeOK'
  BY <1>1, <1>3, <1>4 DEF TypeOK, rowVars, consumerVars, Marks, Event
<1>6. SyncApplied(s)'
  BY <1>2, <1>3, <1>4 DEF SyncApplied, Ever, Closed
<1>7. RequestInv(r)'
  BY <1>1, <1>4, <1>6 DEF PaymentsInv, RequestInv, Working, UnderLease, rowVars, reached, paid
<1>8. ASSUME NEW q \in Request \ {r} PROVE RequestInv(q)'
  BY <1>1, <1>3, <1>4, OthersKeep DEF PaymentsInv, others, rowVars
<1>9. SingleClaimer' /\ ConsumerInv'
  BY <1>4 DEF PaymentsInv, SingleClaimer, ConsumerInv, others, consumerVars
<1> QED
  BY <1>3, <1>5, <1>7, <1>8, <1>9 DEF PaymentsInv

LEMMA MarkSyncedStep ==
  ASSUME PaymentsInv, NEW r \in Request, MarkSynced(r)
  PROVE  PaymentsInv'
<1> USE DEF MarkSynced
<1>1. TypeOK /\ req[r].pay \in Payment /\ req[r].cur \in HasEffects /\ status[req[r].pay] # "NONE"
      /\ SyncApplied(req[r].cur)
  BY DEF PaymentsInv, RequestInv, Working, UnderLease
<1>2. /\ req' \in [Request -> RequestState] /\ others(r)
      /\ req'[r].pc = "release" /\ req'[r].pay = req[r].pay /\ req'[r].cur = req[r].cur
      /\ req'[r].after \in {req[r].after, "throw"}
  <2>1. "release" \in Steps
    BY DEF Steps, Working, UnderLease
  <2> QED
    BY <1>1, <2>1, Answered
<1>3. TypeOK'
  BY <1>1, <1>2 DEF TypeOK, orderVars, consumerVars, Marks, Event
<1>4. Forward
  BY DEF Forward, orderVars
<1>5. NeverChargedTwice' /\ SettledOrderWasPending' /\ OrderKnowsTruth' /\ PublishedTellsTruth' /\ KeyOfRow' /\ ConsumerInv'
  BY DEF PaymentsInv, NeverChargedTwice, Active, SettledOrderWasPending, OrderKnowsTruth, PublishedTellsTruth, reached,
         KeyOfRow, ConsumerInv, Ever, paid, orderVars, consumerVars
<1>6. SyncedTellsTruth'
  BY <1>1 DEF PaymentsInv, TypeOK, SyncedTellsTruth, SyncApplied, Ever, orderVars
<1>7. RequestInv(r)'
  BY <1>1, <1>2 DEF PaymentsInv, RequestInv, Working, UnderLease, reached, paid
<1>8. ASSUME NEW s \in Request \ {r} PROVE RequestInv(s)'
  BY <1>1, <1>2, <1>4, OthersKeep DEF PaymentsInv, others
<1>9. SingleClaimer'
  BY <1>2 DEF PaymentsInv, SingleClaimer, others
<1> QED
  BY <1>3, <1>5, <1>6, <1>7, <1>8, <1>9 DEF PaymentsInv

LEMMA OthersMoveStep ==
  ASSUME PaymentsInv, NEW target \in OrderStatus, OthersMove(target)
  PROVE  PaymentsInv'
<1> USE DEF OthersMove
<1>1. target \notin {"CONFIRMED", "FAILED"}
  BY DEF othersMove, Placed
<1>2. /\ Forward /\ orderStatus' \in OrderStatus /\ orderEvents' \subseteq OrderStatus
      /\ NeverChargedTwice' /\ SettledOrderWasPending' /\ OrderKnowsTruth'
      /\ SyncedTellsTruth' /\ PublishedTellsTruth' /\ KeyOfRow'
  BY <1>1, OrderMoved DEF consumerVars
<1>3. TypeOK'
  BY <1>2 DEF PaymentsInv, TypeOK, rowVars, consumerVars, Marks, Event
<1>4. ASSUME NEW s \in Request PROVE RequestInv(s)'
  BY <1>2, OthersKeep DEF PaymentsInv, rowVars
<1>5. SingleClaimer' /\ ConsumerInv'
  BY DEF PaymentsInv, SingleClaimer, ConsumerInv, consumerVars
<1> QED
  BY <1>2, <1>3, <1>4, <1>5 DEF PaymentsInv

LEMMA RecordPaymentStatusStep ==
  ASSUME PaymentsInv, NEW e \in topic, RecordPaymentStatus(e)
  PROVE  PaymentsInv'
<1> USE DEF RecordPaymentStatus
<1>1. e \in Event /\ e[1] \in Payment /\ e[2] \in HasEffects /\ e = <<e[1], e[2]>>
  BY DEF PaymentsInv, TypeOK, Event
<1>2. orderPaid' \in {orderPaid, e[2]} /\ orderPaid' \in {"UNKNOWN", "PENDING", "COMPLETED", "FAILED"}
  BY <1>1 DEF PaymentsInv, TypeOK, learnt, HasEffects, SIDE_EFFECTS
<1>3. TypeOK'
  BY <1>1, <1>2 DEF PaymentsInv, TypeOK, orderVars, rowVars, Marks, Event
<1>4. reached(e[1], e[2])
  BY <1>1 DEF PaymentsInv, PublishedTellsTruth
<1>5. OrderKnowsTruth'
  BY <1>1, <1>2, <1>4 DEF PaymentsInv, OrderKnowsTruth, reached, paid, Ever, orderVars, rowVars
<1> QED
  BY <1>3, <1>5 DEF PaymentsInv, NeverChargedTwice, Active, SettledOrderWasPending, SyncedTellsTruth, SyncApplied,
    PublishedTellsTruth, KeyOfRow, ConsumerInv, Ever, paid, reached, RequestInv, SingleClaimer, orderVars, rowVars

LEMMA SyncFromEventStep ==
  ASSUME PaymentsInv, NEW e \in topic, SyncFromEvent(e)
  PROVE  PaymentsInv'
<1> DEFINE target == SIDE_EFFECTS[e[2]]
<1> USE DEF SyncFromEvent
<1>1. TypeOK /\ e \in Event /\ e[1] \in Payment /\ e[2] \in HasEffects /\ e = <<e[1], e[2]>>
  BY DEF PaymentsInv, TypeOK, Event
<1>2. /\ target \in OrderStatus
      /\ target = "CONFIRMED" => e[2] = "COMPLETED"
      /\ target = "FAILED" => e[2] = "FAILED"
  BY <1>1 DEF HasEffects, SIDE_EFFECTS, OrderStatus
<1>3. reached(e[1], e[2])
  BY <1>1 DEF PaymentsInv, PublishedTellsTruth
<1>4. /\ Forward /\ orderStatus' \in OrderStatus /\ orderEvents' \subseteq OrderStatus
      /\ NeverChargedTwice' /\ SettledOrderWasPending' /\ OrderKnowsTruth'
      /\ SyncedTellsTruth' /\ PublishedTellsTruth' /\ KeyOfRow'
  <2>1. CASE SetStatus(target)
    BY <1>1, <1>2, <1>3, <2>1, OrderMoved DEF reached
  <2>2. CASE UNCHANGED orderVars
    BY <2>2 DEF PaymentsInv, TypeOK, Forward, NeverChargedTwice, Active, SettledOrderWasPending, OrderKnowsTruth,
      SyncedTellsTruth, SyncApplied, PublishedTellsTruth, KeyOfRow, Ever, paid, reached, orderVars, rowVars
  <2> QED
    BY <2>1, <2>2
<1>5. TypeOK'
  BY <1>1, <1>4 DEF TypeOK, rowVars, Marks, Event
<1>6. ASSUME NEW s \in Request PROVE RequestInv(s)'
  BY <1>1, <1>4, OthersKeep DEF PaymentsInv, rowVars
<1>7. SingleClaimer' /\ ConsumerInv'
  BY DEF PaymentsInv, SingleClaimer, ConsumerInv
<1> QED
  BY <1>4, <1>5, <1>6, <1>7 DEF PaymentsInv

LEMMA ConsumerDiesStep ==
  ASSUME PaymentsInv, ConsumerDies
  PROVE  PaymentsInv'
<1> USE DEF PaymentsInv, ConsumerDies, orderVars, rowVars
<1>1. TypeOK'
  BY DEF TypeOK, Marks, Event
<1> QED
  BY <1>1 DEF NeverChargedTwice, Active, SettledOrderWasPending, OrderKnowsTruth, SyncedTellsTruth, SyncApplied,
    PublishedTellsTruth, KeyOfRow, ConsumerInv, Ever, paid, reached, RequestInv, SingleClaimer

-----------------------------------------------------------------------------
(* The theorems *)

LEMMA InitPayments == Init => PaymentsInv
<1> SUFFICES ASSUME Init PROVE PaymentsInv
  OBVIOUS
<1> USE DEF Init, OrderInit
<1>1. Idle \in RequestState /\ Idle.pc = "idle"
  BY DEF Idle, RequestState, Steps
<1>2. TypeOK
  BY <1>1 DEF TypeOK, OrderStatus, Marks, Event
<1>3. \A r \in Request : RequestInv(r) /\ req[r].pc # "settle"
  BY <1>1 DEF RequestInv, Working, UnderLease
<1>4. Active = {}
  BY DEF Active, ACTIVE_PAYMENT_STATUSES
<1> QED
  BY <1>2, <1>3, <1>4 DEF PaymentsInv, NeverChargedTwice, SettledOrderWasPending, OrderKnowsTruth, SyncedTellsTruth,
    SyncApplied, PublishedTellsTruth, KeyOfRow, ConsumerInv, SingleClaimer, Ever, Settled

LEMMA StutterPayments ==
  ASSUME PaymentsInv, UNCHANGED vars
  PROVE  PaymentsInv'
<1> USE DEF PaymentsInv, vars, orderVars, rowVars, consumerVars
<1>1. TypeOK'
  BY DEF TypeOK, Marks, Event
<1> QED
  BY <1>1 DEF NeverChargedTwice, Active, SettledOrderWasPending, OrderKnowsTruth, SyncedTellsTruth, SyncApplied,
    PublishedTellsTruth, KeyOfRow, ConsumerInv, Ever, paid, reached, RequestInv, SingleClaimer

LEMMA RequestStepKeeps ==
  ASSUME PaymentsInv, NEW r \in Request, RequestStep(r)
  PROVE  PaymentsInv'
<1>1. CASE CreateStep(r)
  BY <1>1, CreateBeginStep, LookupSteps, InsertStep DEF CreateStep
<1>2. CASE ProcessStep(r)
  BY <1>2, ProcessBeginStep, ClaimStep, ClaimLostStep, SettleStep, RereadStep DEF ProcessStep
<1>3. CASE EffectStep(r)
  BY <1>3, AcquireLeaseStep, LeaseBusyStep, ReadUnderLeaseStep, PublishStep, MarkPublishedStep, SyncOrderStep,
     SyncRefusedSteps, MarkSyncedStep, ReleaseStep DEF EffectStep
<1>4. CASE Finish(r) \/ Die(r)
  BY <1>4, FinishStep
<1> QED
  BY <1>1, <1>2, <1>3, <1>4 DEF RequestStep

\* The invariant holds in every reachable state: the columns of a payment, what
\* each request believes of them, the order and the topic never disagree.
THEOREM PaymentsCorrect == Spec => []PaymentsInv
<1>1. PaymentsInv /\ [Next]_vars => PaymentsInv'
  <2> SUFFICES ASSUME PaymentsInv, [Next]_vars PROVE PaymentsInv'
    OBVIOUS
  <2>1. ASSUME NEW r \in Request, RequestStep(r) PROVE PaymentsInv'
    BY <2>1, RequestStepKeeps
  <2>2. ASSUME NEW p \in Payment, Refund(p) \/ LeaseExpires(p) PROVE PaymentsInv'
    BY <2>2, RefundStep, LeaseExpiresStep
  <2>3. ASSUME NEW target \in OrderStatus, OthersMove(target) PROVE PaymentsInv'
    BY <2>3, OthersMoveStep
  <2>4. CASE ConsumerStep
    BY <2>4, RecordPaymentStatusStep, SyncFromEventStep, ConsumerDiesStep DEF ConsumerStep
  <2>5. CASE UNCHANGED vars
    BY <2>5, StutterPayments
  <2> QED
    BY <2>1, <2>2, <2>3, <2>4, <2>5 DEF Next
<1> QED
  BY InitPayments, <1>1, PTL DEF Spec

\* An order never has two payments in force (createPayment, the unique index).
THEOREM ChargedOnce == Spec => []NeverChargedTwice
<1>1. PaymentsInv => NeverChargedTwice
  BY DEF PaymentsInv
<1> QED
  BY PaymentsCorrect, <1>1, PTL

\* "Only the request that claimed PROCESSING may settle": its claim still stands.
THEOREM ClaimStands == Spec => []ClaimerSettles
<1>1. PaymentsInv => ClaimerSettles
  BY DEF PaymentsInv, RequestInv, ClaimerSettles
<1> QED
  BY PaymentsCorrect, <1>1, PTL

\* An order passes PAYMENT_PENDING before its payment is claimed (processPayment).
THEOREM PendingFirst == Spec => []SettledOrderWasPending
<1>1. PaymentsInv => SettledOrderWasPending
  BY DEF PaymentsInv
<1> QED
  BY PaymentsCorrect, <1>1, PTL

\* The order hears nothing untrue over either path (syncOrder, the consumers).
THEOREM TruthTold == Spec => []OrderKnowsTruth
<1>1. PaymentsInv => OrderKnowsTruth
  BY DEF PaymentsInv
<1> QED
  BY PaymentsCorrect, <1>1, PTL

\* No marker runs ahead of the order or of Kafka (completeSideEffects).
THEOREM MarksTrue == Spec => [](SyncedTellsTruth /\ PublishedTellsTruth)
<1>1. PaymentsInv => SyncedTellsTruth /\ PublishedTellsTruth
  BY DEF PaymentsInv
<1> QED
  BY PaymentsCorrect, <1>1, PTL
-----------------------------------------------------------------------------
(* The lease, when no request outlives it *)

\* A step that leaves the leases alone moves no request under one.
LEMMA LeaseUntouched ==
  ASSUME LeaseHeld, NEW r \in Request, others(r), lease' = lease,
         req'[r].pc \in UnderLease => req[r].pc \in UnderLease /\ req'[r].pay = req[r].pay
  PROVE  LeaseHeld'
BY DEF LeaseHeld, others

\* These steps are made outside a lease and lead to no step under one.
LEMMA OutsideLease ==
  ASSUME PaymentsInv, NEW r \in Request,
         CreateStep(r) \/ ProcessStep(r) \/ LeaseBusy(r) \/ Finish(r)
  PROVE  lease' = lease /\ others(r) /\ req'[r].pc \notin UnderLease
<1> USE DEF rowVars
<1> DEFINE away == req' \in [Request -> RequestState] /\ others(r) /\ req'[r].pc \notin UnderLease
<1>1. TypeOK
  BY DEF PaymentsInv
<1>2. ASSUME NEW pc \in Steps \ UnderLease, goto(r, pc) PROVE away
  BY <1>1, <1>2, GoTo
<1>3. ASSUME NEW op \in {"create", "prepare", "finish"}, NEW p \in Payment, enterEffects(r, op, p) PROVE away
  BY <1>1, <1>3, EnterEffects DEF UnderLease
<1>4. ASSUME NEW k, replay(r, k) PROVE away
  BY <1>3, <1>4 DEF replay
<1>5. ASSUME NEW p \in Payment, resume(r, p) PROVE away
  BY <1>2, <1>3, <1>5 DEF resume, Steps, Answers, UnderLease
<1>6. ASSUME NEW x \in RequestState, x.pc \notin UnderLease, req' = [req EXCEPT ![r] = x] PROVE away
  BY <1>1, <1>6 DEF TypeOK, others
<1>7. /\ {"latest", "insert", "refused", "claim", "lease", "ok", "settle"} \subseteq Steps \ UnderLease
      /\ {"order", "idle", "reread"} \subseteq Steps \ UnderLease
  BY DEF Steps, Working, Answers, UnderLease
<1>8. req[r] \in RequestState
  BY <1>1 DEF TypeOK
<1>9. CASE CreateStep(r)
  <2>1. ASSUME NEW k \in Key \cup {NoKey}, CreateBegin(r, k) PROVE lease' = lease /\ away
    <3> DEFINE x == [Idle EXCEPT !.op = "create", !.pc = "order", !.key = k]
    <3>1. x \in RequestState /\ x.pc \notin UnderLease
      BY <1>7 DEF Idle, RequestState
    <3> QED
      BY <2>1, <3>1, <1>4, <1>6 DEF CreateBegin
  <2>2. ASSUME GetOrder(r) \/ FindLatest(r) PROVE lease' = lease /\ away
    BY <2>2, <1>2, <1>7 DEF GetOrder, FindLatest
  <2>3. ASSUME NEW p \in Payment, Insert(r, p) PROVE lease' = lease /\ away
    <3> DEFINE x == [req[r] EXCEPT !.pc = "lease", !.pay = p, !.key = NoKey]
    <3>1. x \in RequestState /\ x.pc \notin UnderLease
      BY <1>7, <1>8 DEF RequestState
    <3>2. req' = [req EXCEPT ![r] = x]
      BY <2>3 DEF Insert
    <3> HIDE DEF x
    <3> QED
      BY <2>3, <3>1, <3>2, <1>6 DEF Insert
  <2>4. ASSUME InsertConflict(r) PROVE lease' = lease /\ away
    BY <2>4, <1>2, <1>4, <1>7 DEF InsertConflict
  <2> QED
    BY <1>9, <2>1, <2>2, <2>3, <2>4 DEF CreateStep
<1>10. CASE ProcessStep(r)
  <2>1. ASSUME NEW p \in Payment, ProcessBegin(r, p) PROVE lease' = lease /\ away
    BY <2>1, <1>3, <1>5 DEF ProcessBegin
  <2>2. ASSUME Claim(r) \/ Reread(r) PROVE lease' = lease /\ away
    BY <2>2, <1>2, <1>7 DEF Claim, Reread
  <2>3. ASSUME ClaimLost(r) PROVE lease' = lease /\ away
    BY <2>3, <1>5 DEF ClaimLost, PaymentsInv, RequestInv, Working
  <2>4. ASSUME NEW outcome \in Settled, Settle(r, outcome) PROVE lease' = lease /\ away
    <3> DEFINE x == [req[r] EXCEPT !.op = "finish", !.pc = "reread"]
    <3>1. x \in RequestState /\ x.pc \notin UnderLease
      BY <1>7, <1>8 DEF RequestState
    <3>2. req' = [req EXCEPT ![r] = x]
      BY <2>4 DEF Settle
    <3> HIDE DEF x
    <3> QED
      BY <2>4, <3>1, <3>2, <1>6 DEF Settle
  <2> QED
    BY <1>10, <2>1, <2>2, <2>3, <2>4 DEF ProcessStep
<1>11. CASE LeaseBusy(r)
  <2>1. lease' = lease /\ away
    BY <1>11, <1>2, <1>7 DEF LeaseBusy
  <2> QED
    BY <2>1
<1>12. CASE Finish(r)
  <2>1. Idle \in RequestState /\ Idle.pc \notin UnderLease
    BY <1>7 DEF Idle, RequestState
  <2>2. lease' = lease /\ away
    BY <1>12, <2>1, <1>6 DEF Finish
  <2> QED
    BY <2>2
<1> QED
  BY <1>9, <1>10, <1>11, <1>12

LEMMA OutsideLeaseStep ==
  ASSUME PaymentsInv, LeaseHeld, NEW r \in Request,
         CreateStep(r) \/ ProcessStep(r) \/ LeaseBusy(r) \/ Finish(r)
  PROVE  LeaseHeld'
BY OutsideLease, LeaseUntouched

LEMMA UnderLeaseStep ==
  ASSUME PaymentsInv, LeaseHeld, NEW r \in Request,
         \/ ReadUnderLease(r) \/ Publish(r) \/ MarkPublished(r) \/ SyncOrder(r)
         \/ SyncRefused(r) \/ LookAtOrder(r) \/ MarkSynced(r) \/ CallFails(r)
  PROVE  LeaseHeld'
<1> USE DEF rowVars
<1>1. TypeOK
  BY DEF PaymentsInv
<1>2. lease' = lease /\ req[r].pc \in UnderLease
  BY DEF ReadUnderLease, Publish, MarkPublished, SyncOrder, SyncRefused, LookAtOrder, MarkSynced, CallFails, UnderLease
<1>3. CASE ReadUnderLease(r)
  <2> DEFINE p == req[r].pay
             x == [req[r] EXCEPT !.cur = status[p], !.owes = owedOf(p), !.pc = firstOf(owedOf(p))]
  <2>1. req[r] \in RequestState
    BY <1>1 DEF TypeOK
  <2>2. x.pay = p
    BY <2>1 DEF RequestState
  <2>3. req' = [req EXCEPT ![r] = x]
    BY <1>3 DEF ReadUnderLease
  <2> HIDE DEF x
  <2>4. others(r) /\ req'[r].pay = p
    BY <1>1, <2>2, <2>3 DEF TypeOK, others
  <2> QED
    BY <1>2, <2>4, LeaseUntouched
<1>4. CASE Publish(r) \/ MarkPublished(r) \/ SyncOrder(r) \/ MarkSynced(r)
  <2>1. {"markPublished", "markSynced", "release"} \subseteq Steps /\ firstOf(req[r].owes \ {"event"}) \in Steps
    BY DEF firstOf, Steps, Working, UnderLease
  <2>2. others(r) /\ req'[r].pay = req[r].pay
    BY <1>1, <1>4, <2>1, Answered DEF Publish, MarkPublished, SyncOrder, MarkSynced
  <2> QED
    BY <1>2, <2>2, LeaseUntouched
<1>5. CASE SyncRefused(r) \/ LookAtOrder(r) \/ CallFails(r)
  <2>1. {"look", "markSynced"} \subseteq Steps
    BY DEF Steps, Working, UnderLease
  <2>2. others(r) /\ req'[r].pay = req[r].pay
    BY <1>1, <1>5, <2>1, GoTo, Fail DEF SyncRefused, LookAtOrder, CallFails
  <2> QED
    BY <1>2, <2>2, LeaseUntouched
<1> QED
  BY <1>3, <1>4, <1>5

\* A lease is taken only when nobody has it, and given up by its holder.
LEMMA LeaseMovesStep ==
  ASSUME PaymentsInv, LeaseHeld, NEW r \in Request, AcquireLease(r) \/ Release(r) \/ Die(r)
  PROVE  LeaseHeld'
<1> USE DEF LeaseHeld
<1>1. TypeOK /\ req[r] \in RequestState /\ Nobody \notin Request /\ Orphan \notin Request
  BY PaymentsAssumption DEF PaymentsInv, TypeOK
<1>2. \A s \in Request : req[s].pc \in UnderLease => req[s].pay \in Payment
  BY DEF PaymentsInv, RequestInv, Working
<1>3. CASE AcquireLease(r)
  <2>1. others(r) /\ req'[r].pay = req[r].pay
    BY <1>1, <1>3, GoTo DEF AcquireLease, Steps, Working, UnderLease
  <2>2. req[r].pay \in Payment
    BY <1>3 DEF AcquireLease, PaymentsInv, RequestInv, Working
  <2>3. lease'[req[r].pay] = r
    BY <1>1, <1>3, <2>2 DEF AcquireLease, TypeOK
  <2>4. ASSUME NEW s \in Request \ {r}, req'[s].pc \in UnderLease PROVE lease'[req'[s].pay] = s
    BY <1>1, <1>2, <1>3, <2>1, <2>4 DEF AcquireLease, TypeOK, others
  <2> QED
    BY <2>1, <2>3, <2>4
<1>4. CASE Release(r)
  <2> DEFINE next == IF req[r].after = "throw" THEN "error"
                     ELSE IF req[r].op # "prepare" THEN "ok"
                     ELSE IF req[r].cur \in HasEffects THEN "reread" ELSE "claim"
             x == [req[r] EXCEPT !.cur = "NONE", !.owes = {}, !.after = "return", !.pc = next]
  <2>1. next \notin UnderLease
    BY DEF UnderLease
  <2> HIDE DEF next
  <2>2. x.pc \notin UnderLease
    BY <1>1, <2>1 DEF RequestState
  <2>3. req' = [req EXCEPT ![r] = x]
    BY <1>4 DEF Release, next
  <2> HIDE DEF x
  <2>4. others(r) /\ req'[r].pc \notin UnderLease
    BY <1>1, <2>2, <2>3 DEF TypeOK, others
  <2>5. lease[req[r].pay] = r
    BY <1>4 DEF Release, UnderLease
  <2>6. ASSUME NEW s \in Request \ {r}, req'[s].pc \in UnderLease PROVE lease'[req'[s].pay] = s
    BY <1>1, <1>2, <1>4, <2>4, <2>5, <2>6 DEF Release, TypeOK, others
  <2> QED
    BY <2>4, <2>6
<1>5. CASE Die(r)
  <2>1. others(r) /\ req'[r].pc \notin UnderLease
    BY <1>1, <1>5 DEF Die, TypeOK, others, Idle, UnderLease
  <2>2. ASSUME NEW s \in Request \ {r}, req'[s].pc \in UnderLease PROVE lease'[req'[s].pay] = s
    BY <1>1, <1>2, <1>5, <2>1, <2>2 DEF Die, TypeOK, others
  <2> QED
    BY <2>1, <2>2
<1> QED
  BY <1>3, <1>4, <1>5

LEMMA AlwaysHeld ==
  ASSUME "slow" \notin Environment
  PROVE  Spec => []LeaseHeld
<1>1. Init => LeaseHeld
  BY DEF Init, LeaseHeld, Idle, UnderLease
<1>2. PaymentsInv /\ LeaseHeld /\ [Next]_vars => LeaseHeld'
  <2> SUFFICES ASSUME PaymentsInv, LeaseHeld, [Next]_vars PROVE LeaseHeld'
    OBVIOUS
  <2>1. ASSUME NEW r \in Request, RequestStep(r) PROVE LeaseHeld'
    BY <2>1, OutsideLeaseStep, UnderLeaseStep, LeaseMovesStep DEF RequestStep, EffectStep
  <2>2. ASSUME NEW p \in Payment, LeaseExpires(p) PROVE LeaseHeld'
    BY <2>2, PaymentsAssumption DEF LeaseExpires, LeaseHeld, PaymentsInv, TypeOK
  <2>3. CASE UNCHANGED vars \/ ConsumerStep \/ (\E p \in Payment : Refund(p))
             \/ (\E target \in OrderStatus : OthersMove(target))
    BY <2>3 DEF vars, rowVars, ConsumerStep, RecordPaymentStatus, SyncFromEvent, ConsumerDies, Refund, OthersMove, LeaseHeld
  <2> QED
    BY <2>1, <2>2, <2>3 DEF Next
<1> QED
  BY <1>1, <1>2, PaymentsCorrect, PTL DEF Spec

\* One request at a time performs a payment's side effects, whatever fails and
\* whoever dies, as long as none is slower than its lease (completeSideEffects).
THEOREM OneAtATime ==
  ASSUME "slow" \notin Environment
  PROVE  Spec => []EffectsExclusive
<1>1. LeaseHeld => EffectsExclusive
  BY DEF LeaseHeld, EffectsExclusive
<1> QED
  BY <1>1, AlwaysHeld, PTL

-----------------------------------------------------------------------------
(* Outcomes are final *)

\* One step moves one row along the machine, or none.
oneMove ==
  \/ status' = status
  \/ \E p \in Payment, s \in PaymentStatus :
       <<status[p], s>> \in statusMoves /\ status' = [status EXCEPT ![p] = s]

LEMMA StatusSteps ==
  ASSUME PaymentsInv, [Next]_vars
  PROVE  oneMove
<1> USE DEF oneMove, rowVars
<1>1. ASSUME NEW r \in Request, CreateStep(r) PROVE oneMove
  <2>1. CASE \E p \in Payment : Insert(r, p)
    <3>1. PICK p \in Payment : Insert(r, p)
      BY <2>1
    <3>2. "PENDING" \in PaymentStatus /\ <<status[p], "PENDING">> \in statusMoves
      BY <3>1 DEF Insert, statusMoves, PaymentStatus
    <3> QED
      BY <3>1, <3>2 DEF Insert
  <2> QED
    BY <1>1, <2>1 DEF CreateStep, CreateBegin, GetOrder, FindLatest, InsertConflict
<1>2. ASSUME NEW r \in Request, ProcessStep(r) PROVE oneMove
  <2>1. CASE Claim(r)
    <3>1. req[r].pay \in Payment
      BY <2>1, WorkingPayment DEF Claim, Working
    <3>2. "PROCESSING" \in PaymentStatus /\ <<status[req[r].pay], "PROCESSING">> \in statusMoves
      BY <2>1 DEF Claim, statusMoves, PaymentStatus
    <3> QED
      BY <2>1, <3>1, <3>2 DEF Claim
  <2>2. ASSUME NEW outcome \in Settled, Settle(r, outcome) PROVE oneMove
    <3>1. req[r].pay \in Payment
      BY <2>2, WorkingPayment DEF Settle, Working
    <3>2. outcome \in PaymentStatus /\ <<status[req[r].pay], outcome>> \in statusMoves
      BY <2>2 DEF Settle, Settled, statusMoves, PaymentStatus
    <3> QED
      BY <2>2, <3>1, <3>2 DEF Settle
  <2> QED
    BY <1>2, <2>1, <2>2 DEF ProcessStep, ProcessBegin, ClaimLost, Reread
<1>3. ASSUME NEW r \in Request, EffectStep(r) \/ Finish(r) \/ Die(r) PROVE status' = status
  BY <1>3 DEF EffectStep, AcquireLease, LeaseBusy, ReadUnderLease, Publish, MarkPublished, SyncOrder, SyncRefused,
     LookAtOrder, MarkSynced, CallFails, Release, Finish, Die
<1>4. ASSUME NEW p \in Payment, Refund(p) PROVE oneMove
  <2>1. "REFUNDED" \in PaymentStatus /\ <<status[p], "REFUNDED">> \in statusMoves
    BY <1>4 DEF Refund, isTransitionAllowed, PAYMENT_TRANSITIONS, statusMoves, PaymentStatus
  <2> QED
    BY <1>4, <2>1 DEF Refund
<1>5. ASSUME \/ UNCHANGED vars \/ ConsumerStep \/ (\E p \in Payment : LeaseExpires(p))
             \/ (\E target \in OrderStatus : OthersMove(target))
      PROVE  status' = status
  BY <1>5 DEF vars, ConsumerStep, RecordPaymentStatus, SyncFromEvent, ConsumerDies, LeaseExpires, OthersMove
<1> QED
  BY <1>1, <1>2, <1>3, <1>4, <1>5 DEF Next, RequestStep

\* A settled payment stays as it is settled, whatever is retried, races or is
\* refused: only a refund of a completed one moves it (PAYMENT_TRANSITIONS and
\* the compare-and-set of every update).
THEOREM OutcomeIsFinal == Spec => OutcomeFinal
<1> DEFINE final == \A p \in Payment : status[p] \in Settled \cup {"REFUNDED"} =>
                     status'[p] = status[p] \/ (status[p] = "COMPLETED" /\ status'[p] = "REFUNDED")
<1>1. PaymentsInv /\ [Next]_vars => [final]_vars
  <2> SUFFICES ASSUME PaymentsInv, [Next]_vars PROVE final
    OBVIOUS
  <2>1. CASE status' = status
    BY <2>1
  <2>2. ASSUME NEW p \in Payment, NEW s \in PaymentStatus, <<status[p], s>> \in statusMoves,
               status' = [status EXCEPT ![p] = s]
        PROVE  final
    BY <2>2 DEF PaymentsInv, TypeOK, statusMoves, Settled
  <2> QED
    BY <2>1, <2>2, StatusSteps DEF oneMove
<1>2. Spec => [][final]_vars
  BY <1>1, PaymentsCorrect, PTL DEF Spec
<1> QED
  BY <1>2 DEF OutcomeFinal

-----------------------------------------------------------------------------
(* Each event is published once, when no call fails and nobody dies *)

Publishing == {"publish", "markPublished"}

\* What is on the topic of a payment's present status is marked, or about to be
\* by the request that published it, and no later status is on the topic yet.
OnceInv ==
  /\ PublishedOnce
  /\ \A e \in topic : status[e[1]] # "NONE"
  /\ \A r \in Request : req[r].pc \in Publishing /\ <<req[r].pay, status[req[r].pay]>> \in topic
       => req[r].cur = status[req[r].pay]
  /\ \A p \in Payment : <<p, status[p]>> \in topic /\ published[p] # status[p]
       => \E r \in Request : req[r].pc = "markPublished" /\ req[r].pay = p /\ req[r].cur = status[p]

\* A status that is reached by a move is on no topic yet.
LEMMA NewStatus ==
  ASSUME PaymentsInv, OnceInv, NEW p \in Payment, NEW s \in PaymentStatus,
         <<status[p], s>> \in statusMoves
  PROVE  <<p, s>> \notin topic
<1>1. CASE s \in HasEffects
  <2>1. s = "PENDING" => <<p, s>> \notin topic
    <3> SUFFICES ASSUME s = "PENDING", <<p, s>> \in topic PROVE FALSE
      OBVIOUS
    <3>1. status[p] # "NONE"
      BY DEF OnceInv
    <3> QED
      BY <3>1 DEF statusMoves
  <2>2. s # "PENDING" => ~reached(p, s)
    BY <1>1 DEF statusMoves, reached, paid, HasEffects, SIDE_EFFECTS
  <2> QED
    BY <1>1, <2>1, <2>2 DEF PaymentsInv, PublishedTellsTruth
<1>2. CASE s \notin HasEffects
  BY <1>2 DEF PaymentsInv, TypeOK, Event
<1> QED
  BY <1>1, <1>2

\* A step that publishes and marks nothing, and moves no request that does.
LEMMA OnceUntouched ==
  ASSUME PaymentsInv, OnceInv, oneMove, UNCHANGED <<published, topic>>,
         \A r \in Request : req[r].pc \in Publishing \/ req'[r].pc \in Publishing => req'[r] = req[r]
  PROVE  OnceInv'
<1> USE DEF OnceInv
<1>1. \A p \in Payment : status'[p] = status[p] \/ <<p, status'[p]>> \notin topic
  BY NewStatus DEF oneMove, PaymentsInv, TypeOK
<1>2. \A p \in Payment : status[p] # "NONE" => status'[p] # "NONE"
  BY DEF oneMove, PaymentsInv, TypeOK, statusMoves
<1>3. \A e \in topic : e[1] \in Payment
  BY DEF PaymentsInv, TypeOK, Event
<1>4. \A r \in Request : req[r].pc \in Publishing => req[r].pay \in Payment
  BY DEF PaymentsInv, RequestInv, Publishing, Working, UnderLease
<1>5. PublishedOnce'
  BY DEF PublishedOnce, Publishing
<1>6. (\A e \in topic : status[e[1]] # "NONE")'
  BY <1>2, <1>3
<1>7. ASSUME NEW r \in Request, req'[r].pc \in Publishing, <<req'[r].pay, status'[req'[r].pay]>> \in topic'
      PROVE  req'[r].cur = status'[req'[r].pay]
  BY <1>1, <1>4, <1>7
<1>8. ASSUME NEW p \in Payment, <<p, status'[p]>> \in topic', published'[p] # status'[p]
      PROVE  \E r \in Request : req'[r].pc = "markPublished" /\ req'[r].pay = p /\ req'[r].cur = status'[p]
  <2>1. status'[p] = status[p]
    BY <1>1, <1>8
  <2>2. PICK r \in Request : req[r].pc = "markPublished" /\ req[r].pay = p /\ req[r].cur = status[p]
    BY <1>8, <2>1
  <2> QED
    BY <2>1, <2>2 DEF Publishing
<1> QED
  BY <1>5, <1>6, <1>7, <1>8

\* Without faults a call is answered.
LEMMA AnsweredWell ==
  ASSUME TypeOK, "fault" \notin Environment, NEW r \in Request, NEW pc \in Steps, answered(r, pc)
  PROVE  /\ others(r) /\ req'[r].pc = pc /\ req'[r].pay = req[r].pay /\ req'[r].cur = req[r].cur
BY GoTo DEF answered

\* The steps under the lease that neither read, publish nor mark.
LEMMA NotPublishing ==
  ASSUME PaymentsInv, "fault" \notin Environment, NEW r \in Request,
         AcquireLease(r) \/ SyncOrder(r) \/ SyncRefused(r) \/ LookAtOrder(r) \/ MarkSynced(r) \/ Release(r)
  PROVE  others(r) /\ req[r].pc \notin Publishing /\ req'[r].pc \notin Publishing
<1> USE DEF Publishing
<1>1. TypeOK /\ req[r] \in RequestState
  BY DEF PaymentsInv, TypeOK
<1>2. {"read", "markSynced", "look", "release"} \subseteq Steps
  BY DEF Steps, Working, UnderLease
<1>3. CASE AcquireLease(r)
  BY <1>1, <1>2, <1>3, GoTo DEF AcquireLease
<1>4. CASE SyncOrder(r) \/ MarkSynced(r)
  BY <1>1, <1>2, <1>4, AnsweredWell DEF SyncOrder, MarkSynced
<1>5. CASE SyncRefused(r) \/ LookAtOrder(r)
  BY <1>1, <1>2, <1>5, GoTo, Fail DEF SyncRefused, LookAtOrder
<1>6. CASE Release(r)
  <2> DEFINE next == IF req[r].after = "throw" THEN "error"
                     ELSE IF req[r].op # "prepare" THEN "ok"
                     ELSE IF req[r].cur \in HasEffects THEN "reread" ELSE "claim"
             x == [req[r] EXCEPT !.cur = "NONE", !.owes = {}, !.after = "return", !.pc = next]
  <2>1. next \notin Publishing
    OBVIOUS
  <2> HIDE DEF next
  <2>2. x.pc \notin Publishing
    BY <1>1, <2>1 DEF RequestState
  <2>3. req' = [req EXCEPT ![r] = x]
    BY <1>6 DEF Release, next
  <2> HIDE DEF x
  <2> QED
    BY <1>1, <1>6, <2>2, <2>3 DEF TypeOK, others, Release
<1> QED
  BY <1>3, <1>4, <1>5, <1>6

LEMMA QuietRequest ==
  ASSUME NEW r \in Request, others(r), req[r].pc \notin Publishing, req'[r].pc \notin Publishing
  PROVE  \A s \in Request : req[s].pc \in Publishing \/ req'[s].pc \in Publishing => req'[s] = req[s]
BY DEF others

\* Under the lease nobody else is about to mark what is read as still owed.
LEMMA OnceRead ==
  ASSUME PaymentsInv, EffectsExclusive, OnceInv, NEW r \in Request, ReadUnderLease(r)
  PROVE  OnceInv'
<1> DEFINE p == req[r].pay
           x == [req[r] EXCEPT !.cur = status[p], !.owes = owedOf(p), !.pc = firstOf(owedOf(p))]
<1> USE DEF OnceInv, Publishing
<1>1. TypeOK /\ req[r] \in RequestState /\ req[r].pc = "read" /\ p \in Payment
  BY DEF ReadUnderLease, PaymentsInv, TypeOK, RequestInv, Working, UnderLease
<1>2. x.pc = firstOf(owedOf(p)) /\ x.cur = status[p] /\ x.pay = p
  BY <1>1 DEF RequestState
<1>3. req' = [req EXCEPT ![r] = x]
  BY DEF ReadUnderLease
<1> HIDE DEF x
<1>4. others(r) /\ req'[r] = x
  BY <1>1, <1>3 DEF TypeOK, others
<1>5. UNCHANGED <<status, published, topic>>
  BY DEF ReadUnderLease, rowVars
<1>6. firstOf(owedOf(p)) # "markPublished"
  BY DEF firstOf
<1>7. firstOf(owedOf(p)) = "publish" => published[p] # status[p]
  BY DEF firstOf, owedOf
<1>8. firstOf(owedOf(p)) = "publish" => <<p, status[p]>> \notin topic
  <2> SUFFICES ASSUME published[p] # status[p], <<p, status[p]>> \in topic PROVE FALSE
    BY <1>7
  <2>1. PICK s \in Request : req[s].pc = "markPublished" /\ req[s].pay = p
    BY <1>1
  <2> QED
    BY <1>1, <2>1 DEF EffectsExclusive, UnderLease
<1>9. PublishedOnce'
  BY <1>2, <1>4, <1>5, <1>8 DEF PublishedOnce, others
<1>10. ASSUME NEW s \in Request, req'[s].pc \in Publishing, <<req'[s].pay, status'[req'[s].pay]>> \in topic'
       PROVE  req'[s].cur = status'[req'[s].pay]
  BY <1>2, <1>4, <1>5, <1>10 DEF others
<1>11. ASSUME NEW q \in Payment, <<q, status'[q]>> \in topic', published'[q] # status'[q]
       PROVE  \E s \in Request : req'[s].pc = "markPublished" /\ req'[s].pay = q /\ req'[s].cur = status'[q]
  <2>1. PICK s \in Request : req[s].pc = "markPublished" /\ req[s].pay = q /\ req[s].cur = status[q]
    BY <1>5, <1>11
  <2>2. s # r
    BY <1>1, <2>1
  <2> QED
    BY <1>4, <1>5, <2>1, <2>2 DEF others
<1> QED
  BY <1>5, <1>9, <1>10, <1>11

LEMMA OncePublish ==
  ASSUME PaymentsInv, EffectsExclusive, OnceInv, "fault" \notin Environment, NEW r \in Request, Publish(r)
  PROVE  OnceInv'
<1> DEFINE p == req[r].pay
<1> USE DEF OnceInv, Publishing
<1>1. TypeOK /\ req[r].pc = "publish" /\ p \in Payment /\ status[p] # "NONE"
  BY DEF Publish, PaymentsInv, RequestInv, Working, UnderLease
<1>2. "markPublished" \in Steps
  BY DEF Steps, Working, UnderLease
<1>3. others(r) /\ req'[r].pc = "markPublished" /\ req'[r].pay = p /\ req'[r].cur = req[r].cur
  BY <1>1, <1>2, AnsweredWell DEF Publish
<1>4. UNCHANGED <<status, published>> /\ topic' = topic \cup {<<p, req[r].cur>>}
  BY DEF Publish, rowVars
<1>5. \A s \in Request \ {r} : req[s].pc \in Publishing => req[s].pay # p
  BY <1>1 DEF EffectsExclusive, UnderLease
<1>6. PublishedOnce'
  BY <1>3, <1>4, <1>5 DEF PublishedOnce, others
<1>7. (\A e \in topic : status[e[1]] # "NONE")'
  BY <1>1, <1>4
<1>8. ASSUME NEW s \in Request, req'[s].pc \in Publishing, <<req'[s].pay, status'[req'[s].pay]>> \in topic'
      PROVE  req'[s].cur = status'[req'[s].pay]
  <2>1. CASE s = r
    BY <1>1, <1>3, <1>4, <1>8, <2>1
  <2>2. CASE s # r
    BY <1>3, <1>4, <1>5, <1>8, <2>2 DEF others
  <2> QED
    BY <2>1, <2>2
<1>9. ASSUME NEW q \in Payment, <<q, status'[q]>> \in topic', published'[q] # status'[q]
      PROVE  \E s \in Request : req'[s].pc = "markPublished" /\ req'[s].pay = q /\ req'[s].cur = status'[q]
  <2>1. CASE <<q, status[q]>> = <<p, req[r].cur>>
    BY <1>3, <1>4, <2>1
  <2>2. CASE <<q, status[q]>> \in topic
    <3>1. PICK s \in Request : req[s].pc = "markPublished" /\ req[s].pay = q /\ req[s].cur = status[q]
      BY <1>4, <1>9, <2>2
    <3>2. s # r
      BY <1>1, <3>1
    <3> QED
      BY <1>3, <1>4, <3>1, <3>2 DEF others
  <2> QED
    BY <1>4, <1>9, <2>1, <2>2
<1> QED
  BY <1>6, <1>7, <1>8, <1>9

LEMMA OnceMark ==
  ASSUME PaymentsInv, EffectsExclusive, OnceInv, "fault" \notin Environment, NEW r \in Request, MarkPublished(r)
  PROVE  OnceInv'
<1> DEFINE p == req[r].pay
           next == firstOf(req[r].owes \ {"event"})
<1> USE DEF OnceInv, Publishing
<1>1. TypeOK /\ req[r].pc = "markPublished" /\ p \in Payment
  BY DEF MarkPublished, PaymentsInv, RequestInv, Working, UnderLease
<1>2. next \in Steps /\ next \notin Publishing
  BY DEF firstOf, Steps, Working, UnderLease
<1> HIDE DEF next
<1>3. others(r) /\ req'[r].pc \notin Publishing
  BY <1>1, <1>2, AnsweredWell DEF MarkPublished, next
<1>4. UNCHANGED <<status, topic>> /\ published' = [published EXCEPT ![p] = req[r].cur]
  BY DEF MarkPublished
<1>5. <<p, status[p]>> \in topic => published'[p] = status[p]
  BY <1>1, <1>4 DEF TypeOK
<1>6. PublishedOnce'
  BY <1>3, <1>4 DEF PublishedOnce, others
<1>7. ASSUME NEW s \in Request, req'[s].pc \in Publishing, <<req'[s].pay, status'[req'[s].pay]>> \in topic'
      PROVE  req'[s].cur = status'[req'[s].pay]
  BY <1>3, <1>4, <1>7 DEF others
<1>8. ASSUME NEW q \in Payment, <<q, status'[q]>> \in topic', published'[q] # status'[q]
      PROVE  \E s \in Request : req'[s].pc = "markPublished" /\ req'[s].pay = q /\ req'[s].cur = status'[q]
  <2>1. q # p
    BY <1>4, <1>5, <1>8
  <2>2. PICK s \in Request : req[s].pc = "markPublished" /\ req[s].pay = q /\ req[s].cur = status[q]
    BY <1>1, <1>4, <1>8, <2>1 DEF TypeOK
  <2> QED
    BY <1>3, <1>4, <2>1, <2>2 DEF others
<1> QED
  BY <1>4, <1>6, <1>7, <1>8

LEMMA OnceRequestStep ==
  ASSUME PaymentsInv, EffectsExclusive, OnceInv, "fault" \notin Environment, oneMove,
         NEW r \in Request, RequestStep(r)
  PROVE  OnceInv'
<1> USE DEF rowVars
<1>1. CASE CreateStep(r) \/ ProcessStep(r) \/ LeaseBusy(r) \/ Finish(r)
  <2>1. others(r) /\ req'[r].pc \notin Publishing
    BY <1>1, OutsideLease DEF Publishing, UnderLease
  <2>2. req[r].pc \notin Publishing
    <3>1. CASE req[r] = Idle
      BY <3>1 DEF Idle, Publishing
    <3>2. CASE req[r].pc \in {"order", "latest", "insert", "claim", "settle", "reread", "lease"} \cup Answers
      BY <3>2 DEF Publishing, Answers
    <3>3. CreateStep(r) => req[r] = Idle \/ req[r].pc \in {"order", "latest", "insert"}
      BY DEF CreateStep, CreateBegin, GetOrder, FindLatest, Insert, InsertConflict
    <3>4. ProcessStep(r) => req[r] = Idle \/ req[r].pc \in {"claim", "settle", "reread"}
      BY DEF ProcessStep, ProcessBegin, Claim, ClaimLost, Settle, Reread
    <3> QED
      BY <1>1, <3>1, <3>2, <3>3, <3>4 DEF LeaseBusy, Finish
  <2>3. UNCHANGED <<published, topic>>
    BY <1>1 DEF CreateStep, CreateBegin, GetOrder, FindLatest, Insert, InsertConflict, ProcessStep, ProcessBegin, Claim,
      ClaimLost, Settle, Reread, LeaseBusy, Finish
  <2> QED
    BY <2>1, <2>2, <2>3, QuietRequest, OnceUntouched
<1>2. CASE AcquireLease(r) \/ SyncOrder(r) \/ SyncRefused(r) \/ LookAtOrder(r) \/ MarkSynced(r) \/ Release(r)
  <2>1. UNCHANGED <<published, topic>>
    BY <1>2 DEF AcquireLease, SyncOrder, SyncRefused, LookAtOrder, MarkSynced, Release
  <2> QED
    BY <1>2, <2>1, NotPublishing, QuietRequest, OnceUntouched
<1>3. ~CallFails(r) /\ ~Die(r)
  BY DEF CallFails, Die
<1> QED
  BY <1>1, <1>2, <1>3, OnceRead, OncePublish, OnceMark DEF RequestStep, EffectStep

\* When no call fails, nobody dies and nobody outlives its lease, each event is
\* published once, however many requests are owed it and even while support
\* refunds: what is read under the lease is what is left (completeSideEffects).
THEOREM EachPublishedOnce ==
  ASSUME {"fault", "slow"} \cap Environment = {}
  PROVE  Spec => []PublishedOnce
<1>1. Init => OnceInv
  BY DEF Init, OnceInv, PublishedOnce, Publishing, Idle
<1>2. PaymentsInv /\ EffectsExclusive /\ OnceInv /\ [Next]_vars => OnceInv'
  <2> SUFFICES ASSUME PaymentsInv, EffectsExclusive, OnceInv, [Next]_vars PROVE OnceInv'
    OBVIOUS
  <2>1. oneMove
    BY StatusSteps
  <2>2. ASSUME NEW r \in Request, RequestStep(r) PROVE OnceInv'
    BY <2>1, <2>2, OnceRequestStep
  <2>3. ASSUME \/ UNCHANGED vars \/ ConsumerStep \/ (\E p \in Payment : Refund(p) \/ LeaseExpires(p))
               \/ (\E target \in OrderStatus : OthersMove(target))
        PROVE  OnceInv'
    <3>1. UNCHANGED <<published, topic, req>>
      BY <2>3 DEF vars, rowVars, ConsumerStep, RecordPaymentStatus, SyncFromEvent, ConsumerDies, Refund, LeaseExpires,
        OthersMove
    <3> QED
      BY <2>1, <3>1, OnceUntouched
  <2> QED
    BY <2>2, <2>3 DEF Next
<1>3. OnceInv => PublishedOnce
  BY DEF OnceInv
<1>4. Spec => []EffectsExclusive
  BY OneAtATime
<1> QED
  BY <1>1, <1>2, <1>3, <1>4, PaymentsCorrect, PTL DEF Spec
=============================================================================
