---------------------------- MODULE ViewsProofs -----------------------------
(***************************************************************************)
(* Proofs about what a customer is shown: the cached documents of the menu   *)
(* (Catalog), its categories (Categories) and an item's images (Images), the *)
(* stream of a delivery (Tracking), the freshness of a position (Freshness)  *)
(* and the pages of a listing (Listing), for any number of requests,         *)
(* reports, delays and rows.                                                 *)
(*                                                                           *)
(* Whatever a request wrote is among the documents it has yet to drop.  A    *)
(* reorder's rows are locked, so the last list committed is what is there or *)
(* what a rollback returns to, and a deletion that counted no item leaves    *)
(* none but those that strayed in.  No image's position exceeds the number   *)
(* of transactions that are over.  An open stream is behind its delivery     *)
(* only while something is under way that reloads it.  The timer that calls  *)
(* a position stale covers the position shown, by arithmetic of division.    *)
(* Rows that stay as they are have ranks of their own, so a row that leaves  *)
(* carries at most one of them over the border of a page.                    *)
(***************************************************************************)
EXTENDS Catalog, Categories, Images, Tracking, Freshness, Listing, SetProofs

-----------------------------------------------------------------------------
(* The cached documents (Catalog) *)

AnyCopy == {Miss, NoItem} \cup RestaurantStatus \cup MenuItem
Call == [pc : {"idle", "get", "fetch", "set", "write", "drop"}, doc : Document,
         want : {"read"} \cup RestaurantStatus \cup Edit, admin : BOOLEAN, copy : AnyCopy, drops : Seq(Document)]

\* A request writes the row its document shows, and fetched what it stores.
CallHolds(x) ==
  /\ x.copy \in {Miss} \cup Copy(x.doc)
  /\ x.drops # <<>> <=> x.pc = "drop"
  /\ x.want \in RestaurantStatus => x.doc = "restaurant"
  /\ x.want \in Edit => x.doc = "menuitem"
  /\ x.pc = "set" => x.copy \in Copy(x.doc)
  /\ x.pc = "write" => x.want # "read"

CatalogIInv ==
  /\ restaurant \in RestaurantStatus /\ item \in MenuItem /\ overtaken \subseteq Document
  /\ cached \in [Document -> AnyCopy] /\ \A d \in Document : cached[d] \in {Miss} \cup Copy(d)
  /\ call \in [Client -> Call] /\ \A c \in Client : CallHolds(call[c])
  /\ CacheTellsTruth

LEMMA IdleCall == 
  /\ CallIdle \in Call /\ CallHolds(CallIdle) /\ CallIdle.drops = <<>> /\ CallIdle.pc = "idle"
  /\ CallIdle.copy = Miss
BY DEF CallIdle, Call, CallHolds, Document, AnyCopy, RestaurantStatus, Edit

LEMMA Truths ==
  ASSUME CatalogIInv, NEW d \in Document
  PROVE  truth(d) \in Copy(d)
BY DEF CatalogIInv, truth, Copy, Document

LEMMA Copies == \A d \in Document : Copy(d) \subseteq AnyCopy
BY DEF Copy, Document, AnyCopy

LEMMA DropsWhat ==
  ASSUME NEW want \in RestaurantStatus \cup Edit
  PROVE  /\ drops(want) \in Seq(Document) /\ drops(want) # <<>>
         /\ want \in RestaurantStatus => ToSet(drops(want)) = {"restaurant"}
         /\ want \in Edit => ToSet(drops(want)) = {"menu", "menuitem"}
<1>1. CASE want \in RestaurantStatus
  <2>1. drops(want) = <<"restaurant">> /\ want \notin Edit
    BY <1>1 DEF drops, RestaurantStatus, Edit
  <2>2. ToSet(<<"restaurant">>) = {"restaurant"} /\ <<"restaurant">> \in Seq(Document) /\ <<"restaurant">> # <<>>
    BY DEF ToSet, Document
  <2> QED
    BY <2>1, <2>2
<1>2. CASE want \in Edit
  <2>1. drops(want) = <<"menu", "menuitem">> /\ want \notin RestaurantStatus
    BY <1>2 DEF drops, RestaurantStatus, Edit
  <2>2. <<"menu", "menuitem">> \in Seq(Document) /\ <<"menu", "menuitem">> # <<>>
    BY DEF Document
  <2>3. PICK q : q = <<"menu", "menuitem">>
    OBVIOUS
  <2>4. DOMAIN q = 1..2 /\ q[1] = "menu" /\ q[2] = "menuitem" /\ \A i \in 1..2 : i = 1 \/ i = 2
    BY <2>3
  <2>5. ToSet(q) = {"menu", "menuitem"}
    BY <2>4 DEF ToSet
  <2> QED
    BY <2>1, <2>2, <2>3, <2>5
<1> QED
  BY <1>1, <1>2

LEMMA CatalogStart == CatalogInit => CatalogIInv
<1> SUFFICES ASSUME CatalogInit PROVE CatalogIInv
  OBVIOUS
<1>1. restaurant \in RestaurantStatus /\ item \in MenuItem /\ overtaken = {}
  BY DEF CatalogInit, RestaurantStatus, MenuItem
<1>2. cached \in [Document -> AnyCopy] /\ \A d \in Document : cached[d] = Miss
  BY DEF CatalogInit, AnyCopy
<1>3. call \in [Client -> Call] /\ \A c \in Client : CallHolds(call[c])
  BY IdleCall DEF CatalogInit
<1>4. CacheTellsTruth
  BY <1>2 DEF CacheTellsTruth
<1> QED
  BY <1>1, <1>2, <1>3, <1>4 DEF CatalogIInv

-----------------------------------------------------------------------------
\* A request goes on without touching the rows or the documents.
LEMMA CallGoesOn ==
  ASSUME CatalogIInv, NEW c \in Client, NEW x \in Call, CallHolds(x), call' = [call EXCEPT ![c] = x],
         call[c].pc # "drop", UNCHANGED <<restaurant, item, cached, overtaken>>
  PROVE  CatalogIInv'
<1>1. /\ call' \in [Client -> Call] /\ call'[c] = x /\ \A b \in Client \ {c} : call'[b] = call[b]
      /\ call[c].drops = <<>>
  BY DEF CatalogIInv, CallHolds
<1>2. \A b \in Client : CallHolds(call'[b])
  BY <1>1 DEF CatalogIInv
<1>3. ASSUME NEW d \in Document \ overtaken
      PROVE  cached[d] \in {Miss, truth(d)} \/ \E b \in Client : d \in ToSet(call'[b].drops)
  <2>1. \A b \in Client : d \in ToSet(call[b].drops) => b # c
    BY <1>1 DEF ToSet
  <2> QED
    BY <1>1, <2>1 DEF CatalogIInv, CacheTellsTruth
<1>4. CacheTellsTruth'
  BY <1>3 DEF CacheTellsTruth, truth
<1> QED
  BY <1>1, <1>2, <1>4 DEF CatalogIInv, CallHolds

LEMMA CallsStep ==
  ASSUME CatalogIInv, NEW c \in Client, NEW doc \in Document, NEW admin \in BOOLEAN,
         NEW want \in {"read"} \cup RestaurantStatus \cup Edit,
         want \in RestaurantStatus => doc = "restaurant", want \in Edit => doc = "menuitem",
         calls(c, doc, want, admin)
  PROVE  CatalogIInv'
<1>1. PICK x : x = [CallIdle EXCEPT !.pc = "get", !.doc = doc, !.want = want, !.admin = admin]
  OBVIOUS
<1>2. x \in Call /\ x.pc = "get" /\ x.doc = doc /\ x.want = want /\ x.copy = Miss /\ x.drops = <<>>
  BY <1>1, IdleCall DEF Call
<1>3. CallHolds(x)
  BY <1>2 DEF CallHolds
<1>4. call[c].pc = "idle" /\ call' = [call EXCEPT ![c] = x] /\ UNCHANGED <<restaurant, item, cached, overtaken>>
  BY <1>1 DEF calls
<1> QED
  BY <1>2, <1>3, <1>4, CallGoesOn

LEMMA Judgement ==
  ASSUME CatalogIInv, NEW c \in Client, call[c].pc # "drop", NEW copy \in Copy(call[c].doc)
  PROVE  judged(c, copy) \in Call /\ CallHolds(judged(c, copy))
<1>1. PICK x : x = call[c]
  OBVIOUS
<1>2. x \in Call /\ CallHolds(x) /\ x.drops = <<>> /\ x.want \in {"read"} \cup RestaurantStatus \cup Edit
      /\ x.copy \in AnyCopy
  BY <1>1 DEF CatalogIInv, Call, CallHolds
<1>3. CASE x.want = "read" \/ refused(x.want, x.admin, copy)
  <2>1. ~(x.want = "archiveItem" /\ copy.archived)
    BY <1>3 DEF refused
  <2>2. judged(c, copy) = CallIdle
    BY <1>1, <1>3, <2>1 DEF judged
  <2> QED
    BY <2>2, IdleCall
<1>4. CASE ~(x.want = "read" \/ refused(x.want, x.admin, copy)) /\ x.want = "archiveItem" /\ copy.archived
  <2>1. PICK q : q = drops(x.want)
    OBVIOUS
  <2>2. q \in Seq(Document) /\ q # <<>>
    BY <1>4, <2>1, DropsWhat DEF Edit
  <2>3. PICK y : y = [x EXCEPT !.pc = "drop", !.copy = Miss, !.drops = q]
    OBVIOUS
  <2>4. y = judged(c, copy)
    BY <1>1, <1>4, <2>1, <2>3 DEF judged
  <2>5. y \in Call /\ y.pc = "drop" /\ y.copy = Miss /\ y.drops = q /\ y.doc = x.doc /\ y.want = x.want
    BY <1>2, <2>2, <2>3 DEF Call, AnyCopy
  <2>6. CallHolds(y)
    BY <1>2, <2>2, <2>5 DEF CallHolds
  <2> QED
    BY <2>4, <2>5, <2>6
<1>5. CASE ~(x.want = "read" \/ refused(x.want, x.admin, copy)) /\ ~(x.want = "archiveItem" /\ copy.archived)
  <2>1. PICK y : y = [x EXCEPT !.pc = "write", !.copy = Miss]
    OBVIOUS
  <2>2. y = judged(c, copy)
    BY <1>1, <1>5, <2>1 DEF judged
  <2>3. y \in Call /\ y.pc = "write" /\ y.copy = Miss /\ y.drops = <<>> /\ y.doc = x.doc /\ y.want = x.want
    BY <1>2, <2>1 DEF Call, AnyCopy
  <2>4. CallHolds(y)
    BY <1>2, <1>5, <2>3 DEF CallHolds
  <2> QED
    BY <2>2, <2>3, <2>4
<1> QED
  BY <1>3, <1>4, <1>5

LEMMA LookSteps ==
  ASSUME CatalogIInv, NEW c \in Client, Get(c) \/ FetchRow(c)
  PROVE  CatalogIInv'
<1>1. UNCHANGED <<restaurant, item, cached, overtaken>>
  BY DEF Get, FetchRow
<1>2. call[c] \in Call /\ CallHolds(call[c])
  BY DEF CatalogIInv
<1>3. CASE Get(c)
  <2>1. PICK copy : copy = cached[call[c].doc]
    OBVIOUS
  <2>2. call[c].pc = "get" /\ call[c].drops = <<>> /\ call[c].doc \in Document
    BY <1>2, <1>3 DEF Get, CallHolds, Call
  <2>3. CASE copy = Miss
    <3> DEFINE x == [call[c] EXCEPT !.pc = "fetch"]
    <3>1. call' = [call EXCEPT ![c] = x]
      BY <1>3, <2>1, <2>3 DEF Get
    <3>2. x \in Call /\ x.pc = "fetch" /\ x.doc = call[c].doc /\ x.want = call[c].want
          /\ x.copy = call[c].copy /\ x.drops = call[c].drops
      BY <1>2 DEF Call
    <3> HIDE DEF x
    <3>3. CallHolds(x)
      BY <1>2, <2>2, <3>2 DEF CallHolds
    <3> QED
      BY <1>1, <2>2, <3>1, <3>2, <3>3, CallGoesOn
  <2>4. CASE copy # Miss
    <3>1. copy \in Copy(call[c].doc)
      BY <2>1, <2>2, <2>4 DEF CatalogIInv
    <3>2. call' = [call EXCEPT ![c] = judged(c, copy)]
      BY <1>3, <2>1, <2>4 DEF Get
    <3> QED
      BY <1>1, <2>2, <3>1, <3>2, Judgement, CallGoesOn
  <2> QED
    BY <2>3, <2>4
<1>4. CASE FetchRow(c)
  <2>1. PICK copy : copy = truth(call[c].doc)
    OBVIOUS
  <2>2. call[c].pc = "fetch" /\ call[c].drops = <<>> /\ call[c].doc \in Document
    BY <1>2, <1>4 DEF FetchRow, CallHolds, Call
  <2>3. copy \in Copy(call[c].doc) /\ copy \in AnyCopy
    BY <2>1, <2>2, Truths, Copies
  <2> DEFINE x == [call[c] EXCEPT !.pc = "set", !.copy = copy]
  <2>4. call' = [call EXCEPT ![c] = x]
    BY <1>4, <2>1 DEF FetchRow
  <2>5. x \in Call /\ x.pc = "set" /\ x.doc = call[c].doc /\ x.want = call[c].want
        /\ x.copy = copy /\ x.drops = call[c].drops
    BY <1>2, <2>3 DEF Call
  <2> HIDE DEF x
  <2>6. CallHolds(x)
    BY <1>2, <2>2, <2>3, <2>5 DEF CallHolds
  <2> QED
    BY <1>1, <2>2, <2>4, <2>5, <2>6, CallGoesOn
<1> QED
  BY <1>3, <1>4

\* One document is stored, dropped or expires.
LEMMA OneDocument ==
  ASSUME CatalogIInv, NEW d \in Document, NEW copy \in AnyCopy, copy \in {Miss} \cup Copy(d),
         cached' = [cached EXCEPT ![d] = copy], UNCHANGED <<restaurant, item>>,
         overtaken' \subseteq Document, overtaken' \ {d} = overtaken \ {d},
         d \in overtaken' \/ copy \in {Miss, truth(d)},
         call' \in [Client -> Call], \A c \in Client : CallHolds(call'[c]),
         \A c \in Client, e \in Document \ {d} : e \in ToSet(call[c].drops) => e \in ToSet(call'[c].drops)
  PROVE  CatalogIInv'
<1>1. /\ cached' \in [Document -> AnyCopy] /\ cached'[d] = copy
      /\ \A e \in Document \ {d} : cached'[e] = cached[e]
  BY DEF CatalogIInv
<1>2. \A e \in Document : cached'[e] \in {Miss} \cup Copy(e)
  BY <1>1 DEF CatalogIInv
<1>3. ASSUME NEW e \in Document \ overtaken'
      PROVE  cached'[e] \in {Miss, truth(e)} \/ \E c \in Client : e \in ToSet(call'[c].drops)
  <2>1. CASE e = d
    BY <1>1, <2>1
  <2>2. CASE e # d
    <3>1. cached[e] \in {Miss, truth(e)} \/ \E c \in Client : e \in ToSet(call[c].drops)
      BY <2>2 DEF CatalogIInv, CacheTellsTruth
    <3> QED
      BY <1>1, <2>2, <3>1
  <2> QED
    BY <2>1, <2>2
<1>4. CacheTellsTruth'
  BY <1>3 DEF CacheTellsTruth, truth
<1> QED
  BY <1>1, <1>2, <1>4 DEF CatalogIInv, CallHolds

LEMMA SetStep ==
  ASSUME CatalogIInv, NEW c \in Client, Set(c)
  PROVE  CatalogIInv'
<1>1. PICK d, copy : d = call[c].doc /\ copy = call[c].copy
  OBVIOUS
<1>2. /\ call[c].pc = "set" /\ cached' = [cached EXCEPT ![d] = copy]
      /\ overtaken' = IF copy = truth(d) THEN overtaken \ {d} ELSE overtaken \cup {d}
      /\ call' = [call EXCEPT ![c] = judged(c, copy)] /\ UNCHANGED <<restaurant, item>>
  BY <1>1 DEF Set
<1>3. d \in Document /\ copy \in Copy(d) /\ copy \in AnyCopy /\ call[c].drops = <<>>
  BY <1>1, <1>2, Copies DEF CatalogIInv, Call, CallHolds
<1>4. PICK x : x = judged(c, copy)
  OBVIOUS
<1>5. x \in Call /\ CallHolds(x)
  BY <1>1, <1>2, <1>3, <1>4, Judgement
<1>6. call' \in [Client -> Call] /\ \A b \in Client : call'[b] = IF b = c THEN x ELSE call[b]
  BY <1>2, <1>4, <1>5 DEF CatalogIInv
<1>7. \A b \in Client : CallHolds(call'[b])
  BY <1>5, <1>6 DEF CatalogIInv
<1>8. ToSet(call[c].drops) = {}
  BY <1>3 DEF ToSet
<1>9. \A b \in Client, e \in Document \ {d} : e \in ToSet(call[b].drops) => e \in ToSet(call'[b].drops)
  BY <1>6, <1>8
<1>10. overtaken' \subseteq Document /\ overtaken' \ {d} = overtaken \ {d} /\ (d \in overtaken' \/ copy = truth(d))
  BY <1>2, <1>3 DEF CatalogIInv
<1> QED
  BY <1>2, <1>3, <1>6, <1>7, <1>9, <1>10, OneDocument

LEMMA ExpireStep ==
  ASSUME CatalogIInv, NEW d \in Document, Expire(d)
  PROVE  CatalogIInv'
<1>1. /\ cached' = [cached EXCEPT ![d] = Miss] /\ overtaken' = overtaken \ {d}
      /\ UNCHANGED <<restaurant, item, call>>
  BY DEF Expire
<1>2. call' \in [Client -> Call] /\ \A c \in Client : CallHolds(call'[c])
  BY <1>1 DEF CatalogIInv
<1>3. overtaken' \subseteq Document /\ overtaken' \ {d} = overtaken \ {d} /\ Miss \in AnyCopy
  BY <1>1 DEF CatalogIInv, AnyCopy
<1> QED
  BY <1>1, <1>2, <1>3, OneDocument

\* Dropping a document leaves the others to be dropped.
LEMMA Dropped ==
  ASSUME NEW q \in Seq(Document), q # <<>>
  PROVE  /\ Head(q) \in Document /\ Tail(q) \in Seq(Document) /\ Len(q) \in Nat \ {0}
         /\ Len(q) = 1 <=> Tail(q) = <<>>
         /\ \A e \in ToSet(q) : e = Head(q) \/ e \in ToSet(Tail(q))
<1> DEFINE t == Tail(q)
<1>1. Len(q) \in Nat \ {0} /\ DOMAIN q = 1..Len(q) /\ Head(q) = q[1] /\ q[1] \in Document
  OBVIOUS
<1>2. t \in Seq(Document) /\ Len(t) = Len(q) - 1 /\ DOMAIN t = 1..(Len(q) - 1)
      /\ \A i \in 1..(Len(q) - 1) : t[i] = q[i + 1]
  BY <1>1
<1>3. ASSUME NEW i \in 1..Len(q) PROVE q[i] = Head(q) \/ q[i] \in ToSet(t)
  <2>1. CASE i = 1
    BY <1>1, <2>1
  <2>2. CASE i # 1
    <3>1. PICK j : j = i - 1
      OBVIOUS
    <3>2. j \in DOMAIN t /\ t[j] = q[i]
      BY <1>1, <1>2, <2>2, <3>1
    <3> QED
      BY <3>2 DEF ToSet
  <2> QED
    BY <2>1, <2>2
<1>4. \A e \in ToSet(q) : e = Head(q) \/ e \in ToSet(t)
  BY <1>1, <1>3 DEF ToSet
<1>5. Len(q) = 1 <=> t = <<>>
  <2> HIDE DEF t
  <2>1. Len(t) = 0 <=> t = <<>>
    BY <1>2
  <2> QED
    BY <1>1, <1>2, <2>1
<1> QED
  BY <1>1, <1>2, <1>4, <1>5

LEMMA DropStep ==
  ASSUME CatalogIInv, NEW c \in Client, Drop(c)
  PROVE  CatalogIInv'
<1>1. PICK q, d : q = call[c].drops /\ d = Head(q)
  OBVIOUS
<1>2. /\ call[c].pc = "drop" /\ cached' = [cached EXCEPT ![d] = Miss] /\ overtaken' = overtaken \ {d}
      /\ UNCHANGED <<restaurant, item>>
      /\ call' = IF Len(q) = 1 THEN [call EXCEPT ![c] = CallIdle] ELSE [call EXCEPT ![c].drops = Tail(@)]
  BY <1>1 DEF Drop, hangUp
<1>3. call[c] \in Call /\ CallHolds(call[c]) /\ q \in Seq(Document) /\ q # <<>>
  BY <1>1, <1>2 DEF CatalogIInv, Call, CallHolds
<1>4. PICK x : x = IF Len(q) = 1 THEN CallIdle ELSE [call[c] EXCEPT !.drops = Tail(q)]
  OBVIOUS
<1>5. call' = [call EXCEPT ![c] = x]
  BY <1>1, <1>2, <1>4
<1>6. x \in Call /\ CallHolds(x) /\ x.drops = Tail(q)
  <2>1. CASE Len(q) = 1
    BY <1>3, <1>4, <2>1, IdleCall, Dropped
  <2>2. CASE Len(q) # 1
    <3>1. Tail(q) \in Seq(Document) /\ Tail(q) # <<>>
      BY <1>3, <2>2, Dropped
    <3>2. x = [call[c] EXCEPT !.drops = Tail(q)]
      BY <1>4, <2>2
    <3>3. x \in Call /\ x.drops = Tail(q) /\ x.pc = call[c].pc /\ x.doc = call[c].doc
          /\ x.want = call[c].want /\ x.copy = call[c].copy
      BY <1>3, <3>1, <3>2 DEF Call
    <3> QED
      BY <1>2, <1>3, <3>1, <3>3 DEF CallHolds
  <2> QED
    BY <2>1, <2>2
<1>7. call' \in [Client -> Call] /\ \A b \in Client : call'[b] = IF b = c THEN x ELSE call[b]
  BY <1>5, <1>6 DEF CatalogIInv
<1>8. \A b \in Client : CallHolds(call'[b])
  BY <1>6, <1>7 DEF CatalogIInv
<1>9. ASSUME NEW b \in Client, NEW e \in Document \ {d}, e \in ToSet(call[b].drops)
      PROVE  e \in ToSet(call'[b].drops)
  <2>1. CASE b # c
    BY <1>7, <1>9, <2>1
  <2>2. CASE b = c
    <3>1. e \in ToSet(Tail(q))
      BY <1>1, <1>3, <1>9, <2>2, Dropped
    <3> QED
      BY <1>6, <1>7, <2>2, <3>1
  <2> QED
    BY <2>1, <2>2
<1>10. d \in Document /\ overtaken' \subseteq Document /\ overtaken' \ {d} = overtaken \ {d} /\ Miss \in AnyCopy
  BY <1>1, <1>2, <1>3, Dropped DEF CatalogIInv, AnyCopy
<1> QED
  BY <1>2, <1>7, <1>8, <1>9, <1>10, OneDocument

\* The documents it had yet to drop are left by a writer that died.
LEMMA AbandonStep ==
  ASSUME CatalogIInv, NEW c \in Client, Abandon(c)
  PROVE  CatalogIInv'
<1>1. PICK q : q = call[c].drops
  OBVIOUS
<1>2. /\ overtaken' = overtaken \cup {d \in ToSet(q) : cached[d] # Miss}
      /\ call' = [call EXCEPT ![c] = CallIdle] /\ UNCHANGED <<restaurant, item, cached>>
  BY <1>1 DEF Abandon, hangUp
<1>3. ToSet(q) \subseteq Document
  BY <1>1 DEF CatalogIInv, Call, ToSet
<1>4. call' \in [Client -> Call] /\ \A b \in Client : call'[b] = IF b = c THEN CallIdle ELSE call[b]
  BY <1>2, IdleCall DEF CatalogIInv
<1>5. \A b \in Client : CallHolds(call'[b])
  BY <1>4, IdleCall DEF CatalogIInv
<1>6. ASSUME NEW d \in Document \ overtaken'
      PROVE  cached[d] \in {Miss, truth(d)} \/ \E b \in Client : d \in ToSet(call'[b].drops)
  <2>1. d \notin overtaken /\ (d \in ToSet(q) => cached[d] = Miss)
    BY <1>2, <1>6
  <2>2. cached[d] \in {Miss, truth(d)} \/ \E b \in Client : d \in ToSet(call[b].drops)
    BY <2>1 DEF CatalogIInv, CacheTellsTruth
  <2> QED
    BY <1>1, <1>4, <2>1, <2>2
<1>7. CacheTellsTruth'
  BY <1>2, <1>6 DEF CacheTellsTruth, truth
<1>8. overtaken' \subseteq Document
  BY <1>2, <1>3 DEF CatalogIInv
<1> QED
  BY <1>2, <1>4, <1>5, <1>7, <1>8 DEF CatalogIInv, CallHolds

-----------------------------------------------------------------------------
\* A row changes, and every document that shows it is to be dropped.
LEMMA WriteSteps ==
  ASSUME CatalogIInv, NEW c \in Client, WriteStatus(c) \/ WriteItem(c)
  PROVE  CatalogIInv'
<1>1. PICK want, q : want = call[c].want /\ q = drops(want)
  OBVIOUS
<1>2. /\ call[c].pc = "write" /\ call' = [call EXCEPT ![c].pc = "drop", ![c].drops = q]
      /\ UNCHANGED <<cached, overtaken>>
  BY <1>1 DEF WriteStatus, WriteItem, wrote
<1>3. /\ call[c] \in Call /\ CallHolds(call[c]) /\ call[c].admin \in BOOLEAN
      /\ want \in RestaurantStatus \cup Edit /\ call[c].drops = <<>>
      /\ want \in RestaurantStatus => call[c].doc = "restaurant"
      /\ want \in Edit => call[c].doc = "menuitem"
  BY <1>1, <1>2 DEF CatalogIInv, Call, CallHolds
<1>4. q \in Seq(Document) /\ q # <<>>
  BY <1>1, <1>3, DropsWhat
<1> DEFINE x == [call[c] EXCEPT !.pc = "drop", !.drops = q]
<1>5. call' = [call EXCEPT ![c] = x]
  BY <1>2, <1>3 DEF CatalogIInv
<1>6. x \in Call /\ x.pc = "drop" /\ x.drops = q /\ x.doc = call[c].doc /\ x.want = call[c].want /\ x.copy = call[c].copy
  BY <1>3, <1>4 DEF Call
<1> HIDE DEF x
<1>7. CallHolds(x)
  BY <1>2, <1>3, <1>4, <1>6 DEF CallHolds
<1>8. call' \in [Client -> Call] /\ \A b \in Client : call'[b] = IF b = c THEN x ELSE call[b]
  BY <1>5, <1>6 DEF CatalogIInv
<1>9. \A b \in Client : CallHolds(call'[b])
  BY <1>7, <1>8 DEF CatalogIInv
<1>10. ToSet(call[c].drops) = {}
  BY <1>3 DEF ToSet
\* A document that still shows what it did is as true as it was.
<1>11. ASSUME NEW d \in Document \ overtaken, truth(d)' = truth(d)
       PROVE  cached[d] \in {Miss, truth(d)'} \/ \E b \in Client : d \in ToSet(call'[b].drops)
  <2>1. cached[d] \in {Miss, truth(d)} \/ \E b \in Client : d \in ToSet(call[b].drops)
    BY DEF CatalogIInv, CacheTellsTruth
  <2> QED
    BY <1>8, <1>10, <1>11, <2>1
<1>12. CASE WriteStatus(c)
  <2>1. restaurant' \in RestaurantStatus /\ UNCHANGED item
    <3>1. want \in RestaurantStatus
      BY <1>3, <1>12 DEF WriteStatus
    <3> QED
      BY <1>1, <1>12, <3>1 DEF WriteStatus, CatalogIInv
  <2>2. want \in RestaurantStatus
    BY <1>3, <1>12 DEF WriteStatus
  <2>3. ToSet(x.drops) = {"restaurant"}
    BY <1>1, <1>3, <1>6, <2>2, DropsWhat
  <2>4. \A d \in Document \ {"restaurant"} : truth(d)' = truth(d)
    BY <2>1 DEF truth, Document
  <2>5. ASSUME NEW d \in Document \ overtaken
        PROVE  cached[d] \in {Miss, truth(d)'} \/ \E b \in Client : d \in ToSet(call'[b].drops)
    <3>1. CASE d = "restaurant"
      BY <1>8, <2>3, <3>1
    <3>2. CASE d # "restaurant"
      BY <1>11, <2>4, <3>2
    <3> QED
      BY <3>1, <3>2
  <2>6. CacheTellsTruth'
    BY <1>2, <2>5 DEF CacheTellsTruth
  <2> QED
    BY <1>2, <1>8, <1>9, <2>1, <2>6 DEF CatalogIInv, CallHolds
<1>13. CASE WriteItem(c)
  <2>1. want \in Edit
    BY <1>3, <1>13 DEF WriteItem
  <2>2. item' \in MenuItem /\ UNCHANGED restaurant
    <3>1. item \in MenuItem /\ item.archived \in BOOLEAN
      BY DEF CatalogIInv, MenuItem
    <3>2. /\ UNCHANGED restaurant
          /\ item' = CASE want = "updateItem" -> [item EXCEPT !.price = "changed"]
                       [] want = "offer" -> [item EXCEPT !.available = TRUE]
                       [] want = "withdraw" -> [item EXCEPT !.available = FALSE]
                       [] want = "archiveItem" ->
                            IF item.archived THEN item
                            ELSE [item EXCEPT !.archived = TRUE, !.available = FALSE]
      BY <1>1, <1>13 DEF WriteItem
    <3>3. CASE want = "updateItem"
      BY <3>1, <3>2, <3>3 DEF MenuItem
    <3>4. CASE want = "offer"
      BY <3>1, <3>2, <3>4 DEF MenuItem
    <3>5. CASE want = "withdraw"
      BY <3>1, <3>2, <3>5 DEF MenuItem
    <3>6. CASE want = "archiveItem"
      BY <3>1, <3>2, <3>6 DEF MenuItem
    <3> QED
      BY <2>1, <3>2, <3>3, <3>4, <3>5, <3>6 DEF Edit
  <2>3. ToSet(x.drops) = {"menu", "menuitem"}
    BY <1>1, <1>6, <2>1, DropsWhat
  <2>4. truth("restaurant")' = truth("restaurant")
    BY <2>2 DEF truth
  <2>5. ASSUME NEW d \in Document \ overtaken
        PROVE  cached[d] \in {Miss, truth(d)'} \/ \E b \in Client : d \in ToSet(call'[b].drops)
    <3>1. CASE d \in {"menu", "menuitem"}
      BY <1>8, <2>3, <3>1
    <3>2. CASE d = "restaurant"
      <4>1. truth(d)' = truth(d)
        BY <2>2, <3>2 DEF truth
      <4> QED
        BY <1>11, <4>1
    <3> QED
      BY <3>1, <3>2 DEF Document
  <2>6. CacheTellsTruth'
    BY <1>2, <2>5 DEF CacheTellsTruth
  <2> QED
    BY <1>2, <1>8, <1>9, <2>2, <2>6 DEF CatalogIInv, CallHolds
<1> QED
  BY <1>12, <1>13

LEMMA CatalogSteps == CatalogIInv /\ [CatalogNext]_catalogVars => CatalogIInv'
<1> SUFFICES ASSUME CatalogIInv, [CatalogNext]_catalogVars PROVE CatalogIInv'
  OBVIOUS
<1>1. ASSUME NEW c \in Client, NEW d \in Document, Read(c, d) PROVE CatalogIInv'
  <2>1. "read" \notin RestaurantStatus /\ "read" \notin Edit
    BY DEF RestaurantStatus, Edit
  <2> QED
    BY <1>1, <2>1, CallsStep DEF Read
<1>2. ASSUME NEW c \in Client, NEW s \in RestaurantStatus, NEW admin \in BOOLEAN, UpdateRestaurantStatus(c, s, admin)
      PROVE  CatalogIInv'
  <2>1. "restaurant" \in Document /\ s \notin Edit
    BY DEF RestaurantStatus, Edit, Document
  <2> QED
    BY <1>2, <2>1, CallsStep DEF UpdateRestaurantStatus
<1>3. ASSUME NEW c \in Client, NEW e \in Edit, EditItem(c, e) PROVE CatalogIInv'
  <2>1. "menuitem" \in Document /\ e \notin RestaurantStatus
    BY DEF RestaurantStatus, Edit, Document
  <2> QED
    BY <1>3, <2>1, CallsStep DEF EditItem
<1>4. ASSUME NEW c \in Client,
             Get(c) \/ FetchRow(c) \/ Set(c) \/ WriteStatus(c) \/ WriteItem(c) \/ Drop(c) \/ Abandon(c)
      PROVE  CatalogIInv'
  BY <1>4, LookSteps, SetStep, WriteSteps, DropStep, AbandonStep
<1>5. ASSUME NEW d \in Document, Expire(d) PROVE CatalogIInv'
  BY <1>5, ExpireStep
<1>6. CASE UNCHANGED catalogVars
  BY <1>6 DEF catalogVars, CatalogIInv, CacheTellsTruth, truth
<1> QED
  BY <1>1, <1>2, <1>3, <1>4, <1>5, <1>6 DEF CatalogNext

\* A copy of a document that no reader was overtaken with and no writer died over
\* differs from the rows only while the request that changed them has yet to drop
\* it (CacheService.getOrSet, RestaurantsService, MenuService).
THEOREM CatalogCorrect == CatalogSpec => []CatalogInv
<1>1. CatalogInit => CatalogIInv
  BY CatalogStart
<1>2. CatalogIInv => CatalogInv
  <2> SUFFICES ASSUME CatalogIInv PROVE CatalogInv
    OBVIOUS
  <2>1. \A c \in Client : call[c] \in Call /\ CallHolds(call[c])
    BY DEF CatalogIInv
  <2>2. CatalogTypeOK
    BY <2>1 DEF CatalogIInv, CatalogTypeOK, Call, CallHolds
  <2> QED
    BY <2>2 DEF CatalogIInv, CatalogInv
<1> QED
  BY <1>1, <1>2, CatalogSteps, PTL DEF CatalogSpec

\* Only an administrator's write ends a suspension, whatever copy an owner's
\* request was judged on (updateStatusUnlessSuspended).
THEOREM SuspensionIsKept == CatalogSpec => SuspensionHolds
<1> DEFINE Ended == restaurant = "SUSPENDED" /\ restaurant' # restaurant
           ByAdmin == \E c \in Client : call[c].admin /\ call[c].pc = "write" /\ call'[c].pc = "drop"
<1>1. CatalogInit => CatalogIInv
  BY CatalogStart
<1>2. CatalogIInv /\ [CatalogNext]_catalogVars => [Ended => ByAdmin]_catalogVars
  <2> SUFFICES ASSUME CatalogIInv, CatalogNext, Ended PROVE ByAdmin
    BY DEF catalogVars
  <2>1. PICK c \in Client : WriteStatus(c)
    BY DEF CatalogNext, Read, UpdateRestaurantStatus, EditItem, calls, Get, FetchRow, Set, WriteItem,
           Drop, Abandon, Expire
  <2>2. call[c].pc = "write" /\ call[c].admin
    BY <2>1 DEF WriteStatus, wrote
  <2>3. call'[c].pc = "drop"
    BY <2>1 DEF WriteStatus, wrote, CatalogIInv, Call
  <2> QED
    BY <2>2, <2>3
<1> QED
  BY <1>1, <1>2, CatalogSteps, PTL DEF CatalogSpec, SuspensionHolds

-----------------------------------------------------------------------------
(* A menu's categories (Categories) *)

Chore == [pc : {"idle", "reorder", "count", "detach", "delete", "fill"}, list : Seq(Category),
          done : SUBSET (Category \X Place), category : Category \cup {NoCategory}, dish : Dish \cup {NoCategory}]

\* What a transaction wrote is the beginning of its list, and it remembers what
\* was there before, a row at a time.
RowsWritten(s) ==
  /\ IsFiniteSet(chore[s].done)
  /\ Cardinality(chore[s].done) <= Len(chore[s].list) /\ Len(chore[s].list) <= Cardinality(Category)
  /\ \A i, j \in DOMAIN chore[s].list : chore[s].list[i] = chore[s].list[j] => i = j
  /\ heldBy(s) = {chore[s].list[i] : i \in 1..Cardinality(chore[s].done)}
  /\ \A p, q \in chore[s].done : p[1] = q[1] => p = q
  /\ \A i \in 1..Cardinality(chore[s].done) :
       chore[s].list[i] \in DOMAIN listed => listed[chore[s].list[i]] = i - 1

RowsLocked == \A s, t \in Staff : s # t => heldBy(s) \cap heldBy(t) = {}

\* The last list committed is what is there, or what a rollback returns to.
Committed ==
  \A i \in DOMAIN lastList :
    /\ lastList[i] \in DOMAIN listed
    /\ (\A s \in Staff : lastList[i] \notin heldBy(s)) => listed[lastList[i]] = i - 1
    /\ \A s \in Staff : \A p \in chore[s].done : p[1] = lastList[i] => p[2] = i - 1

\* A deletion that counted no live item leaves only archived ones to detach, and
\* then none but those that strayed in.
ChoreHolds(s) ==
  /\ chore[s].pc # "reorder" => chore[s].done = {} /\ chore[s].list = <<>>
  /\ chore[s].pc \in {"count", "detach", "delete", "fill"} => chore[s].category \in Category
  /\ chore[s].pc = "fill" => chore[s].dish \in Dish
  /\ chore[s].pc \in {"detach", "delete"} =>
       \A d \in Dish : dish[d].category = chore[s].category
                         => d \in strayed \/ (chore[s].pc = "detach" /\ dish[d].archived)

CategoriesIInv ==
  /\ CategoriesTypeOK /\ chore \in [Staff -> Chore]
  /\ \A s \in Staff : RowsWritten(s) /\ ChoreHolds(s)
  /\ RowsLocked /\ Committed /\ NoOrphan

LEMMA IdleChore ==
  /\ ChoreIdle \in Chore /\ ChoreIdle.pc = "idle" /\ ChoreIdle.done = {} /\ ChoreIdle.list = <<>>
  /\ IsFiniteSet({}) /\ Cardinality({}) = 0 /\ Cardinality(Category) \in Nat
<1>1. IsFiniteSet({}) /\ Cardinality({}) = 0
  BY FS_EmptySet
<1>2. Cardinality(Category) \in Nat
  BY FS_CardinalityType, CategoriesAssumption
<1> QED
  BY <1>1, <1>2 DEF ChoreIdle, Chore

\* A slot that writes no rows keeps its claims about them.
LEMMA NoRows ==
  ASSUME NEW s, chore'[s].done = {}, chore'[s].list = <<>>
  PROVE  RowsWritten(s)' /\ heldBy(s)' = {}
<1>1. heldBy(s)' = {}
  BY DEF heldBy
<1>2. IsFiniteSet(chore'[s].done) /\ Cardinality(chore'[s].done) = 0
  BY FS_EmptySet
<1>3. Cardinality(Category) \in Nat /\ 1..0 = {} /\ Len(<<>>) = 0 /\ DOMAIN <<>> = {}
  BY IdleChore
<1>4. heldBy(s)' = {chore'[s].list[i] : i \in 1..Cardinality(chore'[s].done)}
  BY <1>1, <1>2, <1>3
<1>5. \A i, j \in DOMAIN chore'[s].list : chore'[s].list[i] = chore'[s].list[j] => i = j
  BY <1>3
<1> QED
  BY <1>1, <1>2, <1>3, <1>4, <1>5 DEF RowsWritten

\* A slot's claims stand while the rows it holds are not written by others.
LEMMA RowsStand ==
  ASSUME NEW s, RowsWritten(s), chore'[s].done = chore[s].done, chore'[s].list = chore[s].list,
         \A c \in heldBy(s) : c \in DOMAIN listed' => c \in DOMAIN listed /\ listed'[c] = listed[c]
  PROVE  RowsWritten(s)' /\ heldBy(s)' = heldBy(s)
<1>1. heldBy(s)' = heldBy(s)
  BY DEF heldBy
<1>2. \A i \in 1..Cardinality(chore[s].done) : chore[s].list[i] \in heldBy(s)
  BY DEF RowsWritten
<1>3. ASSUME NEW i \in 1..Cardinality(chore'[s].done), chore'[s].list[i] \in DOMAIN listed'
      PROVE  listed'[chore'[s].list[i]] = i - 1
  BY <1>2, <1>3 DEF RowsWritten
<1> QED
  BY <1>1, <1>3 DEF RowsWritten

\* Steps that write no rows and end no transaction.
LEMMA QuietRows ==
  ASSUME CategoriesIInv, UNCHANGED <<listed, lastList>>,
         \A s \in Staff : chore'[s].done = chore[s].done /\ chore'[s].list = chore[s].list
  PROVE  (\A s \in Staff : RowsWritten(s)') /\ RowsLocked' /\ Committed'
<1>1. \A s \in Staff : RowsWritten(s)' /\ heldBy(s)' = heldBy(s)
  BY RowsStand DEF CategoriesIInv
<1>2. RowsLocked'
  BY <1>1 DEF CategoriesIInv, RowsLocked
<1>3. Committed'
  BY <1>1 DEF CategoriesIInv, Committed
<1> QED
  BY <1>1, <1>2, <1>3

\* Steps that leave the transactions and write, add or drop a row nobody holds.
LEMMA RowsAside ==
  ASSUME CategoriesIInv, UNCHANGED chore, lastList' = <<>>,
         \A s \in Staff : \A c \in heldBy(s) : c \in DOMAIN listed' => c \in DOMAIN listed /\ listed'[c] = listed[c]
  PROVE  (\A s \in Staff : RowsWritten(s)') /\ RowsLocked' /\ Committed'
<1>1. \A s \in Staff : RowsWritten(s)' /\ heldBy(s)' = heldBy(s)
  BY RowsStand DEF CategoriesIInv
<1>2. RowsLocked'
  BY <1>1 DEF CategoriesIInv, RowsLocked
<1>3. Committed'
  BY DEF Committed
<1> QED
  BY <1>1, <1>2, <1>3

LEMMA ChoresTyped ==
  ASSUME CategoriesTypeOK', chore' \in [Staff -> Chore], \A s \in Staff : RowsWritten(s)' /\ ChoreHolds(s)',
         RowsLocked', Committed', NoOrphan'
  PROVE  CategoriesIInv'
BY DEF CategoriesIInv

\* The type of the slots says what CategoriesTypeOK says of them.
LEMMA TypeOfChores ==
  ASSUME chore' \in [Staff -> Chore], strayed' \subseteq Dish,
         DOMAIN listed' \subseteq Category, \A c \in DOMAIN listed' : listed'[c] \in Place,
         dish' \in [Dish -> DishState], lastList' \in Seq(Category)
  PROVE  CategoriesTypeOK'
BY DEF CategoriesTypeOK, Chore

\* Steps that only start, move on or end a chore that holds no rows.
LEMMA ChoreSteps ==
  ASSUME CategoriesIInv, NEW s \in Staff,
         CountLive(s) \/ (\E c \in Category : DeleteCategory(s, c) \/ \E d \in Dish : FillCategory(s, d, c))
  PROVE  CategoriesIInv'
<1> USE IdleChore
<1>t. CategoriesTypeOK /\ chore \in [Staff -> Chore] /\ (\A t \in Staff : ChoreHolds(t)) /\ NoOrphan
  BY DEF CategoriesIInv
<1>1. UNCHANGED <<listed, dish, lastList, strayed>>
  BY DEF CountLive, DeleteCategory, FillCategory
<1> DEFINE Moved ==
      /\ chore' \in [Staff -> Chore] /\ \A t \in Staff \ {s} : chore'[t] = chore[t]
      /\ chore'[s].done = {} /\ chore'[s].list = <<>> /\ chore[s].done = {} /\ chore[s].list = <<>>
      /\ ChoreHolds(s)'
<1>2. Moved
  <2>1. CASE CountLive(s)
    <3>1. chore[s] \in Chore /\ chore[s].pc = "count"
      BY <1>t, <2>1 DEF CountLive
    <3>2. CASE liveIn(chore[s].category) # {}
      <4>1. chore' = [chore EXCEPT ![s] = ChoreIdle]
        BY <2>1, <3>2 DEF CountLive, choreDone
      <4> QED
        BY <1>t, <3>1, <4>1 DEF ChoreHolds
    <3>3. CASE liveIn(chore[s].category) = {}
      <4>1. chore' = [chore EXCEPT ![s].pc = "detach"]
        BY <2>1, <3>3 DEF CountLive
      <4>2. chore' \in [Staff -> Chore]
        BY <1>t, <4>1 DEF Chore
      <4>3. /\ chore'[s].pc = "detach" /\ chore'[s].list = chore[s].list /\ chore'[s].done = chore[s].done
            /\ chore'[s].category = chore[s].category /\ \A t \in Staff \ {s} : chore'[t] = chore[t]
        BY <1>t, <3>1, <4>1 DEF Chore
      <4>4. \A d \in Dish : dish[d].category = chore[s].category => dish[d].archived
        BY <3>3 DEF liveIn
      <4> QED
        BY <1>1, <1>t, <3>1, <4>2, <4>3, <4>4 DEF ChoreHolds
    <3> QED
      BY <3>2, <3>3
  <2>2. ASSUME NEW c \in Category, DeleteCategory(s, c) PROVE Moved
    <3> DEFINE x == [ChoreIdle EXCEPT !.pc = "count", !.category = c]
    <3>1. x \in Chore /\ x.pc = "count" /\ x.done = {} /\ x.list = <<>> /\ x.category = c
      BY DEF Chore, ChoreIdle
    <3>2. chore' = [chore EXCEPT ![s] = x] /\ chore[s].pc = "idle"
      BY <2>2 DEF DeleteCategory, starts
    <3> HIDE DEF x
    <3> QED
      BY <1>t, <3>1, <3>2 DEF ChoreHolds
  <2>3. ASSUME NEW c \in Category, NEW d \in Dish, FillCategory(s, d, c) PROVE Moved
    <3> DEFINE x == [ChoreIdle EXCEPT !.pc = "fill", !.category = c, !.dish = d]
    <3>1. x \in Chore /\ x.pc = "fill" /\ x.done = {} /\ x.list = <<>> /\ x.category = c /\ x.dish = d
      BY DEF Chore, ChoreIdle
    <3>2. chore' = [chore EXCEPT ![s] = x] /\ chore[s].pc = "idle"
      BY <2>3 DEF FillCategory, starts
    <3> HIDE DEF x
    <3> QED
      BY <1>t, <3>1, <3>2 DEF ChoreHolds
  <2> QED
    BY <2>1, <2>2, <2>3
<1>3. \A t \in Staff : ChoreHolds(t)'
  BY <1>1, <1>2, <1>t DEF ChoreHolds
<1>4. (\A t \in Staff : RowsWritten(t)') /\ RowsLocked' /\ Committed'
  <2>1. \A t \in Staff : chore'[t].done = chore[t].done /\ chore'[t].list = chore[t].list
    BY <1>2
  <2> QED
    BY <1>1, <2>1, QuietRows
<1>5. CategoriesTypeOK' /\ NoOrphan'
  BY <1>1, <1>2, <1>t, TypeOfChores DEF CategoriesTypeOK, NoOrphan
<1> QED
  BY <1>2, <1>3, <1>4, <1>5, ChoresTyped

LEMMA DishSteps ==
  ASSUME CategoriesIInv, NEW s \in Staff, DetachArchived(s) \/ WriteDish(s)
  PROVE  CategoriesIInv'
<1> USE IdleChore
<1>t. CategoriesTypeOK /\ chore \in [Staff -> Chore] /\ (\A t \in Staff : ChoreHolds(t)) /\ NoOrphan
  BY DEF CategoriesIInv
<1>c. chore[s] \in Chore /\ chore[s].pc # "reorder" /\ chore[s].category \in Category /\ NoCategory \notin Category
      /\ (chore[s].pc = "fill" => chore[s].dish \in Dish)
  BY <1>t, CategoriesAssumption DEF DetachArchived, WriteDish, ChoreHolds
<1>1. UNCHANGED <<listed, lastList>>
  BY DEF DetachArchived, WriteDish
<1>2. /\ chore' \in [Staff -> Chore] /\ \A t \in Staff \ {s} : chore'[t] = chore[t]
      /\ \A t \in Staff : chore'[t].done = chore[t].done /\ chore'[t].list = chore[t].list
  <2>1. CASE DetachArchived(s)
    <3>1. chore' = [chore EXCEPT ![s].pc = "delete"]
      BY <2>1 DEF DetachArchived
    <3> QED
      BY <1>t, <3>1 DEF Chore
  <2>2. CASE WriteDish(s)
    <3>1. chore' = [chore EXCEPT ![s] = ChoreIdle]
      BY <2>2 DEF WriteDish, choreDone
    <3> QED
      BY <1>t, <1>c, <3>1 DEF ChoreHolds
  <2> QED
    BY <2>1, <2>2
<1>3. dish' \in [Dish -> DishState] /\ strayed' \subseteq Dish /\ NoOrphan' /\ \A t \in Staff : ChoreHolds(t)'
  <2> DEFINE c == chore[s].category
             d == chore[s].dish
  <2>1. CASE DetachArchived(s)
    <3>1. /\ chore[s].pc = "detach" /\ strayed' = strayed
          /\ dish' = [e \in Dish |-> IF dish[e].archived /\ dish[e].category = c
                                       THEN [dish[e] EXCEPT !.category = NoCategory] ELSE dish[e]]
      BY <2>1 DEF DetachArchived
    <3>2. \A e \in Dish : dish[e] \in DishState /\ dish'[e] \in DishState
      BY <1>t, <3>1 DEF CategoriesTypeOK, DishState
    <3>3. \A e \in Dish : /\ dish'[e].archived = dish[e].archived
                          /\ dish'[e].category \in {dish[e].category, NoCategory}
                          /\ dish[e].archived => dish'[e].category # c
      BY <1>c, <3>1, <3>2 DEF DishState
    <3>4. dish' \in [Dish -> DishState]
      BY <3>1, <3>2
    <3>5. NoOrphan'
      BY <1>t, <1>1, <3>1, <3>3 DEF NoOrphan
    <3>6. chore'[s].pc = "delete" /\ chore'[s].category = c /\ chore'[s].list = <<>> /\ chore'[s].done = {}
      <4>1. chore' = [chore EXCEPT ![s].pc = "delete"]
        BY <2>1 DEF DetachArchived
      <4> QED
        BY <1>t, <1>c, <4>1 DEF Chore, ChoreHolds
    <3>7. ChoreHolds(s)'
      BY <1>t, <1>c, <3>1, <3>3, <3>6 DEF ChoreHolds
    <3>8. ASSUME NEW t \in Staff \ {s} PROVE ChoreHolds(t)'
      <4>1. chore[t].pc \in {"detach", "delete"} => chore[t].category # NoCategory
        BY <1>t, <1>c DEF ChoreHolds
      <4> QED
        BY <1>t, <1>2, <3>1, <3>3, <4>1 DEF ChoreHolds
    <3> QED
      BY <1>t, <3>1, <3>4, <3>5, <3>7, <3>8 DEF CategoriesTypeOK
  <2>2. CASE WriteDish(s)
    <3>1. /\ dish' = [dish EXCEPT ![d].category = c] /\ d \in Dish
          /\ strayed' = IF c \notin DOMAIN listed \/ counted(c) THEN strayed \cup {d} ELSE strayed \ {d}
          /\ chore'[s] = ChoreIdle
      BY <2>2, <1>t, <1>c DEF WriteDish, choreDone
    <3>2. /\ dish' \in [Dish -> DishState] /\ dish'[d].category = c
          /\ \A e \in Dish : dish'[e].archived = dish[e].archived /\ (e # d => dish'[e] = dish[e])
      BY <1>t, <1>c, <3>1 DEF CategoriesTypeOK, DishState
    <3>3. NoOrphan'
      BY <1>t, <1>1, <1>c, <3>1, <3>2 DEF NoOrphan
    <3>4. ChoreHolds(s)'
      BY <3>1 DEF ChoreHolds
    <3>5. ASSUME NEW t \in Staff \ {s} PROVE ChoreHolds(t)'
      <4>1. chore[t].pc \in {"detach", "delete"} /\ chore[t].category = c => d \in strayed'
        BY <3>1 DEF counted
      <4>2. \A e \in Dish : e # d => (e \in strayed' <=> e \in strayed)
        BY <3>1
      <4> QED
        BY <1>t, <1>2, <3>2, <4>1, <4>2 DEF ChoreHolds
    <3> QED
      BY <1>t, <3>1, <3>2, <3>3, <3>4, <3>5 DEF CategoriesTypeOK
  <2> QED
    BY <2>1, <2>2
<1>4. (\A t \in Staff : RowsWritten(t)') /\ RowsLocked' /\ Committed'
  BY <1>1, <1>2, QuietRows
<1>5. CategoriesTypeOK'
  BY <1>1, <1>2, <1>3, <1>t, TypeOfChores DEF CategoriesTypeOK
<1> QED
  BY <1>2, <1>3, <1>4, <1>5, ChoresTyped

LEMMA SomeCategory ==
  ASSUME NEW c \in Category
  PROVE  Cardinality(Category) \in Nat \ {0}
<1>1. Cardinality(Category) # 0
  BY CategoriesAssumption, FS_EmptySet
<1> QED
  BY <1>1, IdleChore

\* Creating, renaming and archiving touch no transaction's rows.
LEMMA RowSteps ==
  ASSUME CategoriesIInv,
         (\E c \in Category : CreateCategory(c) \/ \E place \in Place : UpdateCategory(c, place))
           \/ \E d \in Dish : ArchiveDish(d)
  PROVE  CategoriesIInv'
<1> USE IdleChore
<1>t. CategoriesTypeOK /\ chore \in [Staff -> Chore] /\ (\A t \in Staff : ChoreHolds(t) /\ RowsWritten(t)) /\ NoOrphan
  BY DEF CategoriesIInv
<1>0. <<>> \in Seq(Category)
  OBVIOUS
<1>1. ASSUME NEW c \in Category, CreateCategory(c) PROVE CategoriesIInv'
  <2>1. /\ listed' = [x \in DOMAIN listed \cup {c} |-> IF x = c THEN 0 ELSE listed[x]]
        /\ c \notin DOMAIN listed /\ lastList' = <<>> /\ UNCHANGED <<dish, chore, strayed>>
    BY <1>1 DEF CreateCategory
  <2>2. ASSUME NEW s \in Staff PROVE c \notin heldBy(s)
    <3>1. c \notin {chore[s].list[i] : i \in DOMAIN chore[s].list}
      BY <1>1 DEF CreateCategory, ToSet
    <3>2. chore[s].list \in Seq(Category) /\ DOMAIN chore[s].list = 1..Len(chore[s].list)
      BY <1>t DEF Chore
    <3>3. 1..Cardinality(chore[s].done) \subseteq 1..Len(chore[s].list)
      <4>1. Cardinality(chore[s].done) \in Nat /\ Len(chore[s].list) \in Nat
            /\ Cardinality(chore[s].done) <= Len(chore[s].list)
        BY <1>t, <3>2, FS_CardinalityType DEF RowsWritten
      <4> QED
        BY <4>1
    <3> QED
      BY <1>t, <3>1, <3>2, <3>3 DEF RowsWritten
  <2>3. 0 \in Place
    BY FS_EmptySet, FS_CardinalityType, CategoriesAssumption, SomeCategory DEF Place
  <2>4. (\A s \in Staff : RowsWritten(s)') /\ RowsLocked' /\ Committed'
    <3>1. \A s \in Staff : \A x \in heldBy(s) : x \in DOMAIN listed' => x \in DOMAIN listed /\ listed'[x] = listed[x]
      BY <2>1, <2>2
    <3> QED
      BY <2>1, <3>1, RowsAside
  <2>5. NoOrphan' /\ \A s \in Staff : ChoreHolds(s)'
    BY <1>t, <2>1 DEF NoOrphan, ChoreHolds
  <2>6. CategoriesTypeOK'
    BY <1>0, <1>t, <2>1, <2>3, TypeOfChores DEF CategoriesTypeOK
  <2> QED
    BY <1>t, <2>1, <2>4, <2>5, <2>6, ChoresTyped
<1>2. ASSUME NEW c \in Category, NEW place \in Place, UpdateCategory(c, place) PROVE CategoriesIInv'
  <2>1. /\ listed' = [listed EXCEPT ![c] = place] /\ c \in DOMAIN listed
        /\ lastList' = <<>> /\ UNCHANGED <<dish, chore, strayed>> /\ \A s \in Staff : c \notin heldBy(s)
    BY <1>2 DEF UpdateCategory
  <2>2. DOMAIN listed' = DOMAIN listed /\ \A x \in DOMAIN listed : listed'[x] = IF x = c THEN place ELSE listed[x]
    BY <2>1
  <2>4. (\A s \in Staff : RowsWritten(s)') /\ RowsLocked' /\ Committed'
    <3>1. \A s \in Staff : \A x \in heldBy(s) : x \in DOMAIN listed' => x \in DOMAIN listed /\ listed'[x] = listed[x]
      BY <2>1, <2>2
    <3> QED
      BY <2>1, <3>1, RowsAside
  <2>5. NoOrphan' /\ \A s \in Staff : ChoreHolds(s)'
    BY <1>t, <2>1, <2>2 DEF NoOrphan, ChoreHolds
  <2>6. CategoriesTypeOK'
    BY <1>0, <1>t, <2>1, <2>2, TypeOfChores DEF CategoriesTypeOK
  <2> QED
    BY <1>t, <2>1, <2>4, <2>5, <2>6, ChoresTyped
<1>3. ASSUME NEW d \in Dish, ArchiveDish(d) PROVE CategoriesIInv'
  <2>1. dish' = [dish EXCEPT ![d].archived = TRUE] /\ UNCHANGED <<listed, lastList, chore, strayed>>
    BY <1>3 DEF ArchiveDish
  <2>2. /\ dish' \in [Dish -> DishState]
        /\ \A e \in Dish : dish'[e].category = dish[e].category /\ (dish[e].archived => dish'[e].archived)
    BY <1>t, <2>1 DEF CategoriesTypeOK, DishState
  <2>3. NoOrphan' /\ \A s \in Staff : ChoreHolds(s)'
    BY <1>t, <2>1, <2>2 DEF NoOrphan, ChoreHolds
  <2>4. (\A s \in Staff : RowsWritten(s)') /\ RowsLocked' /\ Committed'
    BY <2>1, QuietRows
  <2>5. CategoriesTypeOK'
    BY <1>t, <2>1, <2>2, TypeOfChores DEF CategoriesTypeOK
  <2> QED
    BY <1>t, <2>1, <2>2, <2>3, <2>4, <2>5, ChoresTyped
<1> QED
  BY <1>1, <1>2, <1>3

\* The first entries of a list, and the next one, are different.
LEMMA NextIsNew ==
  ASSUME NEW s, RowsWritten(s), chore[s].list \in Seq(Category), Cardinality(chore[s].done) < Len(chore[s].list)
  PROVE  /\ Cardinality(chore[s].done) \in Nat
         /\ Cardinality(chore[s].done) + 1 \in DOMAIN chore[s].list
         /\ nextOf(s) \in Category /\ nextOf(s) \notin heldBy(s)
         /\ Cardinality(chore[s].done) \in Place
<1>1. Cardinality(chore[s].done) \in Nat /\ Len(chore[s].list) \in Nat /\ DOMAIN chore[s].list = 1..Len(chore[s].list)
  BY FS_CardinalityType DEF RowsWritten
<1>2. PICK k \in Nat : k = Cardinality(chore[s].done)
  BY <1>1
<1>3. k + 1 \in DOMAIN chore[s].list /\ 1..k \subseteq DOMAIN chore[s].list /\ k + 1 \notin 1..k
  BY <1>1, <1>2
<1>4. nextOf(s) = chore[s].list[k + 1] /\ nextOf(s) \in Category
  BY <1>2, <1>3 DEF nextOf
<1>5. nextOf(s) \notin heldBy(s)
  BY <1>2, <1>3, <1>4 DEF RowsWritten
<1>6. k \in Place
  BY <1>1, <1>2, IdleChore DEF RowsWritten, Place
<1> QED
  BY <1>2, <1>3, <1>4, <1>5, <1>6

LEMMA UpdateRowHolds ==
  ASSUME CategoriesIInv, NEW s \in Staff, UpdateRow(s)
  PROVE  CategoriesIInv'
<1>t. CategoriesTypeOK /\ chore \in [Staff -> Chore] /\ (\A t \in Staff : ChoreHolds(t) /\ RowsWritten(t)) /\ NoOrphan
  BY DEF CategoriesIInv
<1>0. PICK c, k : c = nextOf(s) /\ k = Cardinality(chore[s].done)
  OBVIOUS
<1>1. /\ chore[s].pc = "reorder" /\ k < Len(chore[s].list) /\ \A t \in Staff \ {s} : c \notin heldBy(t)
      /\ chore' = [chore EXCEPT ![s].done = @ \cup {<<c, placeBefore(c)>>}]
      /\ listed' = [x \in DOMAIN listed |-> IF x = c THEN k ELSE listed[x]]
      /\ UNCHANGED <<dish, lastList, strayed>>
  BY <1>0 DEF UpdateRow, held
<1>2. k \in Nat /\ k + 1 \in DOMAIN chore[s].list /\ c \in Category /\ c \notin heldBy(s) /\ k \in Place
      /\ chore[s].list \in Seq(Category)
  <2>1. chore[s].list \in Seq(Category)
    BY <1>t DEF Chore
  <2> QED
    BY <1>0, <1>1, <1>t, <2>1, NextIsNew
<1>p. PICK p : p = placeBefore(c)
  OBVIOUS
<1>3. p \in Place /\ (c \in DOMAIN listed => p = listed[c])
  <2>1. 0 \in Place
    BY <1>2, SomeCategory DEF Place
  <2> QED
    BY <1>t, <1>p, <2>1 DEF placeBefore, CategoriesTypeOK
<1>4. /\ chore' \in [Staff -> Chore] /\ \A t \in Staff \ {s} : chore'[t] = chore[t]
      /\ chore'[s].done = chore[s].done \cup {<<c, p>>} /\ chore'[s].list = chore[s].list /\ chore'[s].pc = "reorder"
  <2>1. chore' = [chore EXCEPT ![s].done = @ \cup {<<c, p>>}]
    BY <1>1, <1>p
  <2>2. chore[s] \in Chore /\ chore[s].done \cup {<<c, p>>} \in SUBSET (Category \X Place)
    BY <1>t, <1>2, <1>3 DEF Chore
  <2>3. [chore[s] EXCEPT !.done = @ \cup {<<c, p>>}] \in Chore
    BY <2>2 DEF Chore
  <2>4. chore' = [chore EXCEPT ![s] = [chore[s] EXCEPT !.done = @ \cup {<<c, p>>}]]
    BY <2>1
  <2>5. chore'[s] = [chore[s] EXCEPT !.done = @ \cup {<<c, p>>}]
    BY <1>t, <2>4
  <2>6. chore' \in [Staff -> Chore] /\ \A t \in Staff \ {s} : chore'[t] = chore[t]
    BY <1>t, <2>3, <2>4
  <2>7. /\ chore'[s].done = chore[s].done \cup {<<c, p>>}
        /\ chore'[s].list = chore[s].list /\ chore'[s].pc = chore[s].pc
    BY <2>2, <2>5 DEF Chore
  <2> QED
    BY <1>1, <2>6, <2>7
<1>5. heldBy(s)' = heldBy(s) \cup {c} /\ \A t \in Staff \ {s} : heldBy(t)' = heldBy(t)
  <2>1. heldBy(s)' = {q[1] : q \in chore[s].done \cup {<<c, p>>}}
    BY <1>4 DEF heldBy
  <2>2. {q[1] : q \in chore[s].done \cup {<<c, p>>}} = {q[1] : q \in chore[s].done} \cup {c}
    <3>1. PICK e : e = <<c, p>>
      OBVIOUS
    <3>2. e[1] = c
      BY <3>1
    <3>3. {q[1] : q \in chore[s].done \cup {e}} = {q[1] : q \in chore[s].done} \cup {e[1]}
      OBVIOUS
    <3> QED
      BY <3>1, <3>2, <3>3
  <2>3. \A t \in Staff \ {s} : heldBy(t)' = heldBy(t)
    BY <1>4 DEF heldBy
  <2> QED
    BY <2>1, <2>2, <2>3 DEF heldBy
<1>6. RowsWritten(s)'
  <2>1. <<c, p>> \notin chore[s].done
    BY <1>2 DEF heldBy
  <2>2. IsFiniteSet(chore'[s].done) /\ Cardinality(chore'[s].done) = k + 1
    <3>1. IsFiniteSet(chore[s].done)
      BY <1>t DEF RowsWritten
    <3>2. IsFiniteSet(chore[s].done \cup {<<c, p>>}) /\ Cardinality(chore[s].done \cup {<<c, p>>}) = Cardinality(chore[s].done) + 1
      BY <2>1, <3>1, FS_AddElement
    <3>3. chore'[s].done = chore[s].done \cup {<<c, p>>}
      BY <1>4
    <3> QED
      BY <1>0, <3>2, <3>3
  <2>3. c = chore[s].list[k + 1] /\ 1..(k + 1) = (1..k) \cup {k + 1} /\ k + 1 \notin 1..k
    BY <1>0, <1>2 DEF nextOf
  <2>4. heldBy(s)' = {chore'[s].list[i] : i \in 1..(k + 1)}
    <3>1. heldBy(s) = {chore[s].list[i] : i \in 1..k}
      BY <1>0, <1>t DEF RowsWritten
    <3> QED
      BY <1>4, <1>5, <2>3, <3>1
  <2>5. \A q, r \in chore'[s].done : q[1] = r[1] => q = r
    <3>1. \A q \in chore[s].done : q[1] # c
      BY <1>2 DEF heldBy
    <3> QED
      BY <1>t, <1>4, <3>1 DEF RowsWritten
  <2>6. ASSUME NEW i \in 1..(k + 1), chore[s].list[i] \in DOMAIN listed PROVE listed'[chore[s].list[i]] = i - 1
    <3>1. CASE i = k + 1
      BY <1>1, <1>2, <2>3, <2>6, <3>1
    <3>2. CASE i # k + 1
      <4>1. i \in 1..k /\ chore[s].list[i] \in heldBy(s)
        BY <1>0, <1>t, <1>2, <3>2 DEF RowsWritten
      <4>2. chore[s].list[i] # c
        BY <1>2, <4>1
      <4> QED
        BY <1>0, <1>1, <1>t, <2>6, <4>1, <4>2 DEF RowsWritten
    <3> QED
      BY <3>1, <3>2
  <2>7. k + 1 <= Len(chore[s].list) /\ Len(chore[s].list) <= Cardinality(Category)
    BY <1>2, <1>t DEF RowsWritten
  <2>8. \A i, j \in DOMAIN chore[s].list : chore[s].list[i] = chore[s].list[j] => i = j
    BY <1>t DEF RowsWritten
  <2>9. DOMAIN listed' = DOMAIN listed
    BY <1>1
  <2> QED
    BY <1>4, <2>2, <2>4, <2>5, <2>6, <2>7, <2>8, <2>9 DEF RowsWritten
<1>7. ASSUME NEW t \in Staff \ {s} PROVE RowsWritten(t)'
  <2>1. \A x \in heldBy(t) : x \in DOMAIN listed' => x \in DOMAIN listed /\ listed'[x] = listed[x]
    BY <1>1
  <2> QED
    BY <1>4, <1>t, <2>1, RowsStand
<1>8. RowsLocked'
  BY <1>1, <1>5 DEF CategoriesIInv, RowsLocked
<1>9. Committed'
  <2> SUFFICES ASSUME NEW i \in DOMAIN lastList
               PROVE  /\ lastList[i] \in DOMAIN listed'
                      /\ (\A t \in Staff : lastList[i] \notin heldBy(t)') => listed'[lastList[i]] = i - 1
                      /\ \A t \in Staff : \A q \in chore'[t].done : q[1] = lastList[i] => q[2] = i - 1
    BY <1>1 DEF Committed
  <2>1. /\ lastList[i] \in DOMAIN listed
        /\ (\A t \in Staff : lastList[i] \notin heldBy(t)) => listed[lastList[i]] = i - 1
        /\ \A t \in Staff : \A q \in chore[t].done : q[1] = lastList[i] => q[2] = i - 1
    BY DEF CategoriesIInv, Committed
  <2>2. CASE lastList[i] = c
    <3>1. p = i - 1
      BY <1>1, <1>2, <1>3, <2>1, <2>2
    <3>2. c \in heldBy(s)'
      BY <1>5
    <3>3. \A t \in Staff : \A q \in chore'[t].done : q[1] = lastList[i] => q[2] = i - 1
      BY <1>4, <2>1, <3>1
    <3> QED
      BY <1>1, <2>1, <2>2, <3>2, <3>3
  <2>3. CASE lastList[i] # c
    <3>1. \A t \in Staff : \A q \in chore'[t].done : q[1] = lastList[i] => q \in chore[t].done
      BY <1>4, <2>3
    <3> QED
      BY <1>1, <1>5, <2>1, <2>3, <3>1
  <2> QED
    BY <2>2, <2>3
<1>10. NoOrphan' /\ \A t \in Staff : ChoreHolds(t)'
  BY <1>1, <1>4, <1>t DEF NoOrphan, ChoreHolds
<1>11. CategoriesTypeOK'
  BY <1>1, <1>2, <1>4, <1>t, TypeOfChores DEF CategoriesTypeOK
<1> QED
  BY <1>4, <1>6, <1>7, <1>8, <1>9, <1>10, <1>11, ChoresTyped

LEMMA ReorderHolds ==
  ASSUME CategoriesIInv, NEW s \in Staff, NEW list \in SetToSeqs(DOMAIN listed), ReorderCategories(s, list)
  PROVE  CategoriesIInv'
<1> USE IdleChore
<1>t. CategoriesTypeOK /\ chore \in [Staff -> Chore] /\ (\A t \in Staff : ChoreHolds(t) /\ RowsWritten(t)) /\ NoOrphan
  BY DEF CategoriesIInv
<1> DEFINE n == Cardinality(DOMAIN listed)
<1>1. IsFiniteSet(DOMAIN listed) /\ n \in Nat /\ n <= Cardinality(Category)
  <2>1. IsFiniteSet(DOMAIN listed)
    BY <1>t, CategoriesAssumption, FS_Subset DEF CategoriesTypeOK
  <2>2. n <= Cardinality(Category)
    BY <1>t, CategoriesAssumption, FS_Subset DEF CategoriesTypeOK
  <2> QED
    BY <2>1, <2>2, FS_CardinalityType
<1>2. list \in [1..n -> DOMAIN listed] /\ \A i, j \in 1..n : i # j => list[i] # list[j]
  BY DEF SetToSeqs
<1> HIDE DEF n
<1>3. list \in Seq(Category) /\ Len(list) = n /\ DOMAIN list = 1..n
  BY <1>1, <1>2, <1>t DEF CategoriesTypeOK
<1> DEFINE x == [ChoreIdle EXCEPT !.pc = "reorder", !.list = list]
<1>4. x \in Chore /\ x.pc = "reorder" /\ x.list = list /\ x.done = {}
  BY <1>3 DEF Chore, ChoreIdle
<1>5. chore' = [chore EXCEPT ![s] = x] /\ chore[s].pc = "idle" /\ UNCHANGED <<listed, dish, lastList, strayed>>
  BY DEF ReorderCategories, starts
<1> HIDE DEF x
<1>6. /\ chore' \in [Staff -> Chore] /\ \A t \in Staff \ {s} : chore'[t] = chore[t]
      /\ chore'[s] = x /\ chore[s].done = {}
  BY <1>t, <1>4, <1>5 DEF ChoreHolds
<1>7. RowsWritten(s)' /\ heldBy(s)' = {} /\ heldBy(s) = {}
  <2>1. heldBy(s)' = {} /\ heldBy(s) = {}
    BY <1>4, <1>6 DEF heldBy
  <2>2. IsFiniteSet(chore'[s].done) /\ Cardinality(chore'[s].done) = 0 /\ 1..0 = {}
    <3>1. chore'[s].done = {}
      BY <1>4, <1>6
    <3> QED
      BY <3>1
  <2>3. heldBy(s)' = {chore'[s].list[i] : i \in 1..Cardinality(chore'[s].done)}
    BY <2>1, <2>2
  <2>4. \A i, j \in DOMAIN chore'[s].list : chore'[s].list[i] = chore'[s].list[j] => i = j
    BY <1>2, <1>3, <1>4, <1>6
  <2>5. Len(chore'[s].list) = n
    BY <1>3, <1>4, <1>6
  <2> QED
    BY <1>1, <1>4, <1>6, <2>1, <2>2, <2>3, <2>4, <2>5 DEF RowsWritten
<1>8. \A t \in Staff \ {s} : RowsWritten(t)' /\ heldBy(t)' = heldBy(t)
  BY <1>5, <1>6, <1>t, RowsStand
<1>9. RowsLocked' /\ Committed'
  <2>1. \A t \in Staff : heldBy(t)' = heldBy(t) /\ chore'[t].done = chore[t].done
    BY <1>4, <1>6, <1>7, <1>8
  <2>2. RowsLocked'
    BY <2>1 DEF CategoriesIInv, RowsLocked
  <2>3. Committed'
    BY <1>5, <2>1 DEF CategoriesIInv, Committed
  <2> QED
    BY <2>2, <2>3
<1>10. NoOrphan' /\ \A t \in Staff : ChoreHolds(t)'
  BY <1>4, <1>5, <1>6, <1>t DEF NoOrphan, ChoreHolds
<1>11. CategoriesTypeOK'
  BY <1>5, <1>6, <1>t, TypeOfChores DEF CategoriesTypeOK
<1> QED
  BY <1>6, <1>7, <1>8, <1>9, <1>10, <1>11, ChoresTyped

\* A transaction that ends lets go of its rows: they are as it wrote them, or as
\* it found them.
LEMMA EndHolds ==
  ASSUME CategoriesIInv, NEW s \in Staff, CommitReorder(s) \/ ChoreFails(s) \/ DeleteRow(s)
  PROVE  CategoriesIInv'
<1> USE IdleChore
<1>t. CategoriesTypeOK /\ chore \in [Staff -> Chore] /\ (\A t \in Staff : ChoreHolds(t) /\ RowsWritten(t))
      /\ NoOrphan /\ RowsLocked /\ Committed
  BY DEF CategoriesIInv
<1>1. chore' = [chore EXCEPT ![s] = ChoreIdle] /\ UNCHANGED <<dish, strayed>>
  BY DEF CommitReorder, ChoreFails, DeleteRow, choreDone
<1>2. /\ chore' \in [Staff -> Chore] /\ \A t \in Staff \ {s} : chore'[t] = chore[t]
      /\ chore'[s] = ChoreIdle
  BY <1>1, <1>t
<1>3. RowsWritten(s)' /\ heldBy(s)' = {} /\ ChoreHolds(s)'
  BY <1>2, NoRows DEF ChoreHolds
<1>4. \A t \in Staff \ {s} : ChoreHolds(t)' /\ heldBy(t)' = heldBy(t)
  BY <1>1, <1>2, <1>t DEF ChoreHolds, heldBy
<1>5. RowsLocked'
  BY <1>3, <1>4, <1>t DEF RowsLocked
<1> DEFINE Ended ==
      /\ DOMAIN listed' \subseteq Category /\ \A c \in DOMAIN listed' : listed'[c] \in Place
      /\ lastList' \in Seq(Category)
      /\ \A t \in Staff \ {s} : \A c \in heldBy(t) : c \in DOMAIN listed' => c \in DOMAIN listed /\ listed'[c] = listed[c]
      /\ Committed' /\ NoOrphan'
<1>6. Ended
  <2>1. CASE CommitReorder(s)
    <3>1. /\ chore[s].pc = "reorder" /\ Cardinality(chore[s].done) = Len(chore[s].list)
          /\ lastList' = IF DOMAIN listed = heldBy(s) THEN chore[s].list ELSE <<>>
          /\ UNCHANGED listed
      BY <2>1 DEF CommitReorder
    <3>2. chore[s].list \in Seq(Category) /\ <<>> \in Seq(Category)
      BY <1>t DEF Chore
    <3>3. Committed'
      <4>1. CASE DOMAIN listed = heldBy(s)
        <5> SUFFICES ASSUME NEW i \in DOMAIN chore[s].list
                     PROVE  /\ chore[s].list[i] \in DOMAIN listed /\ listed[chore[s].list[i]] = i - 1
                            /\ \A t \in Staff : \A q \in chore'[t].done : q[1] # chore[s].list[i]
          BY <3>1, <4>1 DEF Committed
        <5>1. i \in 1..Cardinality(chore[s].done)
          BY <3>1, <3>2
        <5>2. chore[s].list[i] \in heldBy(s) /\ listed[chore[s].list[i]] = i - 1
          BY <1>t, <4>1, <5>1 DEF RowsWritten
        <5>3. ASSUME NEW t \in Staff, NEW q \in chore'[t].done, q[1] = chore[s].list[i] PROVE FALSE
          <6>1. t # s
            BY <1>2, <5>3
          <6>2. q[1] \in heldBy(t)
            BY <1>2, <5>3, <6>1 DEF heldBy
          <6> QED
            BY <1>t, <5>2, <5>3, <6>1, <6>2 DEF RowsLocked
        <5> QED
          BY <4>1, <5>2, <5>3
      <4>2. CASE DOMAIN listed # heldBy(s)
        BY <3>1, <4>2 DEF Committed
      <4> QED
        BY <4>1, <4>2
    <3> QED
      BY <1>1, <1>t, <3>1, <3>2, <3>3 DEF CategoriesTypeOK, NoOrphan
  <2>2. CASE ChoreFails(s)
    <3> DEFINE saved(c) == (CHOOSE p \in chore[s].done : p[1] = c)[2]
    <3>1. /\ listed' = [c \in DOMAIN listed |-> IF c \in heldBy(s) THEN saved(c) ELSE listed[c]]
          /\ UNCHANGED lastList
      BY <2>2 DEF ChoreFails
    <3>2. ASSUME NEW c \in heldBy(s) PROVE \E p \in chore[s].done : p[1] = c /\ p[2] = saved(c) /\ saved(c) \in Place
      <4>1. PICK p : p = CHOOSE q \in chore[s].done : q[1] = c
        OBVIOUS
      <4>2. \E q \in chore[s].done : q[1] = c
        BY <3>2 DEF heldBy
      <4>3. p \in chore[s].done /\ p[1] = c
        BY <4>1, <4>2
      <4>4. p \in Category \X Place
        BY <1>t, <4>3 DEF Chore
      <4>5. p[2] = saved(c)
        BY <4>1
      <4>6. p[2] \in Place
        BY <4>4
      <4> QED
        BY <4>3, <4>5, <4>6
    <3> HIDE DEF saved
    <3>3. DOMAIN listed' = DOMAIN listed /\ \A c \in DOMAIN listed : listed'[c] = IF c \in heldBy(s) THEN saved(c) ELSE listed[c]
      BY <3>1
    <3>4. Committed'
      <4> SUFFICES ASSUME NEW i \in DOMAIN lastList
                   PROVE  /\ lastList[i] \in DOMAIN listed
                          /\ (\A t \in Staff : lastList[i] \notin heldBy(t)') => listed'[lastList[i]] = i - 1
                          /\ \A t \in Staff : \A q \in chore'[t].done : q[1] = lastList[i] => q[2] = i - 1
        BY <3>1, <3>3 DEF Committed
      <4>1. /\ lastList[i] \in DOMAIN listed
            /\ (\A t \in Staff : lastList[i] \notin heldBy(t)) => listed[lastList[i]] = i - 1
            /\ \A t \in Staff : \A q \in chore[t].done : q[1] = lastList[i] => q[2] = i - 1
        BY <1>t DEF Committed
      <4>2. \A t \in Staff : \A q \in chore'[t].done : q[1] = lastList[i] => q[2] = i - 1
        BY <1>2, <4>1
      <4>3. ASSUME \A t \in Staff : lastList[i] \notin heldBy(t)' PROVE listed'[lastList[i]] = i - 1
        <5>1. CASE lastList[i] \in heldBy(s)
          BY <3>2, <3>3, <4>1, <5>1
        <5>2. CASE lastList[i] \notin heldBy(s)
          BY <1>4, <3>3, <4>1, <4>3, <5>2
        <5> QED
          BY <5>1, <5>2
      <4> QED
        BY <4>1, <4>2, <4>3
    <3>5. \A t \in Staff \ {s} : \A c \in heldBy(t) : c \notin heldBy(s)
      BY <1>t DEF RowsLocked
    <3> QED
      BY <1>1, <1>t, <3>1, <3>2, <3>3, <3>4, <3>5 DEF CategoriesTypeOK, NoOrphan
  <2>3. CASE DeleteRow(s)
    <3> DEFINE c == chore[s].category
    <3>1. /\ chore[s].pc = "delete" /\ listed' = [x \in DOMAIN listed \ {c} |-> listed[x]]
          /\ lastList' = IF c \in DOMAIN listed THEN <<>> ELSE lastList
      BY <2>3 DEF DeleteRow
    <3>2. DOMAIN listed' = DOMAIN listed \ {c} /\ \A x \in DOMAIN listed \ {c} : listed'[x] = listed[x]
      BY <3>1
    <3>3. chore[s].done = {} /\ \A d \in Dish : dish[d].category = c => d \in strayed
      BY <1>t, <3>1 DEF ChoreHolds
    <3>4. \A t \in Staff : heldBy(t)' = heldBy(t) /\ chore'[t].done = chore[t].done
      BY <1>2, <1>3, <1>4, <3>3 DEF heldBy
    <3>5. Committed'
      BY <1>t, <3>1, <3>2, <3>4 DEF Committed
    <3>6. NoOrphan'
      BY <1>1, <1>t, <3>2, <3>3 DEF NoOrphan
    <3>7. lastList' \in Seq(Category)
      BY <1>t, <3>1 DEF CategoriesTypeOK
    <3>8. DOMAIN listed' \subseteq Category /\ \A x \in DOMAIN listed' : listed'[x] \in Place
      BY <1>t, <3>2 DEF CategoriesTypeOK
    <3> QED
      BY <3>2, <3>5, <3>6, <3>7, <3>8
  <2> QED
    BY <2>1, <2>2, <2>3
<1>7. \A t \in Staff \ {s} : RowsWritten(t)'
  BY <1>2, <1>t, <1>6, RowsStand
<1>8. CategoriesTypeOK'
  BY <1>1, <1>2, <1>6, <1>t, TypeOfChores DEF CategoriesTypeOK
<1> QED
  BY <1>2, <1>3, <1>4, <1>5, <1>6, <1>7, <1>8, ChoresTyped

LEMMA CategoriesStart == CategoriesInit => CategoriesIInv
<1> SUFFICES ASSUME CategoriesInit PROVE CategoriesIInv
  OBVIOUS
<1>1. chore \in [Staff -> Chore] /\ \A s \in Staff : chore[s] = ChoreIdle /\ heldBy(s) = {}
  BY IdleChore DEF heldBy, CategoriesInit
<1>2. \A c \in Category : 0 \in Place
  BY SomeCategory DEF Place
<1>3. CategoriesTypeOK
  BY <1>1, <1>2 DEF CategoriesTypeOK, DishState, Chore, CategoriesInit
<1>4. ASSUME NEW s \in Staff PROVE RowsWritten(s) /\ ChoreHolds(s)
  <2>1. chore[s].done = {} /\ chore[s].list = <<>> /\ chore[s].pc = "idle"
    BY <1>1, IdleChore
  <2>2. IsFiniteSet(chore[s].done) /\ Cardinality(chore[s].done) = 0 /\ 0 <= Cardinality(Category)
    BY <2>1, IdleChore
  <2>3. 1..0 = {} /\ Len(<<>>) = 0 /\ DOMAIN <<>> = {}
    OBVIOUS
  <2>4. heldBy(s) = {chore[s].list[i] : i \in 1..Cardinality(chore[s].done)}
    BY <1>1, <2>2, <2>3
  <2>5. RowsWritten(s)
    BY <2>1, <2>2, <2>3, <2>4 DEF RowsWritten
  <2> QED
    BY <2>1, <2>5 DEF ChoreHolds
<1>5. NoOrphan /\ Committed
  BY DEF CategoriesInit, NoOrphan, Committed
<1> QED
  BY <1>1, <1>3, <1>4, <1>5 DEF CategoriesIInv, RowsLocked

\* What the menu shows of its categories is whole: after any crossing of reorders
\* the list stands as one of them sent it, and no item is in a category that is
\* gone unless it was put there between the deletion's count and its end
\* (CategoriesRepository.reorder, MenuService.deleteCategory).
THEOREM CategoriesCorrect == CategoriesSpec => []CategoriesKept
<1>1. CategoriesIInv /\ [CategoriesNext]_categoryVars => CategoriesIInv'
  <2> SUFFICES ASSUME CategoriesIInv, [CategoriesNext]_categoryVars PROVE CategoriesIInv'
    OBVIOUS
  <2>1. ASSUME NEW s \in Staff, CategoriesStep(s) PROVE CategoriesIInv'
    BY <2>1, UpdateRowHolds, ChoreSteps, DishSteps, EndHolds, ReorderHolds DEF CategoriesStep
  <2>2. CASE UNCHANGED categoryVars
    <3>1. UNCHANGED <<listed, dish, lastList, chore, strayed>>
      BY <2>2 DEF categoryVars
    <3>2. (\A s \in Staff : RowsWritten(s)') /\ RowsLocked' /\ Committed'
      BY <3>1, QuietRows
    <3>3. NoOrphan' /\ (\A s \in Staff : ChoreHolds(s)') /\ CategoriesTypeOK'
      BY <3>1 DEF CategoriesIInv, NoOrphan, ChoreHolds, CategoriesTypeOK
    <3> QED
      BY <3>1, <3>2, <3>3, ChoresTyped DEF CategoriesIInv
  <2> QED
    BY <2>1, <2>2, RowSteps DEF CategoriesNext
<1>2. CategoriesIInv => CategoriesKept
  <2> SUFFICES ASSUME CategoriesIInv PROVE OrderIsWhole
    BY DEF CategoriesIInv, CategoriesKept
  <2> QED
    BY DEF CategoriesIInv, OrderIsWhole, Committed, heldBy
<1> QED
  BY <1>1, <1>2, CategoriesStart, PTL DEF CategoriesSpec

-----------------------------------------------------------------------------
(* A menu item's images (Images) *)

Job == [pc : {"idle", "head", "get", "copy", "append", "renumber", "look", "commit"},
        key : PendingKey \cup {NoContent}, etag : Content \cup {NoContent}, born : 0..MaxImages,
        adds : SUBSET Image, removes : SUBSET (1..MaxImages),
        moves : SUBSET [born : 1..MaxImages, to : 0..(MaxImages - 1)],
        first : Content \cup {NoContent}, late : BOOLEAN]

\* The transactions that have begun and are under way, and those that are over.
Underway == {imageJob[j].born : j \in ImageJob}
Over == {b \in 1..births : b \notin Underway}

\* No position exceeds the number of transactions that are over, so one more
\* than the last position still fits.
RowsHold ==
  \A x \in images :
    /\ x.born \in Over /\ x.position < Cardinality(Over)
    /\ x.url \in Picture /\ objects[x.url] = x.url

BornApart == \A i, j \in ImageJob : imageJob[i].born = imageJob[j].born /\ imageJob[j].born # 0 => i = j

\* What a slot adds was verified, and what it saw is still so unless it is late.
JobHolds(j) ==
  /\ imageJob[j].born \in 0..births
  /\ imageJob[j].pc \in {"head", "get", "copy", "append"} => imageJob[j].adds = {}
  /\ imageJob[j].pc = "head" => imageJob[j].key \in PendingKey
  /\ imageJob[j].pc \in {"copy", "append"} => imageJob[j].etag \in Picture
  /\ imageJob[j].pc = "append" => imageJob[j].born # 0 /\ objects[imageJob[j].etag] = imageJob[j].etag
  /\ \A x, y \in imageJob[j].adds : x = y
  /\ \A x \in imageJob[j].adds :
       /\ x.born = imageJob[j].born /\ x.born # 0 /\ x.position <= Cardinality(Over)
       /\ x.url \in Picture /\ objects[x.url] = x.url
  /\ \A m \in imageJob[j].moves : m.to < Cardinality(Over)
  /\ imageJob[j].pc = "commit" /\ ~imageJob[j].late => imageJob[j].first = primaryOf(changedBy(j))

ImagesIInv ==
  /\ ImagesTypeOK /\ imageJob \in [ImageJob -> Job]
  /\ RowsHold /\ BornApart /\ PrimaryIsFirst
  /\ \A j \in ImageJob : JobHolds(j)

LEMMA LeastExists ==
  ASSUME NEW S \in SUBSET Nat, S # {}
  PROVE  \E m \in S : \A n \in S : m <= n
<1>1. PICK s \in S : s \in Nat
  OBVIOUS
<1> DEFINE T == {s - n : n \in S \cap (0..s)}
<1>2. T \in SUBSET (0..s) /\ s - s \in T
  BY <1>1
<1>3. IsFiniteSet(T)
  <2>1. IsFiniteSet(0..s)
    BY <1>1, FS_Interval
  <2> HIDE DEF T
  <2> QED
    BY <1>2, <2>1, FS_Subset
<1>4. T \in SUBSET Nat /\ T # {}
  BY <1>1, <1>2
<1> HIDE DEF T
<1>5. PICK t \in T : \A u \in T : u <= t
  BY <1>3, <1>4, GreatestExists
<1>6. PICK m \in S \cap (0..s) : t = s - m
  BY DEF T
<1>7. ASSUME NEW n \in S PROVE m <= n
  <2>1. CASE n <= s
    <3>1. s - n \in T
      BY <1>1, <2>1 DEF T
    <3>2. s - n <= s - m
      BY <1>5, <1>6, <3>1
    <3> QED
      BY <1>1, <1>6, <3>2
  <2>2. CASE ~(n <= s)
    BY <1>1, <1>6, <2>2
  <2> QED
    BY <2>1, <2>2
<1> QED
  BY <1>6, <1>7

\* Any rows have a first one.
LEMMA FirstExists ==
  ASSUME NEW rows \in SUBSET Image
  PROVE  primaryOf(rows) \in Content \cup {NoContent}
<1>0. CASE rows = {}
  BY <1>0 DEF primaryOf
<1>t. \A x \in rows : x.position \in Nat /\ x.born \in Nat /\ x.url \in Content
  BY ImagesAssumption DEF Image
<1>1. CASE rows # {}
  <2>1. PICK p \in {x.position : x \in rows} : \A q \in {x.position : x \in rows} : p <= q
    <3>1. {x.position : x \in rows} \in SUBSET Nat /\ {x.position : x \in rows} # {}
      BY <1>1, <1>t
    <3> QED
      BY <3>1, LeastExists
  <2> DEFINE least == {x \in rows : x.position = p}
  <2>2. PICK b \in {x.born : x \in least} : \A c \in {x.born : x \in least} : b <= c
    <3>1. {x.born : x \in least} \in SUBSET Nat /\ {x.born : x \in least} # {}
      BY <1>t, <2>1
    <3> QED
      BY <3>1, LeastExists
  <2>3. PICK x \in least : x.born = b
    BY <2>2
  <2>4. ASSUME NEW y \in rows PROVE ~before(y, x)
    <3>1. x \in rows /\ x.position = p /\ x.born = b /\ p <= y.position
      BY <2>1, <2>3
    <3>2. y.position = p => b <= y.born
      BY <2>2
    <3>3. p \in Nat /\ b \in Nat /\ y.position \in Nat /\ y.born \in Nat
      BY <1>t, <3>1
    <3> QED
      BY <3>1, <3>2, <3>3 DEF before
  <2>5. rank(x, rows) = 0
    <3>1. {y \in rows : before(y, x)} = {}
      BY <2>4
    <3> QED
      BY <3>1, FS_EmptySet DEF rank
  <2>6. (CHOOSE y \in rows : rank(y, rows) = 0) \in rows
    BY <2>3, <2>5
  <2> QED
    BY <1>1, <1>t, <2>6 DEF primaryOf
<1> QED
  BY <1>0, <1>1

LEMMA OverCounts ==
  ASSUME births \in 0..MaxImages
  PROVE  IsFiniteSet(Over) /\ Cardinality(Over) \in Nat /\ Cardinality(Over) <= births
<1>1. births \in Nat /\ IsFiniteSet(1..births) /\ Cardinality(1..births) = births
  BY ImagesAssumption, FS_Interval
<1>2. Over \in SUBSET (1..births)
  BY DEF Over
<1> QED
  BY <1>1, <1>2, FS_Subset, FS_CardinalityType

\* What is over stays over, as long as transactions begin with new numbers.
LEMMA OverGrows ==
  ASSUME births \in 0..MaxImages, births' \in 0..MaxImages, births <= births',
         \A j \in ImageJob : imageJob'[j].born \in {imageJob[j].born, 0} \cup (births + 1)..births'
  PROVE  Over \subseteq Over' /\ Cardinality(Over) <= Cardinality(Over)' /\ Cardinality(Over)' \in Nat
<1>0. births \in Nat /\ births' \in Nat /\ MaxImages \in Nat
  BY ImagesAssumption
<1>1. ASSUME NEW b \in Over PROVE b \in Over'
  <2>1. b \in 1..births /\ b \in 1..births' /\ b \notin Underway
    BY <1>0, <1>1 DEF Over
  <2>2. ASSUME NEW j \in ImageJob, imageJob'[j].born = b PROVE FALSE
    <3>1. imageJob[j].born # b
      BY <2>1 DEF Underway
    <3> QED
      BY <1>0, <2>1, <2>2, <3>1
  <2> QED
    BY <2>1, <2>2 DEF Over, Underway
<1>2. IsFiniteSet(Over') /\ Cardinality(Over') \in Nat
  <2>1. IsFiniteSet(1..births')
    BY <1>0, FS_Interval
  <2>2. Over' \in SUBSET (1..births')
    BY DEF Over
  <2> QED
    BY <2>1, <2>2, FS_Subset, FS_CardinalityType
<1>3. Over \in SUBSET Over'
  BY <1>1
<1>4. Cardinality(Over) <= Cardinality(Over')
  BY <1>2, <1>3, FS_Subset
<1> QED
  BY <1>2, <1>3, <1>4

\* There are no more rows than transactions that are over.
LEMMA RowsCounted ==
  ASSUME ImagesTypeOK, RowsHold, NEW rows \in SUBSET images
  PROVE  IsFiniteSet(rows) /\ Cardinality(rows) \in Nat /\ Cardinality(rows) <= Cardinality(Over)
<1> DEFINE f == [x \in rows |-> x.born]
<1>1. f \in [rows -> Over]
  BY DEF RowsHold
<1>2. \A x, y \in rows : f[x] = f[y] => x = y
  BY DEF ImagesTypeOK
<1>3. f \in Injection(rows, Over)
  BY <1>1, <1>2 DEF Injection, IsInjective
<1>4. IsFiniteSet(Over) /\ Cardinality(Over) \in Nat
  BY OverCounts DEF ImagesTypeOK
<1> HIDE DEF f
<1>5. IsFiniteSet(rows) /\ Cardinality(rows) <= Cardinality(Over)
  BY <1>3, <1>4, FS_Injection
<1> QED
  BY <1>5, FS_CardinalityType

\* The next position still fits.
LEMMA NextFits ==
  ASSUME ImagesTypeOK, RowsHold
  PROVE  nextPosition(images) \in Nat /\ nextPosition(images) <= Cardinality(Over)
<1> DEFINE P == {x.position : x \in images}
<1>1. Cardinality(Over) \in Nat
  BY OverCounts DEF ImagesTypeOK
<1>2. P \in SUBSET Nat /\ \A p \in P : p < Cardinality(Over)
  BY ImagesAssumption DEF ImagesTypeOK, RowsHold, Image
<1>3. IsFiniteSet(P)
  <2>1. P \in SUBSET (0..Cardinality(Over))
    BY <1>1, <1>2
  <2>2. IsFiniteSet(0..Cardinality(Over))
    BY <1>1, FS_Interval
  <2> HIDE DEF P
  <2> QED
    BY <2>1, <2>2, FS_Subset
<1>4. nextPosition(images) = Max({-1} \cup P) + 1
  BY DEF nextPosition
<1> HIDE DEF P
<1>5. \E m \in {-1} \cup P : \A n \in {-1} \cup P : m >= n
  <2>1. CASE P = {}
    BY <2>1
  <2>2. CASE P # {}
    <3>1. PICK m \in P : \A n \in P : n <= m
      BY <1>2, <1>3, <2>2, GreatestExists
    <3> QED
      BY <1>2, <3>1
  <2> QED
    BY <2>1, <2>2
<1>6. Max({-1} \cup P) \in {-1} \cup P
  BY <1>5 DEF Max
<1>7. PICK m : m = Max({-1} \cup P)
  OBVIOUS
<1>8. m + 1 \in Nat /\ m + 1 <= Cardinality(Over)
  <2>1. CASE m = -1
    BY <1>1, <2>1
  <2>2. CASE m \in P
    BY <1>1, <1>2, <2>2
  <2> QED
    BY <1>6, <1>7, <2>1, <2>2
<1> QED
  BY <1>4, <1>7, <1>8

\* The rows a transaction sees: the committed ones, some moved, and its own.
LEMMA Seen ==
  ASSUME ImagesIInv, NEW j \in ImageJob
  PROVE  /\ changedBy(j) \subseteq Image
         /\ \A x, y \in changedBy(j) : x.born = y.born => x = y
         /\ \A x \in changedBy(j) :
              /\ x.url \in Picture /\ objects[x.url] = x.url
              /\ \/ x.born \in Over /\ x.position < Cardinality(Over)
                 \/ x.born = imageJob[j].born /\ x.born # 0 /\ x.position <= Cardinality(Over)
<1>t. ImagesTypeOK /\ imageJob[j] \in Job /\ RowsHold /\ JobHolds(j)
  BY DEF ImagesIInv
<1> DEFINE stays == {y \in images : y.born \notin imageJob[j].removes}
           moved(x) == [x EXCEPT !.position = IF \E m \in imageJob[j].moves : m.born = x.born
                          THEN (CHOOSE m \in imageJob[j].moves : m.born = x.born).to ELSE @]
<1>1. changedBy(j) = {moved(x) : x \in stays} \cup imageJob[j].adds
  BY DEF changedBy
<1>2. ASSUME NEW x \in images
      PROVE  /\ moved(x) \in Image /\ moved(x).born = x.born /\ moved(x).url = x.url
             /\ moved(x).position < Cardinality(Over)
  <2>1. x \in Image /\ x.position < Cardinality(Over)
    BY <1>t DEF ImagesTypeOK, RowsHold
  <2>2. PICK p : p = IF \E m \in imageJob[j].moves : m.born = x.born
                     THEN (CHOOSE m \in imageJob[j].moves : m.born = x.born).to ELSE x.position
    OBVIOUS
  <2>3. p \in 0..(MaxImages - 1) /\ p < Cardinality(Over)
    <3>1. CASE \E m \in imageJob[j].moves : m.born = x.born
      <4>1. PICK m : m = CHOOSE n \in imageJob[j].moves : n.born = x.born
        OBVIOUS
      <4>2. m \in imageJob[j].moves
        BY <3>1, <4>1
      <4>3. p = m.to
        BY <2>2, <3>1, <4>1
      <4>4. m.to \in 0..(MaxImages - 1)
        BY <1>t, <4>2 DEF Job
      <4>5. m.to < Cardinality(Over)
        BY <1>t, <4>2 DEF JobHolds
      <4> QED
        BY <4>3, <4>4, <4>5
    <3>2. CASE ~\E m \in imageJob[j].moves : m.born = x.born
      BY <2>1, <2>2, <3>2 DEF Image
    <3> QED
      BY <3>1, <3>2
  <2>4. moved(x) = [x EXCEPT !.position = p]
    BY <2>2
  <2> HIDE DEF moved
  <2> QED
    BY <2>1, <2>3, <2>4 DEF Image
<1> HIDE DEF moved
<1>3. \A x \in imageJob[j].adds : x \in Image
  BY <1>t DEF Job
<1>4. changedBy(j) \subseteq Image
  BY <1>1, <1>2, <1>3
<1>5. ASSUME NEW x \in changedBy(j)
      PROVE  /\ x.url \in Picture /\ objects[x.url] = x.url
             /\ \/ x.born \in Over /\ x.position < Cardinality(Over)
                \/ x.born = imageJob[j].born /\ x.born # 0 /\ x.position <= Cardinality(Over)
  <2>1. CASE x \in imageJob[j].adds
    BY <1>t, <2>1 DEF JobHolds
  <2>2. CASE x \notin imageJob[j].adds
    <3>1. PICK y \in images : x = moved(y)
      BY <1>1, <1>5, <2>2
    <3> QED
      BY <1>2, <1>t, <3>1 DEF RowsHold
  <2> QED
    BY <2>1, <2>2
<1>6. ASSUME NEW x \in changedBy(j), NEW y \in changedBy(j), x.born = y.born PROVE x = y
  <2>0. imageJob[j].born \notin Over
    BY DEF Over, Underway
  <2>1. CASE x \in imageJob[j].adds /\ y \in imageJob[j].adds
    BY <1>t, <2>1 DEF JobHolds
  <2>2. ASSUME NEW u \in imageJob[j].adds, NEW v \in images, u.born = v.born PROVE FALSE
    BY <1>t, <2>0, <2>2 DEF JobHolds, RowsHold
  <2>3. CASE x \notin imageJob[j].adds /\ y \notin imageJob[j].adds
    <3>1. PICK u \in images, v \in images : x = moved(u) /\ y = moved(v)
      BY <1>1, <2>3
    <3>2. u = v
      BY <1>2, <1>6, <1>t, <3>1 DEF ImagesTypeOK
    <3> QED
      BY <3>1, <3>2
  <2>4. ASSUME NEW u \in changedBy(j), NEW v \in changedBy(j), u \in imageJob[j].adds, v \notin imageJob[j].adds, u.born = v.born
        PROVE  FALSE
    <3>1. PICK w \in images : v = moved(w)
      BY <1>1, <2>4
    <3> QED
      BY <1>2, <2>2, <2>4, <3>1
  <2> QED
    BY <1>6, <2>1, <2>3, <2>4
<1> QED
  BY <1>4, <1>5, <1>6

LEMMA StepTyped ==
  ASSUME imageJob \in [ImageJob -> Job], NEW j \in ImageJob, NEW from, NEW to \in Job, step(j, from, to)
  PROVE  /\ imageJob' \in [ImageJob -> Job] /\ imageJob'[j] = to /\ imageJob[j].pc = from
         /\ \A i \in ImageJob \ {j} : imageJob'[i] = imageJob[i]
BY DEF step

LEMMA IdleJob ==
  /\ ImageIdle \in Job /\ ImageIdle.pc = "idle" /\ ImageIdle.born = 0 /\ ImageIdle.adds = {}
  /\ ImageIdle.removes = {} /\ ImageIdle.moves = {}
BY ImagesAssumption DEF ImageIdle, Job

\* A slot's claims stand when its own record does and the list is not committed.
LEMMA OtherStands ==
  ASSUME NEW i, JobHolds(i), imageJob'[i] = imageJob[i], images' = images, births <= births',
         births \in Nat, births' \in Nat,
         Cardinality(Over) \in Nat, Cardinality(Over)' \in Nat, Cardinality(Over) <= Cardinality(Over)',
         imageJob[i] \in Job,
         \A h \in Picture : objects[h] = h => objects'[h] = h
  PROVE  JobHolds(i)'
<1>1. changedBy(i)' = changedBy(i)
  BY DEF changedBy
<1>2. \A x \in imageJob[i].adds : x.position \in Nat
  BY ImagesAssumption DEF Job, Image
<1>3. \A m \in imageJob[i].moves : m.to \in Nat
  BY ImagesAssumption DEF Job
<1>4. imageJob'[i].born \in 0..births'
  BY DEF JobHolds
<1>5. \A x \in imageJob'[i].adds :
       /\ x.born = imageJob'[i].born /\ x.born # 0 /\ x.position <= Cardinality(Over)'
       /\ x.url \in Picture /\ objects'[x.url] = x.url
  BY <1>2 DEF JobHolds
<1>6. \A m \in imageJob'[i].moves : m.to < Cardinality(Over)'
  BY <1>3 DEF JobHolds
<1>7. imageJob'[i].pc = "append" => imageJob'[i].born # 0 /\ objects'[imageJob'[i].etag] = imageJob'[i].etag
  BY DEF JobHolds
<1>8. imageJob'[i].pc = "commit" /\ ~imageJob'[i].late => imageJob'[i].first = primaryOf(changedBy(i)')
  BY <1>1 DEF JobHolds
<1>9. /\ imageJob'[i].pc \in {"head", "get", "copy", "append"} => imageJob'[i].adds = {}
      /\ imageJob'[i].pc = "head" => imageJob'[i].key \in PendingKey
      /\ imageJob'[i].pc \in {"copy", "append"} => imageJob'[i].etag \in Picture
      /\ \A x, y \in imageJob'[i].adds : x = y
  BY DEF JobHolds
<1>10. primaryOf(changedBy(i))' = primaryOf(changedBy(i)')
  BY DEF primaryOf, rank, before
<1> QED
  BY <1>4, <1>5, <1>6, <1>7, <1>8, <1>9, <1>10 DEF JobHolds

LEMMA TypeKept ==
  ASSUME posted' \in [PendingKey -> Content \cup {NoContent}], objects' \in [Content -> Content \cup {NoContent}],
         images' \subseteq Image, imageUrl' \in Content \cup {NoContent}, missed' \in BOOLEAN,
         births' \in 0..MaxImages, \A x, y \in images' : x.born = y.born => x = y,
         imageJob' \in [ImageJob -> Job]
  PROVE  ImagesTypeOK'
<1>1. ASSUME NEW j \in ImageJob
      PROVE  /\ imageJob'[j].adds \subseteq Image /\ imageJob'[j].removes \subseteq 1..MaxImages
             /\ imageJob'[j].moves \subseteq [born : 1..MaxImages, to : 0..(MaxImages - 1)]
  BY DEF Job
<1> QED
  BY <1>1 DEF ImagesTypeOK

\* A step of one request that leaves the list: what it has to show.
LEMMA OneStep ==
  ASSUME ImagesIInv, NEW j \in ImageJob, NEW to \in Job, NEW from, step(j, from, to),
         UNCHANGED <<images, imageUrl, missed>>,
         births' \in 0..MaxImages, births <= births', to.born \in {imageJob[j].born, 0} \cup (births + 1)..births',
         posted' \in [PendingKey -> Content \cup {NoContent}], objects' \in [Content -> Content \cup {NoContent}],
         \A h \in Picture : objects[h] = h => objects'[h] = h
  PROVE  /\ imageJob' \in [ImageJob -> Job] /\ imageJob'[j] = to /\ imageJob[j].pc = from
         /\ Cardinality(Over) \in Nat /\ Cardinality(Over)' \in Nat /\ Cardinality(Over) <= Cardinality(Over)'
         /\ JobHolds(j)' => ImagesIInv'
<1>t. ImagesTypeOK /\ imageJob \in [ImageJob -> Job] /\ RowsHold /\ BornApart /\ PrimaryIsFirst
      /\ \A i \in ImageJob : JobHolds(i)
  BY DEF ImagesIInv
<1>n. births \in 0..MaxImages /\ births \in Nat /\ births' \in Nat
  BY <1>t, ImagesAssumption DEF ImagesTypeOK
<1>1. /\ imageJob' \in [ImageJob -> Job] /\ imageJob'[j] = to /\ imageJob[j].pc = from
      /\ \A i \in ImageJob \ {j} : imageJob'[i] = imageJob[i]
  BY <1>t, StepTyped
<1>2. \A i \in ImageJob : imageJob'[i].born \in {imageJob[i].born, 0} \cup (births + 1)..births'
  BY <1>1
<1>3. /\ Over \subseteq Over' /\ Cardinality(Over) <= Cardinality(Over)' /\ Cardinality(Over)' \in Nat
      /\ Cardinality(Over) \in Nat
  BY <1>n, <1>2, OverGrows, OverCounts
<1>4. ASSUME NEW i \in ImageJob \ {j} PROVE JobHolds(i)'
  BY <1>1, <1>3, <1>n, <1>t, OtherStands
<1>5. RowsHold'
  <2>1. \A x \in images : x.position \in Nat
    BY <1>t, ImagesAssumption DEF ImagesTypeOK, Image
  <2> QED
    BY <1>3, <1>t, <2>1 DEF RowsHold
<1>6. BornApart'
  <2>1. \A i \in ImageJob : imageJob[i].born \in 0..births
    BY <1>t DEF JobHolds
  <2>2. ASSUME NEW i \in ImageJob \ {j}, imageJob'[i].born = imageJob'[j].born, imageJob'[j].born # 0 PROVE FALSE
    BY <1>1, <1>n, <1>t, <2>1, <2>2 DEF BornApart
  <2> QED
    BY <1>1, <1>t, <2>2 DEF BornApart
<1>7. PrimaryIsFirst'
  <2>1. primaryOf(images)' = primaryOf(images)
    BY DEF primaryOf, rank, before
  <2> QED
    BY <1>t, <2>1 DEF PrimaryIsFirst
<1>8. ImagesTypeOK'
  BY <1>1, <1>t, TypeKept DEF ImagesTypeOK
<1> QED
  BY <1>1, <1>3, <1>4, <1>5, <1>6, <1>7, <1>8 DEF ImagesIInv

LEMMA StorageSteps ==
  ASSUME ImagesIInv, NEW j \in ImageJob,
         (\E k \in PendingKey : ConfirmItemImageUpload(j, k)) \/ HeadObject(j) \/ GetObject(j) \/ CopyObject(j)
  PROVE  ImagesIInv'
<1>t. ImagesTypeOK /\ imageJob[j] \in Job /\ JobHolds(j)
  BY DEF ImagesIInv
<1>n. births \in 0..MaxImages /\ births \in Nat /\ MaxImages \in Nat
  BY <1>t, ImagesAssumption DEF ImagesTypeOK
<1>p. /\ posted \in [PendingKey -> Content \cup {NoContent}] /\ objects \in [Content -> Content \cup {NoContent}]
      /\ imageJob[j].born \in Nat
  BY <1>t DEF ImagesTypeOK, Job
<1>1. ASSUME NEW k \in PendingKey, ConfirmItemImageUpload(j, k) PROVE ImagesIInv'
  <2>1. PICK to : to = [ImageIdle EXCEPT !.pc = "head", !.key = k]
    OBVIOUS
  <2>2. to \in Job /\ to.pc = "head" /\ to.adds = {} /\ to.moves = {} /\ to.born = 0 /\ to.key = k
    BY <2>1, IdleJob DEF Job
  <2>3. step(j, "idle", to) /\ UNCHANGED <<posted, objects, images, imageUrl, missed, births>>
    BY <1>1, <2>1 DEF ConfirmItemImageUpload, storeVars, listVars
  <2>4. imageJob'[j] = to /\ (JobHolds(j)' => ImagesIInv')
    BY <1>n, <1>p, <2>2, <2>3, OneStep
  <2> QED
    BY <1>n, <2>2, <2>3, <2>4 DEF JobHolds
<1>2. ASSUME HeadObject(j) PROVE ImagesIInv'
  <2>1. PICK to : to = [imageJob[j] EXCEPT !.pc = "get", !.etag = posted[imageJob[j].key]]
    OBVIOUS
  <2>2. /\ step(j, "head", to) /\ UNCHANGED <<posted, objects, images, imageUrl, missed, births>>
        /\ imageJob[j].pc = "head" /\ posted[imageJob[j].key] # NoContent
    BY <1>2, <2>1 DEF HeadObject, storeVars, listVars, step
  <2>k. posted[imageJob[j].key] \in Content \cup {NoContent}
    <3>1. imageJob[j].key \in PendingKey
      BY <1>t, <2>2 DEF JobHolds
    <3> QED
      BY <1>p, <3>1
  <2>3. to \in Job /\ to.pc = "get" /\ to.adds = imageJob[j].adds /\ to.moves = imageJob[j].moves /\ to.born = imageJob[j].born
    BY <1>t, <2>1, <2>k DEF Job
  <2>4. /\ imageJob'[j] = to /\ (JobHolds(j)' => ImagesIInv')
        /\ Cardinality(Over) \in Nat /\ Cardinality(Over)' \in Nat /\ Cardinality(Over) <= Cardinality(Over)'
    BY <1>n, <1>p, <2>2, <2>3, OneStep
  <2>5. to.adds = {} /\ \A m \in to.moves : m.to \in Nat /\ m.to < Cardinality(Over)
    BY <1>t, <2>2, <2>3, ImagesAssumption DEF JobHolds, Job
  <2> QED
    BY <1>n, <1>t, <2>2, <2>3, <2>4, <2>5 DEF JobHolds
<1>3. ASSUME GetObject(j) PROVE ImagesIInv'
  <2>1. PICK to : to = [imageJob[j] EXCEPT !.pc = "copy"]
    OBVIOUS
  <2>2. /\ step(j, "get", to) /\ UNCHANGED <<posted, objects, images, imageUrl, missed, births>>
        /\ imageJob[j].pc = "get" /\ imageJob[j].etag \in Picture
    BY <1>3, <2>1 DEF GetObject, storeVars, listVars, step
  <2>3. /\ to \in Job /\ to.pc = "copy" /\ to.adds = imageJob[j].adds /\ to.moves = imageJob[j].moves
        /\ to.born = imageJob[j].born /\ to.etag = imageJob[j].etag
    BY <1>t, <2>1 DEF Job
  <2>4. /\ imageJob'[j] = to /\ (JobHolds(j)' => ImagesIInv')
        /\ Cardinality(Over) \in Nat /\ Cardinality(Over)' \in Nat /\ Cardinality(Over) <= Cardinality(Over)'
    BY <1>n, <1>p, <2>2, <2>3, OneStep
  <2>5. to.adds = {} /\ \A m \in to.moves : m.to \in Nat /\ m.to < Cardinality(Over)
    BY <1>t, <2>2, <2>3, ImagesAssumption DEF JobHolds, Job
  <2> QED
    BY <1>n, <1>t, <2>2, <2>3, <2>4, <2>5 DEF JobHolds
<1>4. ASSUME CopyObject(j) PROVE ImagesIInv'
  <2>1. PICK to : to = [imageJob[j] EXCEPT !.pc = "append", !.born = births + 1]
    OBVIOUS
  <2>2. /\ step(j, "copy", to) /\ UNCHANGED <<posted, images, imageUrl, missed>>
        /\ imageJob[j].pc = "copy" /\ births < MaxImages /\ births' = births + 1
        /\ objects' = [objects EXCEPT ![imageJob[j].etag] = posted[imageJob[j].key]]
        /\ posted[imageJob[j].key] = imageJob[j].etag
    BY <1>4, <2>1 DEF CopyObject, copyObject, step, unchanged
  <2>3. births + 1 \in 0..MaxImages /\ births + 1 \in (births + 1)..births' /\ births <= births' /\ births + 1 # 0
    BY <1>n, <2>2
  <2>4. /\ to \in Job /\ to.pc = "append" /\ to.adds = imageJob[j].adds /\ to.moves = imageJob[j].moves
        /\ to.born = births + 1 /\ to.etag = imageJob[j].etag
    BY <1>t, <2>1, <2>3 DEF Job
  <2>5. imageJob[j].etag \in Picture /\ imageJob[j].etag \in Content /\ to.adds = {}
    BY <1>t, <2>2, <2>4 DEF JobHolds, Content
  <2>6. /\ objects' \in [Content -> Content \cup {NoContent}] /\ objects'[imageJob[j].etag] = imageJob[j].etag
        /\ \A h \in Picture : objects[h] = h => objects'[h] = h
    BY <1>p, <2>2, <2>5 DEF Content
  <2>7. /\ imageJob'[j] = to /\ (JobHolds(j)' => ImagesIInv')
        /\ Cardinality(Over) \in Nat /\ Cardinality(Over)' \in Nat /\ Cardinality(Over) <= Cardinality(Over)'
    BY <1>n, <1>p, <2>2, <2>3, <2>4, <2>6, OneStep
  <2>8. \A m \in to.moves : m.to \in Nat /\ m.to < Cardinality(Over)
    BY <1>t, <2>4, ImagesAssumption DEF JobHolds, Job
  <2> QED
    BY <1>n, <2>2, <2>3, <2>4, <2>5, <2>6, <2>7, <2>8 DEF JobHolds
<1> QED
  BY <1>1, <1>2, <1>3, <1>4

\* A row's place among committed rows is below their number.
LEMMA RankBounded ==
  ASSUME ImagesTypeOK, RowsHold, NEW rest \in SUBSET images, NEW y \in rest
  PROVE  rank(y, rest) \in Nat /\ rank(y, rest) < Cardinality(Over)
<1> DEFINE front == {z \in rest : before(z, y)}
<1>1. IsFiniteSet(rest) /\ Cardinality(rest) \in Nat /\ Cardinality(rest) <= Cardinality(Over)
  BY RowsCounted
<1>2. ~before(y, y)
  BY ImagesAssumption DEF before, ImagesTypeOK, Image
<1>3. front \in SUBSET rest /\ front # rest
  BY <1>2
<1>4. Cardinality(Over) \in Nat
  BY OverCounts DEF ImagesTypeOK
<1> HIDE DEF front
<1>5. Cardinality(front) <= Cardinality(rest) /\ IsFiniteSet(front) /\ (Cardinality(rest) = Cardinality(front) => rest = front)
  BY <1>1, <1>3, FS_Subset
<1>6. Cardinality(front) \in Nat
  BY <1>5, FS_CardinalityType
<1>7. rank(y, rest) = Cardinality(front)
  BY DEF rank, front
<1> QED
  BY <1>1, <1>3, <1>4, <1>5, <1>6, <1>7

LEMMA ListSteps ==
  ASSUME ImagesIInv, NEW j \in ImageJob,
         AppendImage(j) \/ (\E x \in images : RemoveItemImage(j, x)) \/ Renumber(j) \/ SyncPrimary(j) \/ Fail(j)
  PROVE  ImagesIInv'
<1>t. ImagesTypeOK /\ imageJob[j] \in Job /\ JobHolds(j) /\ RowsHold
  BY DEF ImagesIInv
<1>n. births \in 0..MaxImages /\ births \in Nat /\ MaxImages \in Nat
  BY <1>t, ImagesAssumption DEF ImagesTypeOK
<1>p. /\ posted \in [PendingKey -> Content \cup {NoContent}] /\ objects \in [Content -> Content \cup {NoContent}]
      /\ imageJob[j].born \in 0..births /\ imageJob[j].born \in Nat
  BY <1>t DEF ImagesTypeOK, JobHolds, Job
<1>o. Cardinality(Over) \in Nat /\ Cardinality(Over) <= births
  BY <1>n, OverCounts
<1>u. UNCHANGED <<posted, objects, images, imageUrl, missed, births>>
  BY DEF AppendImage, RemoveItemImage, Renumber, SyncPrimary, Fail, storeVars, listVars
<1>m. \A m \in imageJob[j].moves : m.to \in Nat /\ m.to < Cardinality(Over)
  BY <1>t, ImagesAssumption DEF JobHolds, Job
<1>a. \A x \in imageJob[j].adds : x.position \in Nat /\ x.url \in Picture
  BY <1>t, ImagesAssumption DEF Job, Image, JobHolds
<1>1. ASSUME AppendImage(j) PROVE ImagesIInv'
  <2> DEFINE row == [born |-> imageJob[j].born, url |-> imageJob[j].etag, position |-> nextPosition(images)]
  <2>1. PICK to : to = [imageJob[j] EXCEPT !.pc = "look", !.adds = {row}]
    OBVIOUS
  <2>2. step(j, "append", to) /\ imageJob[j].pc = "append"
    BY <1>1, <2>1 DEF AppendImage, step
  <2>3. /\ imageJob[j].born # 0 /\ imageJob[j].etag \in Picture /\ objects[imageJob[j].etag] = imageJob[j].etag
    BY <1>t, <2>2 DEF JobHolds
  <2>o. Cardinality(Over) <= births - 1
    <3>1. imageJob[j].born \in 1..births /\ imageJob[j].born \notin Over
      BY <1>n, <1>p, <2>3 DEF Over, Underway
    <3>2. Over \in SUBSET (1..births) /\ Over # 1..births
      BY <3>1 DEF Over
    <3>3. IsFiniteSet(1..births) /\ Cardinality(1..births) = births
      BY <1>n, FS_Interval
    <3>4. Cardinality(Over) # births
      BY <3>2, <3>3, FS_Subset
    <3> QED
      BY <1>n, <1>o, <3>4
  <2>4. nextPosition(images) \in 0..(MaxImages - 1) /\ nextPosition(images) <= Cardinality(Over)
    BY <1>n, <1>o, <1>t, <2>o, NextFits
  <2>5. /\ row \in Image /\ row.born = imageJob[j].born /\ row.url = imageJob[j].etag
        /\ row.position <= Cardinality(Over) /\ row.position \in Nat
    BY <1>n, <1>p, <2>3, <2>4 DEF Image, Content
  <2> HIDE DEF row
  <2>6. /\ to \in Job /\ to.pc = "look" /\ to.adds = {row} /\ to.moves = imageJob[j].moves /\ to.born = imageJob[j].born
    BY <1>t, <2>1, <2>5 DEF Job
  <2>7. /\ imageJob'[j] = to /\ (JobHolds(j)' => ImagesIInv')
        /\ Cardinality(Over)' \in Nat /\ Cardinality(Over) <= Cardinality(Over)'
    BY <1>n, <1>p, <1>u, <2>2, <2>6, OneStep
  <2> QED
    BY <1>m, <1>n, <1>o, <1>p, <1>u, <2>3, <2>5, <2>6, <2>7 DEF JobHolds
<1>2. ASSUME NEW x \in images, RemoveItemImage(j, x) PROVE ImagesIInv'
  <2> DEFINE rest == {y \in images : y.born # x.born}
             moves == {[born |-> y.born, to |-> rank(y, rest)] : y \in {z \in rest : z.position # rank(z, rest)}}
  <2>1. PICK to : to = [ImageIdle EXCEPT !.pc = "renumber", !.removes = {x.born}, !.moves = moves]
    OBVIOUS
  <2>2. step(j, "idle", to)
    BY <1>2, <2>1 DEF RemoveItemImage
  <2>3. ASSUME NEW m \in moves
        PROVE  m \in [born : 1..MaxImages, to : 0..(MaxImages - 1)] /\ m.to \in Nat /\ m.to < Cardinality(Over)
    <3>1. PICK y \in rest : m = [born |-> y.born, to |-> rank(y, rest)]
      BY <2>3
    <3>2. rank(y, rest) \in Nat /\ rank(y, rest) < Cardinality(Over)
      BY <1>t, <3>1, RankBounded
    <3>3. y.born \in 1..MaxImages
      BY <1>t, <3>1 DEF ImagesTypeOK, Image
    <3> QED
      BY <1>n, <1>o, <3>1, <3>2, <3>3
  <2>4. x.born \in 1..MaxImages
    BY <1>t DEF ImagesTypeOK, Image
  <2> HIDE DEF moves
  <2>5. /\ to \in Job /\ to.pc = "renumber" /\ to.adds = {} /\ to.moves = moves /\ to.born = 0
    <3>1. moves \subseteq [born : 1..MaxImages, to : 0..(MaxImages - 1)]
      BY <2>3
    <3> QED
      BY <2>1, <2>4, <3>1, IdleJob DEF Job
  <2>6. /\ imageJob'[j] = to /\ (JobHolds(j)' => ImagesIInv')
        /\ Cardinality(Over)' \in Nat /\ Cardinality(Over) <= Cardinality(Over)'
    BY <1>n, <1>p, <1>u, <2>2, <2>5, OneStep
  <2> QED
    BY <1>n, <1>o, <1>u, <2>3, <2>5, <2>6 DEF JobHolds
<1>3. ASSUME Renumber(j) PROVE ImagesIInv'
  <2>1. PICK to : to = [imageJob[j] EXCEPT !.pc = "look"]
    OBVIOUS
  <2>2. step(j, "renumber", to)
    BY <1>3, <2>1 DEF Renumber
  <2>3. /\ to \in Job /\ to.pc = "look" /\ to.adds = imageJob[j].adds /\ to.moves = imageJob[j].moves
        /\ to.born = imageJob[j].born
    BY <1>t, <2>1 DEF Job
  <2>4. /\ imageJob'[j] = to /\ (JobHolds(j)' => ImagesIInv')
        /\ Cardinality(Over)' \in Nat /\ Cardinality(Over) <= Cardinality(Over)'
    BY <1>n, <1>p, <1>u, <2>2, <2>3, OneStep
  <2>5. \A x \in to.adds : x.born = to.born /\ x.born # 0 /\ x.position <= Cardinality(Over)'
                           /\ x.url \in Picture /\ objects'[x.url] = x.url
    BY <1>a, <1>o, <1>t, <1>u, <2>3, <2>4 DEF JobHolds
  <2> QED
    BY <1>m, <1>n, <1>o, <1>p, <1>t, <1>u, <2>3, <2>4, <2>5 DEF JobHolds
<1>4. ASSUME SyncPrimary(j) PROVE ImagesIInv'
  <2>0. primaryOf(changedBy(j)) \in Content \cup {NoContent}
    BY Seen, FirstExists
  <2>1. PICK to : to = [imageJob[j] EXCEPT !.pc = "commit", !.first = primaryOf(changedBy(j))]
    OBVIOUS
  <2>2. step(j, "look", to)
    BY <1>4, <2>1 DEF SyncPrimary
  <2>3. /\ to \in Job /\ to.pc = "commit" /\ to.adds = imageJob[j].adds /\ to.moves = imageJob[j].moves
        /\ to.removes = imageJob[j].removes /\ to.born = imageJob[j].born /\ to.first = primaryOf(changedBy(j))
    BY <1>t, <2>0, <2>1 DEF Job
  <2>4. /\ imageJob'[j] = to /\ (JobHolds(j)' => ImagesIInv')
        /\ Cardinality(Over)' \in Nat /\ Cardinality(Over) <= Cardinality(Over)'
    BY <1>n, <1>p, <1>u, <2>2, <2>3, OneStep
  <2>5. \A x \in to.adds : x.born = to.born /\ x.born # 0 /\ x.position <= Cardinality(Over)'
                           /\ x.url \in Picture /\ objects'[x.url] = x.url
    BY <1>a, <1>o, <1>t, <1>u, <2>3, <2>4 DEF JobHolds
  <2>6. changedBy(j)' = changedBy(j)
    BY <1>u, <2>3, <2>4 DEF changedBy
  <2>7. primaryOf(changedBy(j))' = primaryOf(changedBy(j))
    BY <2>6 DEF primaryOf, rank, before
  <2> QED
    BY <1>m, <1>n, <1>o, <1>p, <1>t, <1>u, <2>3, <2>4, <2>5, <2>7 DEF JobHolds
<1>5. ASSUME Fail(j) PROVE ImagesIInv'
  <2>1. step(j, imageJob[j].pc, ImageIdle)
    BY <1>5 DEF Fail
  <2>2. imageJob'[j] = ImageIdle /\ (JobHolds(j)' => ImagesIInv')
    BY <1>n, <1>p, <1>u, <2>1, IdleJob, OneStep
  <2> QED
    BY <1>n, <1>u, <2>2, IdleJob DEF JobHolds
<1> QED
  BY <1>1, <1>2, <1>3, <1>4, <1>5

LEMMA PostHolds ==
  ASSUME ImagesIInv, NEW k \in PendingKey, NEW content \in Content, Post(k, content)
  PROVE  ImagesIInv'
<1>t. ImagesTypeOK /\ imageJob \in [ImageJob -> Job] /\ RowsHold /\ BornApart /\ PrimaryIsFirst
      /\ \A i \in ImageJob : JobHolds(i)
  BY DEF ImagesIInv
<1>1. /\ UNCHANGED <<objects, imageJob, images, imageUrl, missed, births>>
      /\ posted' \in [PendingKey -> Content \cup {NoContent}]
  BY <1>t DEF Post, listVars, ImagesTypeOK
<1>2. Over' = Over
  BY <1>1 DEF Over, Underway
<1>3. births \in Nat /\ Cardinality(Over) \in Nat
  BY <1>t, OverCounts, ImagesAssumption DEF ImagesTypeOK
<1>4. ASSUME NEW i \in ImageJob PROVE JobHolds(i)'
  BY <1>1, <1>2, <1>3, <1>t, OtherStands
<1>5. PrimaryIsFirst'
  <2>1. primaryOf(images)' = primaryOf(images)
    BY <1>1 DEF primaryOf, rank, before
  <2> QED
    BY <1>1, <1>t, <2>1 DEF PrimaryIsFirst
<1>6. ImagesTypeOK' /\ RowsHold' /\ BornApart'
  BY <1>1, <1>2, <1>t DEF ImagesTypeOK, RowsHold, BornApart
<1> QED
  BY <1>1, <1>4, <1>5, <1>6, <1>t DEF ImagesIInv

\* The commit turns what the transaction saw into the list, and whoever looked
\* before is late.
LEMMA CommitHolds ==
  ASSUME ImagesIInv, NEW j \in ImageJob, Commit(j)
  PROVE  ImagesIInv'
<1>t. ImagesTypeOK /\ imageJob \in [ImageJob -> Job] /\ RowsHold /\ BornApart
      /\ \A i \in ImageJob : JobHolds(i) /\ imageJob[i] \in Job
  BY DEF ImagesIInv
<1>n. births \in 0..MaxImages /\ births \in Nat /\ MaxImages \in Nat
  BY <1>t, ImagesAssumption DEF ImagesTypeOK
<1>1. /\ imageJob[j].pc = "commit" /\ images' = changedBy(j)
      /\ imageUrl' = imageJob[j].first /\ missed' = imageJob[j].late
      /\ UNCHANGED <<posted, objects, births>>
  BY DEF Commit, storeVars
<1>2. imageJob'[j] = ImageIdle /\ DOMAIN imageJob' = ImageJob
  BY DEF Commit
<1>3. ASSUME NEW i \in ImageJob \ {j}
      PROVE  /\ imageJob'[i] \in Job /\ imageJob'[i].pc = imageJob[i].pc /\ imageJob'[i].born = imageJob[i].born
             /\ imageJob'[i].adds = imageJob[i].adds /\ imageJob'[i].moves = imageJob[i].moves
             /\ imageJob'[i].etag = imageJob[i].etag /\ imageJob'[i].key = imageJob[i].key
             /\ imageJob'[i].pc = "commit" => imageJob'[i].late
  <2>1. CASE imageJob[i].pc = "commit"
    <3>1. imageJob'[i] = [imageJob[i] EXCEPT !.late = TRUE]
      BY <2>1 DEF Commit
    <3> QED
      BY <1>t, <3>1 DEF Job
  <2>2. CASE imageJob[i].pc # "commit"
    <3>1. imageJob'[i] = imageJob[i]
      BY <2>2 DEF Commit
    <3> QED
      BY <1>t, <2>2, <3>1
  <2> QED
    BY <2>1, <2>2
<1>4. imageJob' \in [ImageJob -> Job]
  <2>1. imageJob' = [i \in ImageJob |-> imageJob'[i]]
    BY DEF Commit
  <2> QED
    BY <1>2, <1>3, <2>1, IdleJob
<1>5. /\ Over \subseteq Over' /\ Cardinality(Over) \in Nat /\ Cardinality(Over)' \in Nat
      /\ Cardinality(Over) <= Cardinality(Over)'
  <2>1. \A i \in ImageJob : imageJob'[i].born \in {imageJob[i].born, 0} \cup (births + 1)..births'
    BY <1>2, <1>3, IdleJob
  <2> QED
    BY <1>1, <1>n, <2>1, OverGrows, OverCounts
<1>6. imageJob[j].born # 0 => imageJob[j].born \in Over' /\ Cardinality(Over) < Cardinality(Over)'
  <2> SUFFICES ASSUME imageJob[j].born # 0 PROVE imageJob[j].born \in Over' /\ Cardinality(Over) < Cardinality(Over)'
    OBVIOUS
  <2>1. imageJob[j].born \in 1..births /\ imageJob[j].born \notin Over
    BY <1>n, <1>t DEF JobHolds, Over, Underway
  <2>2. \A i \in ImageJob : imageJob'[i].born # imageJob[j].born
    BY <1>2, <1>3, <1>t, IdleJob DEF BornApart
  <2>3. imageJob[j].born \in Over'
    BY <1>1, <2>1, <2>2 DEF Over, Underway
  <2>4. IsFiniteSet(Over')
    <3>1. IsFiniteSet(1..births)
      BY <1>n, FS_Interval, 1 \in Int, births \in Int
    <3>2. Over' \in SUBSET (1..births)
      BY <1>1 DEF Over
    <3> QED
      BY <3>1, <3>2, FS_Subset
  <2>5. Over \in SUBSET Over' /\ Over # Over'
    BY <1>5, <2>1, <2>3
  <2>6. Cardinality(Over) # Cardinality(Over')
    BY <2>4, <2>5, FS_Subset
  <2> QED
    BY <1>5, <2>3, <2>6
<1>7. RowsHold'
  <2> SUFFICES ASSUME NEW x \in changedBy(j)
               PROVE  /\ x.born \in Over' /\ x.position < Cardinality(Over)'
                      /\ x.url \in Picture /\ objects[x.url] = x.url
    BY <1>1 DEF RowsHold
  <2>1. x.position \in Nat
    BY Seen, ImagesAssumption DEF Image
  <2>2. /\ x.url \in Picture /\ objects[x.url] = x.url
        /\ \/ x.born \in Over /\ x.position < Cardinality(Over)
           \/ x.born = imageJob[j].born /\ x.born # 0 /\ x.position <= Cardinality(Over)
    BY Seen
  <2> QED
    BY <1>5, <1>6, <2>1, <2>2
<1>8. BornApart'
  BY <1>2, <1>3, <1>t, IdleJob DEF BornApart
<1>9. JobHolds(j)'
  BY <1>1, <1>2, <1>n, IdleJob DEF JobHolds
<1>10. ASSUME NEW i \in ImageJob \ {j} PROVE JobHolds(i)'
  <2>1. \A x \in imageJob[i].adds : x.position \in Nat
    BY <1>t, ImagesAssumption DEF Job, Image
  <2>2. \A m \in imageJob[i].moves : m.to \in Nat
    BY <1>t, ImagesAssumption DEF Job
  <2>3. \A x \in imageJob'[i].adds :
         /\ x.born = imageJob'[i].born /\ x.born # 0 /\ x.position <= Cardinality(Over)'
         /\ x.url \in Picture /\ objects'[x.url] = x.url
    BY <1>1, <1>3, <1>5, <1>t, <2>1 DEF JobHolds
  <2>4. \A m \in imageJob'[i].moves : m.to < Cardinality(Over)'
    BY <1>3, <1>5, <1>t, <2>2 DEF JobHolds
  <2> QED
    BY <1>1, <1>3, <1>t, <2>3, <2>4 DEF JobHolds
<1>11. PrimaryIsFirst'
  <2>1. CASE imageJob[j].late
    BY <1>1, <2>1 DEF PrimaryIsFirst
  <2>2. CASE ~imageJob[j].late
    <3>1. imageJob[j].first = primaryOf(changedBy(j))
      BY <1>1, <1>t, <2>2 DEF JobHolds
    <3>2. primaryOf(images)' = primaryOf(changedBy(j))
      BY <1>1 DEF primaryOf, rank, before
    <3> QED
      BY <1>1, <3>1, <3>2 DEF PrimaryIsFirst
  <2> QED
    BY <2>1, <2>2
<1>12. ImagesTypeOK'
  <2>1. images' \subseteq Image /\ \A x, y \in images' : x.born = y.born => x = y
    BY <1>1, Seen
  <2>2. imageUrl' \in Content \cup {NoContent} /\ missed' \in BOOLEAN
    BY <1>1, <1>t DEF Job
  <2> QED
    BY <1>1, <1>4, <1>n, <1>t, <2>1, <2>2, TypeKept DEF ImagesTypeOK
<1> QED
  BY <1>4, <1>7, <1>8, <1>9, <1>10, <1>11, <1>12 DEF ImagesIInv

LEMMA ImagesStart == ImagesInit => ImagesIInv
<1> SUFFICES ASSUME ImagesInit PROVE ImagesIInv
  OBVIOUS
<1>1. imageJob \in [ImageJob -> Job] /\ \A j \in ImageJob : imageJob[j] = ImageIdle
  BY IdleJob DEF ImagesInit
<1>2. images = {} /\ births = 0 /\ 0 \in 0..MaxImages
  BY ImagesAssumption DEF ImagesInit
<1>3. ImagesTypeOK
  BY <1>1, <1>2, IdleJob DEF ImagesInit, ImagesTypeOK
<1>4. ASSUME NEW j \in ImageJob PROVE JobHolds(j)
  BY <1>1, <1>2, IdleJob DEF JobHolds
<1>5. BornApart
  BY <1>1, IdleJob DEF BornApart
<1>6. PrimaryIsFirst
  BY DEF ImagesInit, PrimaryIsFirst, primaryOf
<1> QED
  BY <1>1, <1>2, <1>3, <1>4, <1>5, <1>6 DEF ImagesIInv, RowsHold

\* Whatever is posted, copied, appended and removed side by side, and whoever
\* dies, a listed image is the picture that was verified under its name, and the
\* item shows the first image unless its last writer was overtaken
\* (confirmItemImageUpload, removeItemImage, syncPrimary).
THEOREM ImagesCorrect == ImagesSpec => []ImagesInv
<1>1. ImagesIInv /\ [ImagesNext]_imagesVars => ImagesIInv'
  <2> SUFFICES ASSUME ImagesIInv, [ImagesNext]_imagesVars PROVE ImagesIInv'
    OBVIOUS
  <2>1. CASE UNCHANGED imagesVars
    <3>1. UNCHANGED <<posted, objects, images, imageUrl, missed, imageJob, births>>
      BY <2>1 DEF imagesVars
    <3>2. Over' = Over /\ \A j \in ImageJob : changedBy(j)' = changedBy(j)
      BY <3>1 DEF Over, Underway, changedBy
    <3>3. \A j \in ImageJob : JobHolds(j)'
      BY <3>1, <3>2 DEF ImagesIInv, JobHolds, primaryOf, rank, before
    <3>4. PrimaryIsFirst'
      BY <3>1 DEF ImagesIInv, PrimaryIsFirst, primaryOf, rank, before
    <3>5. ImagesTypeOK' /\ RowsHold' /\ BornApart' /\ imageJob' \in [ImageJob -> Job]
      BY <3>1, <3>2 DEF ImagesIInv, ImagesTypeOK, RowsHold, BornApart
    <3> QED
      BY <3>3, <3>4, <3>5 DEF ImagesIInv
  <2> QED
    BY <2>1, PostHolds, StorageSteps, ListSteps, CommitHolds DEF ImagesNext
<1>2. ImagesIInv => ImagesInv
  BY DEF ImagesIInv, ImagesInv, RowsHold, ListedWasVerified
<1> QED
  BY <1>1, <1>2, ImagesStart, PTL DEF ImagesSpec

-----------------------------------------------------------------------------
(* What the customer's stream shows (Tracking) *)

StreamType ==
  [closed : BOOLEAN, context : Answer,
   followed : BOOLEAN, held : SUBSET Channel, joined : SUBSET Channel,
   pending : {"none", "location", "full"}, armed : BOOLEAN, timers : BOOLEAN,
   sent : Snapshot \cup {NothingSent}, ends : 0..2]

\* While it was not told of a loss, an open stream is behind the delivery only
\* while something is under way that reloads it.
ContextFollows ==
  ~lost /\ ~stream.closed /\ "delivery" \notin triggers /\ stream.pending # "full" =>
    /\ opening = "load" => answered.start = delivery
    /\ opening \in {"join", "opened"} =>
         CASE running = "ask" -> TRUE
           [] running = "load" -> answered.run = delivery
           [] OTHER -> stream.context = delivery

\* What an open stream would send now.
fresh == resolveTracking(stream.context, positionForDelivery(position))

\* It was sent before the position turned stale, and the timer is armed for that.
turning ==
  /\ stream.armed /\ position.stale
  /\ stream.sent = resolveTracking(stream.context, positionForDelivery([position EXCEPT !.stale = FALSE]))

\* What an idle stream sent is what it would send, unless something is under way.
SentFollows ==
  opening = "opened" /\ ~stream.closed /\ ~lost /\ running = "idle" /\ stream.pending = "none" =>
    stream.sent = fresh \/ turning \/ ("driver" \in triggers /\ stream.context = "assigned")

\* An open stream hears its channels, or is about to, and its timer is armed.
Hears ==
  ~stream.closed =>
    /\ opening \notin {"new", "rejected"} => "delivery" \in stream.joined
    /\ stream.context = "assigned" =>
         stream.followed /\ ("driver" \in stream.joined \/ opening = "join" \/ running = "join")
    /\ stream.held = stream.joined
    /\ stream.sent.tracking = "LIVE" => stream.armed \/ stream.pending # "none" \/ running # "idle"

\* Nothing is loaded or sent before start() has loaded.
Loading ==
  /\ opening \in {"new", "ask", "load"} =>
       stream.context = "none" /\ running = "idle" /\ ~stream.closed /\ stream.sent = NothingSent
  /\ opening \in {"join", "opened"} => stream.context # "none"
  /\ opening = "rejected" =>
       stream.closed \/ (stream.context = "none" /\ running = "idle" /\ stream.sent = NothingSent)
  /\ running # "idle" => stream.context # "none"
  /\ stream.followed => stream.context = "assigned"
  /\ running = "load" => answered.run # "none"
  /\ opening = "load" => answered.start # "none"

EndsOnce ==
  /\ stream.ends <= 1
  /\ ~stream.closed => stream.ends = 0 /\ stream.sent.tracking # "ENDED"

TrackingIInv ==
  TrackingTypeOK /\ ContextFollows /\ SentFollows /\ Hears /\ Loading /\ EndsOnce /\ OwnPosition

-----------------------------------------------------------------------------
(* What the operations on a stream do to it *)

LEMMA ResolveIs ==
  ASSUME NEW status \in Answer \ {"none"}, NEW p \in Position
  PROVE  LET r == resolveTracking(status, positionForDelivery(p)) IN
         /\ r \in Snapshot /\ r.on # "other"
         /\ r.tracking = "ENDED" <=> status = "ended"
         /\ r.tracking = "LIVE" => status = "assigned" /\ p.on = "this" /\ ~p.stale
<1> DEFINE q == positionForDelivery(p)
<1>1. q \in Position /\ q.on \in {"none", "this"} /\ (q.on = "this" => q = p /\ p.on = "this")
  BY TrackingAssumption DEF positionForDelivery, NoPosition, Position
<1> HIDE DEF q
<1>2. /\ [NothingSent EXCEPT !.tracking = "ENDED"] = [tracking |-> "ENDED", on |-> "none", recorded |-> 0]
      /\ [NothingSent EXCEPT !.tracking = "NO_DRIVER"] = [tracking |-> "NO_DRIVER", on |-> "none", recorded |-> 0]
      /\ [NothingSent EXCEPT !.tracking = "AWAITING_LOCATION"]
           = [tracking |-> "AWAITING_LOCATION", on |-> "none", recorded |-> 0]
  BY DEF NothingSent
<1>3. CASE status = "ended"
  <2>1. resolveTracking(status, q) = [tracking |-> "ENDED", on |-> "none", recorded |-> 0]
    BY <1>2, <1>3 DEF resolveTracking
  <2> QED
    BY <1>3, <2>1, TrackingAssumption DEF q, Snapshot, TrackingState
<1>4. CASE status = "waiting"
  <2>1. resolveTracking(status, q) = [tracking |-> "NO_DRIVER", on |-> "none", recorded |-> 0]
    BY <1>2, <1>4 DEF resolveTracking
  <2> QED
    BY <1>4, <2>1, TrackingAssumption DEF q, Snapshot, TrackingState
<1>5. CASE status = "assigned" /\ q.on = "none"
  <2>1. resolveTracking(status, q) = [tracking |-> "AWAITING_LOCATION", on |-> "none", recorded |-> 0]
    BY <1>2, <1>5 DEF resolveTracking
  <2> QED
    BY <1>5, <2>1, TrackingAssumption DEF q, Snapshot, TrackingState
<1>6. CASE status = "assigned" /\ q.on # "none"
  <2>1. resolveTracking(status, q) =
          [tracking |-> IF p.stale THEN "STALE" ELSE "LIVE", on |-> "this", recorded |-> p.recorded]
    BY <1>1, <1>6 DEF resolveTracking
  <2> QED
    BY <1>1, <1>6, <2>1 DEF q, Snapshot, TrackingState, Position
<1> QED
  BY <1>1, <1>3, <1>4, <1>5, <1>6 DEF Answer

\* Only a stream whose driver is assigned shows the position.
LEMMA ResolveElsewhere ==
  ASSUME NEW status \in Answer \ {"none", "assigned"}, NEW p, NEW q
  PROVE  resolveTracking(status, p) = resolveTracking(status, q)
BY DEF resolveTracking, Answer

LEMMA Merging ==
  ASSUME NEW pending \in {"none", "location", "full"}, NEW mode \in {"location", "full"}
  PROVE  /\ merged(pending, mode) \in {"location", "full"}
         /\ pending = "full" \/ mode = "full" => merged(pending, mode) = "full"
BY DEF merged

LEMMA Closing ==
  ASSUME NEW s \in StreamType, s.held \subseteq s.joined, NEW c, c = closedStream(s) \/ c = dropped(s)
  PROVE  /\ c \in StreamType /\ c.held \subseteq c.joined /\ c.closed /\ ~c.followed
         /\ c.context = s.context /\ c.pending = s.pending /\ c.sent = s.sent /\ c.ends = s.ends
<1>1. PICK d : d = dropped(s)
  OBVIOUS
<1>2. /\ d \in StreamType /\ d.held \subseteq d.joined /\ d.closed /\ ~d.followed
      /\ d.context = s.context /\ d.pending = s.pending /\ d.sent = s.sent /\ d.ends = s.ends
  BY <1>1 DEF dropped, StreamType
<1>3. CASE c = d
  BY <1>2, <1>3
<1>4. CASE c = [d EXCEPT !.timers = FALSE, !.armed = FALSE]
  BY <1>2, <1>4 DEF StreamType
<1> QED
  BY <1>1, <1>3, <1>4 DEF closedStream

LEMMA LoadedStream ==
  ASSUME NEW s \in StreamType, s.held \subseteq s.joined, NEW status \in Answer,
         NEW c, c = loaded(s, status)
  PROVE  /\ c \in StreamType /\ c.held \subseteq c.joined /\ c.context = status
         /\ c.followed <=> status = "assigned"
         /\ status = "assigned" => c.joined = s.joined /\ c.held = s.held
         /\ s.held = s.joined => c.held = c.joined
         /\ "delivery" \in s.joined => "delivery" \in c.joined
         /\ c.closed = s.closed /\ c.pending = s.pending /\ c.armed = s.armed
         /\ c.sent = s.sent /\ c.ends = s.ends
<1> DEFINE left == IF s.followed /\ status # "assigned" THEN s.held \cap {"driver"} ELSE {}
           follows == status = "assigned"
<1>1. left \subseteq {"driver"} /\ (status = "assigned" => left = {}) /\ follows \in BOOLEAN
  OBVIOUS
<1>2. c = [s EXCEPT !.context = status, !.followed = follows, !.joined = @ \ left, !.held = @ \ left]
  BY DEF loaded
<1>3. follows <=> status = "assigned"
  OBVIOUS
<1> HIDE DEF left, follows
<1>4. PICK J, H : J = s.joined \ left /\ H = s.held \ left
  OBVIOUS
<1>5. J \in SUBSET Channel /\ H \in SUBSET Channel /\ s.joined \in SUBSET Channel /\ s.held \in SUBSET Channel
  BY <1>4 DEF StreamType
<1>6. c = [s EXCEPT !.context = status, !.followed = follows, !.joined = J, !.held = H]
  BY <1>2, <1>4
<1>7. /\ c \in StreamType /\ c.context = status /\ c.followed = follows
      /\ c.joined = J /\ c.held = H
      /\ c.closed = s.closed /\ c.pending = s.pending /\ c.armed = s.armed
      /\ c.sent = s.sent /\ c.ends = s.ends
  BY <1>1, <1>5, <1>6, ZenonT(30) DEF StreamType
<1>8. /\ H \subseteq J /\ (left = {} => J = s.joined /\ H = s.held)
      /\ (s.held = s.joined => H = J) /\ ("delivery" \in s.joined => "delivery" \in J)
  BY <1>1, <1>4
<1> QED
  BY <1>1, <1>3, <1>7, <1>8

LEMMA Hearing ==
  ASSUME NEW s \in StreamType, s.held \subseteq s.joined, NEW ch \in Channel, NEW c, c = hear(s, ch)
  PROVE  /\ c \in StreamType /\ c.held \subseteq c.joined
         /\ c.joined = s.joined \cup {ch} /\ c.held = s.held \cup {ch}
         /\ c.closed = s.closed /\ c.context = s.context /\ c.followed = s.followed
         /\ c.pending = s.pending /\ c.armed = s.armed /\ c.sent = s.sent /\ c.ends = s.ends
BY DEF hear, StreamType

LEMMA Opens ==
  ASSUME NEW s \in StreamType, s.held \subseteq s.joined, NEW c, c = opened(s)
  PROVE  /\ c \in StreamType /\ c.held = s.held /\ c.joined = s.joined
         /\ c.closed = s.closed /\ c.context = s.context /\ c.followed = s.followed
         /\ c.armed = s.armed /\ c.sent = s.sent /\ c.ends = s.ends
         /\ s.pending = "full" => c.pending = "full"
         /\ ~s.closed => c.pending # "none"
<1>1. PICK k : k = IF s.closed THEN s.pending ELSE merged(s.pending, "location")
  OBVIOUS
<1>2. /\ k \in {"none", "location", "full"} /\ (s.pending = "full" => k = "full")
      /\ ~s.closed => k # "none"
  BY <1>1, Merging DEF StreamType
<1>3. c = [s EXCEPT !.timers = TRUE, !.pending = k]
  BY <1>1 DEF opened
<1> QED
  BY <1>2, <1>3 DEF StreamType

LEMMA Showing ==
  ASSUME NEW s \in StreamType, s.held \subseteq s.joined, NEW r \in Snapshot, s.ends = 0,
         NEW c, c = emitted(s, r)
  PROVE  /\ c \in StreamType /\ c.held = s.held /\ c.joined = s.joined
         /\ c.closed = s.closed /\ c.context = s.context /\ c.followed = s.followed
         /\ c.pending = s.pending /\ c.sent = r
         /\ c.armed <=> r.tracking = "LIVE"
         /\ c.ends \in 0..1 /\ (r.tracking # "ENDED" => c.ends = 0)
<1> DEFINE arms == r.tracking = "LIVE"
           e == IF r.tracking = "ENDED" /\ s.ends < 2 THEN s.ends + 1 ELSE s.ends
<1>1. arms \in BOOLEAN /\ e \in 0..1 /\ (r.tracking # "ENDED" => e = 0)
  OBVIOUS
<1>2. c = [s EXCEPT !.sent = r, !.armed = arms, !.ends = e]
  BY DEF emitted
<1>3. arms <=> r.tracking = "LIVE"
  OBVIOUS
<1> HIDE DEF arms, e
<1>4. /\ c \in StreamType /\ c.held = s.held /\ c.joined = s.joined
      /\ c.closed = s.closed /\ c.context = s.context /\ c.followed = s.followed
      /\ c.pending = s.pending /\ c.sent = r /\ c.armed = arms /\ c.ends = e
  <2>1. e \in 0..2 /\ r \in Snapshot \cup {NothingSent}
    BY <1>1
  <2>2. c.sent = r /\ c.armed = arms /\ c.ends = e
    BY <1>2 DEF StreamType
  <2>3. /\ c.held = s.held /\ c.joined = s.joined /\ c.closed = s.closed /\ c.context = s.context
        /\ c.followed = s.followed /\ c.pending = s.pending
    BY <1>2 DEF StreamType
  <2>4. c \in StreamType
    BY <1>1, <1>2, <2>1 DEF StreamType
  <2> QED
    BY <2>2, <2>3, <2>4
<1> QED
  BY <1>1, <1>3, <1>4

LEMMA Pending ==
  ASSUME NEW s \in StreamType, NEW mode \in {"none", "location", "full"}, NEW c,
         c = [s EXCEPT !.pending = mode]
  PROVE  /\ c \in StreamType /\ c.held = s.held /\ c.joined = s.joined
         /\ c.closed = s.closed /\ c.context = s.context /\ c.followed = s.followed
         /\ c.pending = mode /\ c.sent = s.sent /\ c.armed = s.armed /\ c.ends = s.ends
BY DEF StreamType

-----------------------------------------------------------------------------
LEMMA TrackTypes ==
  ASSUME TrackingIInv
  PROVE  /\ stream \in StreamType /\ stream.held \subseteq stream.joined
         /\ delivery \in Answer \ {"none"} /\ position \in Position
         /\ stream.context \in Answer /\ stream.pending \in {"none", "location", "full"}
         /\ stream.closed \in BOOLEAN
BY DEF TrackingIInv, TrackingTypeOK, StreamType

LEMMA StreamTyped ==
  ASSUME stream' \in StreamType, stream'.held \subseteq stream'.joined,
         delivery' \in Answer \ {"none"}, onOther' \in BOOLEAN, position' \in Position,
         report' \in [pc : {"idle", "check", "save"}, on : {"none", "this", "other"}, recorded : 0..MaxReport],
         triggers' \subseteq Channel,
         opening' \in {"new", "ask", "load", "join", "opened", "rejected"},
         running' \in {"idle", "ask", "load", "join", "read"},
         answered' \in [start : Answer, run : Answer], lost' \in BOOLEAN
  PROVE  TrackingTypeOK'
BY DEF TrackingTypeOK, StreamType

LEMMA TrackStart == TrackingInit => TrackingIInv
<1> SUFFICES ASSUME TrackingInit PROVE TrackingIInv
  OBVIOUS
<1> USE TrackingAssumption
<1>1. stream = [closed |-> FALSE, context |-> "none", followed |-> FALSE, held |-> {}, joined |-> {},
               pending |-> "none", armed |-> FALSE, timers |-> FALSE, sent |-> NothingSent, ends |-> 0]
  BY DEF TrackingInit
<1>2. /\ stream \in StreamType /\ ~stream.closed /\ stream.context = "none" /\ ~stream.followed
      /\ stream.held = {} /\ stream.joined = {} /\ stream.pending = "none"
      /\ stream.sent = NothingSent /\ stream.ends = 0
  BY <1>1 DEF StreamType, Answer
<1>3. NothingSent.tracking = "none" /\ NothingSent.on = "none"
  BY DEF NothingSent
<1>4. position \in Position
  BY DEF TrackingInit, NoPosition, Position
<1>5. report \in [pc : {"idle", "check", "save"}, on : {"none", "this", "other"}, recorded : 0..MaxReport]
  BY DEF TrackingInit, NoReport
<1>6. TrackingTypeOK
  BY <1>2, <1>4, <1>5 DEF TrackingTypeOK, TrackingInit, Answer, StreamType
<1>7. ContextFollows /\ SentFollows
  BY DEF ContextFollows, SentFollows, TrackingInit
<1>8. Hears
  BY <1>2, <1>3 DEF Hears, TrackingInit
<1>9. Loading
  BY <1>2 DEF Loading, TrackingInit
<1>10. EndsOnce /\ OwnPosition
  BY <1>2, <1>3 DEF EndsOnce, OwnPosition
<1> QED
  BY <1>6, <1>7, <1>8, <1>9, <1>10 DEF TrackingIInv

\* The world moves: the stream and what it is doing stay as they are.
LEMMA WorldSteps ==
  ASSUME TrackingIInv, WorldNext
  PROVE  TrackingIInv'
<1> USE TrackingAssumption
<1>1. UNCHANGED <<stream, opening, running, answered>>
  BY DEF WorldNext, DeliveryMoves, DriverTakesOther, UpdateLocation, CheckReport, SaveReport,
         PositionAges, PositionExpires
<1>2. Loading' /\ EndsOnce' /\ OwnPosition' /\ Hears'
  BY <1>1 DEF TrackingIInv, Loading, EndsOnce, OwnPosition, Hears
<1>3. /\ triggers \subseteq triggers' /\ triggers' \subseteq Channel /\ lost' \in BOOLEAN /\ (lost => lost')
      /\ delivery' \in Answer \ {"none"} /\ onOther' \in BOOLEAN
      /\ delivery' = delivery \/ "delivery" \in triggers'
  BY DEF WorldNext, DeliveryMoves, DriverTakesOther, UpdateLocation, CheckReport, SaveReport,
         PositionAges, PositionExpires, TrackingIInv, TrackingTypeOK, Channel, Answer
<1>4. ContextFollows'
  BY <1>1, <1>3 DEF TrackingIInv, ContextFollows
<1>5. report' \in [pc : {"idle", "check", "save"}, on : {"none", "this", "other"}, recorded : 0..MaxReport]
  <2>1. CASE CheckReport
    BY <2>1 DEF CheckReport, NoReport, TrackingIInv, TrackingTypeOK
  <2>2. CASE SaveReport
    BY <2>2 DEF SaveReport, NoReport
  <2>3. ASSUME NEW n \in 1..MaxReport, UpdateLocation(n)
        PROVE  report' \in [pc : {"idle", "check", "save"}, on : {"none", "this", "other"}, recorded : 0..MaxReport]
    BY <2>3 DEF UpdateLocation
  <2>4. CASE DeliveryMoves \/ DriverTakesOther \/ PositionAges \/ PositionExpires
    BY <2>4 DEF DeliveryMoves, DriverTakesOther, PositionAges, PositionExpires, TrackingIInv, TrackingTypeOK
  <2> QED
    BY <2>1, <2>2, <2>3, <2>4 DEF WorldNext
<1>6. position' \in Position
  <2>1. CASE SaveReport
    BY <2>1 DEF SaveReport, TrackingIInv, TrackingTypeOK, Position
  <2>2. CASE PositionAges
    BY <2>2 DEF PositionAges, TrackingIInv, TrackingTypeOK, Position
  <2>3. CASE PositionExpires
    BY <2>3 DEF PositionExpires, NoPosition, Position
  <2>4. CASE ~SaveReport /\ ~PositionAges /\ ~PositionExpires
    BY <2>4 DEF WorldNext, DeliveryMoves, DriverTakesOther, UpdateLocation, CheckReport, TrackingIInv, TrackingTypeOK
  <2> QED
    BY <2>1, <2>2, <2>3, <2>4
<1>7. TrackingTypeOK'
  <2>1. /\ stream \in StreamType /\ stream.held \subseteq stream.joined
        /\ opening \in {"new", "ask", "load", "join", "opened", "rejected"}
        /\ running \in {"idle", "ask", "load", "join", "read"} /\ answered \in [start : Answer, run : Answer]
    BY TrackTypes DEF TrackingIInv, TrackingTypeOK
  <2> QED
    BY <1>1, <1>3, <1>5, <1>6, <2>1, StreamTyped
<1>8. SentFollows'
  <2> SUFFICES ASSUME opening = "opened", ~stream.closed, ~lost', running = "idle", stream.pending = "none"
               PROVE  (stream.sent = fresh \/ turning \/ ("driver" \in triggers /\ stream.context = "assigned"))'
    BY <1>1 DEF SentFollows
  <2>1. stream.sent = fresh \/ turning \/ ("driver" \in triggers /\ stream.context = "assigned")
    BY <1>3 DEF TrackingIInv, SentFollows
  <2>2. stream.context \in Answer \ {"none"} /\ position \in Position
    BY TrackTypes DEF TrackingIInv, Loading
  <2>3. CASE "driver" \in triggers /\ stream.context = "assigned"
    BY <1>1, <1>3, <2>3
  <2>4. CASE stream.context # "assigned" /\ (stream.sent = fresh \/ turning)
    <3>1. stream.sent = resolveTracking(stream.context, positionForDelivery(position'))
      BY <2>2, <2>4, ResolveElsewhere DEF fresh, turning
    <3> QED
      BY <1>1, <3>1 DEF fresh
  <2>5. CASE position' = position /\ (stream.sent = fresh \/ turning)
    BY <1>1, <2>5 DEF fresh, turning
  <2>6. CASE stream.context = "assigned" /\ SaveReport
    BY <1>1, <2>6 DEF SaveReport
  <2>7. CASE stream.context = "assigned" /\ PositionAges /\ stream.sent = fresh
    <3>1. position.on # "none" /\ ~position.stale /\ position' = [position EXCEPT !.stale = TRUE]
      BY <2>7 DEF PositionAges
    <3>2. position'.stale /\ position'.on = position.on
      BY <2>2, <3>1 DEF Position
    <3>3. CASE position.on = "this"
      <4>1. stream.sent.tracking = "LIVE"
        BY <2>7, <3>1, <3>3 DEF fresh, resolveTracking, positionForDelivery
      <4>2. stream.armed
        BY <4>1 DEF TrackingIInv, Hears
      <4>3. [position' EXCEPT !.stale = FALSE] = position
        BY <2>2, <3>1 DEF Position
      <4> QED
        BY <1>1, <2>7, <3>2, <4>2, <4>3 DEF turning, fresh
    <3>4. CASE position.on # "this"
      BY <1>1, <2>7, <3>2, <3>4 DEF fresh, positionForDelivery
    <3> QED
      BY <3>3, <3>4
  <2>8. CASE PositionAges /\ turning
    BY <2>8 DEF PositionAges, turning
  <2>9. ~PositionExpires
    BY DEF PositionExpires
  <2>10. position' = position \/ SaveReport \/ PositionAges
    BY <2>9 DEF WorldNext, DeliveryMoves, DriverTakesOther, UpdateLocation, CheckReport
  <2> QED
    BY <2>1, <2>3, <2>4, <2>5, <2>6, <2>7, <2>8, <2>10
<1> QED
  BY <1>2, <1>4, <1>7, <1>8 DEF TrackingIInv

-----------------------------------------------------------------------------
\* What every step that leaves the world as it is has to show.
LEMMA StreamSteps ==
  ASSUME TrackingIInv, UNCHANGED world, stream' \in StreamType, stream'.held \subseteq stream'.joined,
         triggers' \subseteq Channel,
         opening' \in {"new", "ask", "load", "join", "opened", "rejected"},
         running' \in {"idle", "ask", "load", "join", "read"},
         answered' \in [start : Answer, run : Answer], lost' \in BOOLEAN
  PROVE  TrackingTypeOK'
BY StreamTyped DEF TrackingIInv, TrackingTypeOK, world, Answer

\* A closed stream promises little more.
LEMMA ClosedSteps ==
  ASSUME TrackingIInv, UNCHANGED world, triggers' \subseteq Channel, lost' \in BOOLEAN,
         stream' \in StreamType, stream'.held \subseteq stream'.joined, stream'.closed,
         stream'.ends <= 1, stream'.sent.on # "other",
         stream'.followed => stream'.context = "assigned",
         opening' \in {"join", "opened", "rejected"},
         opening' # "rejected" => stream'.context # "none",
         running' \in {"idle", "ask", "load", "join", "read"}, running' # "idle" => stream'.context # "none",
         answered' \in [start : Answer, run : Answer], running' = "load" => answered'.run # "none"
  PROVE  TrackingIInv'
<1>1. TrackingTypeOK'
  BY StreamSteps
<1>2. ContextFollows' /\ SentFollows' /\ Hears'
  BY DEF ContextFollows, SentFollows, Hears
<1>3. Loading' /\ EndsOnce' /\ OwnPosition'
  BY DEF Loading, EndsOnce, OwnPosition
<1> QED
  BY <1>1, <1>2, <1>3 DEF TrackingIInv

\* An open stream is told to recompute.
LEMMA QueueSteps ==
  ASSUME TrackingIInv, UNCHANGED <<world, running, answered, lost>>, ~stream.closed,
         stream' \in StreamType, stream'.held = stream.held, stream'.joined = stream.joined,
         stream'.closed = stream.closed, stream'.context = stream.context,
         stream'.followed = stream.followed, stream'.sent = stream.sent, stream'.ends = stream.ends,
         stream'.pending \in {"location", "full"},
         stream.pending = "full" => stream'.pending = "full",
         triggers' \subseteq triggers, "delivery" \in triggers \ triggers' => stream'.pending = "full",
         opening' = opening
  PROVE  TrackingIInv'
<1>1. TrackingTypeOK'
  BY TrackTypes, StreamSteps DEF TrackingIInv, TrackingTypeOK
<1>2. ContextFollows'
  BY DEF TrackingIInv, ContextFollows, world
<1>3. SentFollows'
  BY DEF SentFollows
<1>4. Hears'
  BY DEF TrackingIInv, Hears
<1>5. Loading' /\ EndsOnce' /\ OwnPosition'
  BY DEF TrackingIInv, Loading, EndsOnce, OwnPosition
<1> QED
  BY <1>1, <1>2, <1>3, <1>4, <1>5 DEF TrackingIInv

\* Nothing but the triggers changes, and nothing an open stream needs is among them.
LEMMA IdleSteps ==
  ASSUME TrackingIInv, UNCHANGED <<world, stream, opening, running, answered>>,
         triggers' \subseteq triggers, lost' \in BOOLEAN, lost => lost',
         \A ch \in triggers \ triggers' :
           \/ stream.closed \/ lost' \/ opening \in {"new", "rejected"}
           \/ ch = "driver" /\ (opening # "opened" \/ running # "idle" \/ stream.context # "assigned")
  PROVE  TrackingIInv'
<1>1. TrackingTypeOK'
  BY TrackTypes, StreamSteps DEF TrackingIInv, TrackingTypeOK
<1>2. ContextFollows'
  BY DEF TrackingIInv, ContextFollows, world, Channel
<1>3. SentFollows'
  BY DEF TrackingIInv, SentFollows, fresh, turning, world
<1>4. Hears' /\ Loading' /\ EndsOnce' /\ OwnPosition'
  BY DEF TrackingIInv, Hears, Loading, EndsOnce, OwnPosition
<1> QED
  BY <1>1, <1>2, <1>3, <1>4 DEF TrackingIInv

LEMMA ScheduleSteps ==
  ASSUME TrackingIInv, NEW mode \in {"location", "full"}, schedule(mode), ~stream.closed
  PROVE  /\ stream' \in StreamType /\ stream'.held = stream.held /\ stream'.joined = stream.joined
         /\ stream'.closed = stream.closed /\ stream'.context = stream.context
         /\ stream'.followed = stream.followed /\ stream'.sent = stream.sent /\ stream'.ends = stream.ends
         /\ stream'.pending \in {"location", "full"}
         /\ stream.pending = "full" \/ mode = "full" => stream'.pending = "full"
<1>1. PICK k : k = merged(stream.pending, mode)
  OBVIOUS
<1>2. k \in {"location", "full"} /\ (stream.pending = "full" \/ mode = "full" => k = "full")
  BY <1>1, TrackTypes, Merging
<1>3. stream' = [stream EXCEPT !.pending = k]
  BY <1>1 DEF schedule
<1> QED
  BY <1>2, <1>3, TrackTypes, Pending

\* A trigger is delivered: the stream recomputes, or could not show it.
LEMMA DispatchStep ==
  ASSUME TrackingIInv, NEW ch \in Channel, Dispatch(ch) \/ LoseTrigger(ch)
  PROVE  TrackingIInv'
<1>1. ch \in triggers /\ triggers' = triggers \ {ch} /\ UNCHANGED <<world, opening, running, answered>>
      /\ lost' \in BOOLEAN /\ (lost => lost')
  BY DEF Dispatch, LoseTrigger, TrackingIInv, TrackingTypeOK
<1>2. CASE LoseTrigger(ch)
  BY <1>1, <1>2, IdleSteps DEF LoseTrigger
<1>3. CASE Dispatch(ch) /\ ch \in stream.joined /\ ~stream.closed
  <2>1. PICK mode \in {"location", "full"} : mode = IF ch = "driver" THEN "location" ELSE "full"
    OBVIOUS
  <2>2. schedule(mode) /\ UNCHANGED lost
    BY <1>3, <2>1 DEF Dispatch
  <2>3. "delivery" \in triggers \ triggers' => mode = "full"
    BY <1>1, <2>1
  <2> QED
    BY <1>1, <1>3, <2>2, <2>3, ScheduleSteps, QueueSteps
<1>4. CASE Dispatch(ch) /\ (ch \notin stream.joined \/ stream.closed)
  <2>1. UNCHANGED <<stream, lost>>
    BY <1>4 DEF Dispatch, schedule
  <2>2. CASE stream.closed
    BY <1>1, <2>1, <2>2, IdleSteps
  <2>3. CASE ~stream.closed /\ ch = "delivery"
    <3>1. opening \in {"new", "rejected"}
      BY <1>4, <2>3 DEF TrackingIInv, Hears, Loading
    <3> QED
      BY <1>1, <2>1, <3>1, IdleSteps
  <2>4. CASE ~stream.closed /\ ch = "driver"
    <3>1. opening # "opened" \/ running # "idle" \/ stream.context # "assigned"
      BY <1>4, <2>4 DEF TrackingIInv, Hears
    <3> QED
      BY <1>1, <2>1, <2>4, <3>1, IdleSteps
  <2> QED
    BY <2>2, <2>3, <2>4 DEF Channel
<1> QED
  BY <1>2, <1>3, <1>4

LEMMA TimerSteps ==
  ASSUME TrackingIInv, Resync \/ StaleTimer
  PROVE  TrackingIInv'
<1>1. UNCHANGED <<world, triggers, opening, running, answered, lost>>
  BY DEF Resync, StaleTimer
<1>2. CASE Resync /\ ~stream.closed
  BY <1>1, <1>2, ScheduleSteps, QueueSteps DEF Resync
<1>3. CASE Resync /\ stream.closed
  BY <1>1, <1>3, IdleSteps DEF Resync, schedule, TrackingIInv, TrackingTypeOK
<1>4. CASE StaleTimer
  <2>1. PICK k : k = IF stream.closed THEN stream.pending ELSE merged(stream.pending, "location")
    OBVIOUS
  <2>2. /\ k \in {"none", "location", "full"}
        /\ ~stream.closed => k \in {"location", "full"} /\ (stream.pending = "full" => k = "full")
    BY <2>1, TrackTypes, Merging
  <2>3. stream' = [stream EXCEPT !.armed = FALSE, !.pending = k]
    BY <1>4, <2>1 DEF StaleTimer
  <2>4. /\ stream' \in StreamType /\ stream'.held = stream.held /\ stream'.joined = stream.joined
        /\ stream'.closed = stream.closed /\ stream'.context = stream.context
        /\ stream'.followed = stream.followed /\ stream'.sent = stream.sent /\ stream'.ends = stream.ends
        /\ stream'.pending = k
    BY <2>2, <2>3, TrackTypes DEF StreamType
  <2>5. CASE ~stream.closed
    BY <1>1, <2>2, <2>4, <2>5, QueueSteps
  <2>6. CASE stream.closed
    BY <1>1, <2>4, <2>6, TrackTypes, ClosedSteps
       DEF TrackingIInv, TrackingTypeOK, Loading, EndsOnce, OwnPosition
  <2> QED
    BY <2>5, <2>6
<1> QED
  BY <1>2, <1>3, <1>4

-----------------------------------------------------------------------------
(* start() *)
LEMMA StartEarly ==
  ASSUME TrackingIInv, StartSubscribes \/ StartAsks
  PROVE  TrackingIInv'
<1>1. UNCHANGED <<world, triggers, running, lost>>
  BY DEF StartSubscribes, StartAsks
<1>2. CASE StartSubscribes
  <2>1. opening = "new" /\ opening' = "ask" /\ stream' = hear(stream, "delivery") /\ UNCHANGED answered
    BY <1>2 DEF StartSubscribes
  <2>2. /\ stream' \in StreamType /\ stream'.held \subseteq stream'.joined
        /\ stream'.joined = stream.joined \cup {"delivery"} /\ stream'.held = stream.held \cup {"delivery"}
        /\ stream'.closed = stream.closed /\ stream'.context = stream.context
        /\ stream'.followed = stream.followed /\ stream'.pending = stream.pending
        /\ stream'.armed = stream.armed /\ stream'.sent = stream.sent /\ stream'.ends = stream.ends
    BY <2>1, TrackTypes, Hearing DEF Channel
  <2>3. TrackingTypeOK'
    BY <1>1, <2>1, <2>2, StreamSteps DEF TrackingIInv, TrackingTypeOK
  <2>4. ContextFollows' /\ SentFollows'
    BY <2>1 DEF ContextFollows, SentFollows
  <2>5. Hears' /\ Loading' /\ EndsOnce' /\ OwnPosition'
    BY <1>1, <2>1, <2>2 DEF TrackingIInv, Hears, Loading, EndsOnce, OwnPosition
  <2> QED
    BY <2>3, <2>4, <2>5 DEF TrackingIInv
<1>3. CASE StartAsks
  <2>1. /\ opening = "ask" /\ opening' = "load" /\ UNCHANGED stream
        /\ answered' = [answered EXCEPT !.start = delivery]
    BY <1>3 DEF StartAsks
  <2>2. answered' \in [start : Answer, run : Answer] /\ answered'.start = delivery /\ answered'.run = answered.run
    BY <2>1, TrackTypes DEF TrackingIInv, TrackingTypeOK
  <2>3. TrackingTypeOK'
    BY <1>1, <2>1, <2>2, TrackTypes, StreamSteps DEF TrackingIInv, TrackingTypeOK
  <2>4. ContextFollows' /\ SentFollows'
    BY <1>1, <2>1, <2>2 DEF ContextFollows, SentFollows, world
  <2>5. Hears' /\ Loading' /\ EndsOnce' /\ OwnPosition'
    BY <1>1, <2>1, <2>2, TrackTypes DEF TrackingIInv, Hears, Loading, EndsOnce, OwnPosition
  <2> QED
    BY <2>3, <2>4, <2>5 DEF TrackingIInv
<1> QED
  BY <1>2, <1>3

LEMMA StartLoadsStep ==
  ASSUME TrackingIInv, StartLoads
  PROVE  TrackingIInv'
<1>1. PICK status : status = answered.start
  OBVIOUS
<1>2. /\ UNCHANGED <<world, triggers, running, lost>> /\ opening = "load"
      /\ \/ joins(status) /\ opening' = "join" /\ stream' = loaded(stream, status)
         \/ ~joins(status) /\ opening' = "opened" /\ stream' = opened(loaded(stream, status))
      /\ answered' = [answered EXCEPT !.start = "none"]
  BY <1>1 DEF StartLoads
<1>3. status \in Answer \ {"none"} /\ running = "idle" /\ ~stream.closed /\ ~stream.followed
      /\ stream.sent = NothingSent /\ stream.context = "none"
  BY <1>1, <1>2 DEF TrackingIInv, TrackingTypeOK, Loading
<1>4. /\ stream' \in StreamType /\ stream'.held \subseteq stream'.joined /\ stream'.context = status
      /\ stream'.followed <=> status = "assigned"
      /\ stream.held = stream.joined => stream'.held = stream'.joined
      /\ "delivery" \in stream.joined => "delivery" \in stream'.joined
      /\ stream'.closed = stream.closed /\ stream'.armed = stream.armed
      /\ stream'.sent = stream.sent /\ stream'.ends = stream.ends
      /\ stream.pending = "full" => stream'.pending = "full"
      /\ opening' = "opened" => stream'.pending # "none"
  <2>1. PICK s : s = loaded(stream, status)
    OBVIOUS
  <2>2. /\ s \in StreamType /\ s.held \subseteq s.joined /\ s.context = status
        /\ s.followed <=> status = "assigned"
        /\ stream.held = stream.joined => s.held = s.joined
        /\ "delivery" \in stream.joined => "delivery" \in s.joined
        /\ s.closed = stream.closed /\ s.pending = stream.pending /\ s.armed = stream.armed
        /\ s.sent = stream.sent /\ s.ends = stream.ends
    BY <1>3, <2>1, TrackTypes, LoadedStream
  <2>3. CASE stream' = s /\ opening' = "join"
    BY <2>2, <2>3
  <2>4. CASE stream' = opened(s)
    <3>1. PICK c : c = opened(s)
      OBVIOUS
    <3>2. stream' = c
      BY <2>4, <3>1
    <3> QED
      BY <1>3, <2>2, <3>1, <3>2, Opens
  <2> QED
    BY <1>2, <2>1, <2>3, <2>4
<1>5. answered' \in [start : Answer, run : Answer] /\ answered'.run = answered.run
  BY <1>2 DEF TrackingIInv, TrackingTypeOK, Answer
<1>6. opening' \in {"join", "opened"} /\ (status = "assigned" => opening' = "join")
  BY <1>2, <1>3 DEF joins
<1>7. TrackingTypeOK'
  BY <1>2, <1>4, <1>5, <1>6, StreamSteps DEF TrackingIInv, TrackingTypeOK
<1>8. ContextFollows'
  BY <1>1, <1>2, <1>3, <1>4, <1>6 DEF TrackingIInv, ContextFollows, world
<1>9. SentFollows'
  BY <1>4, <1>6 DEF SentFollows
<1>10. Hears'
  BY <1>2, <1>3, <1>4, <1>6 DEF TrackingIInv, Hears, NothingSent
<1>11. Loading' /\ EndsOnce' /\ OwnPosition'
  BY <1>2, <1>3, <1>4, <1>5, <1>6 DEF TrackingIInv, Loading, EndsOnce, OwnPosition
<1> QED
  BY <1>7, <1>8, <1>9, <1>10, <1>11 DEF TrackingIInv

LEMMA StartLate ==
  ASSUME TrackingIInv, StartJoins
  PROVE  TrackingIInv'
<1>1. opening = "join" /\ opening' = "opened" /\ UNCHANGED <<world, triggers, running, answered, lost>>
  BY DEF StartJoins
<1>2. PICK h, c : h = hear(stream, "driver") /\ c = opened(h)
  OBVIOUS
<1>3. /\ h \in StreamType /\ h.held \subseteq h.joined
      /\ h.joined = stream.joined \cup {"driver"} /\ h.held = stream.held \cup {"driver"}
      /\ h.closed = stream.closed /\ h.context = stream.context /\ h.followed = stream.followed
      /\ h.pending = stream.pending /\ h.armed = stream.armed /\ h.sent = stream.sent /\ h.ends = stream.ends
  BY <1>2, TrackTypes, Hearing DEF Channel
<1>4. stream' = c
  BY <1>2 DEF StartJoins
<1>5. /\ stream' \in StreamType /\ stream'.held = h.held /\ stream'.joined = h.joined
      /\ stream'.closed = stream.closed /\ stream'.context = stream.context
      /\ stream'.followed = stream.followed /\ stream'.armed = stream.armed
      /\ stream'.sent = stream.sent /\ stream'.ends = stream.ends
      /\ stream.pending = "full" => stream'.pending = "full"
      /\ ~stream.closed => stream'.pending # "none"
  BY <1>2, <1>3, <1>4, Opens
<1>6. TrackingTypeOK'
  BY <1>1, <1>3, <1>5, StreamSteps DEF TrackingIInv, TrackingTypeOK
<1>7. ContextFollows'
  BY <1>1, <1>5 DEF TrackingIInv, ContextFollows, world
<1>8. SentFollows'
  BY <1>5 DEF SentFollows
<1>9. Hears'
  BY <1>1, <1>3, <1>5 DEF TrackingIInv, Hears
<1>10. Loading' /\ EndsOnce' /\ OwnPosition'
  BY <1>1, <1>5 DEF TrackingIInv, Loading, EndsOnce, OwnPosition
<1> QED
  BY <1>6, <1>7, <1>8, <1>9, <1>10 DEF TrackingIInv

\* The stream is closed: refused, failed, or left by its client.
LEMMA CloseSteps ==
  ASSUME TrackingIInv, StartRefused \/ RunFails \/ ClientLeaves
  PROVE  TrackingIInv'
<1>1. PICK c : c = IF StartRefused THEN dropped(stream) ELSE closedStream(stream)
  OBVIOUS
<1>2. /\ c \in StreamType /\ c.held \subseteq c.joined /\ c.closed /\ ~c.followed
      /\ c.context = stream.context /\ c.pending = stream.pending /\ c.sent = stream.sent /\ c.ends = stream.ends
  BY <1>1, TrackTypes, Closing
<1>3. UNCHANGED <<world, triggers, answered, lost>>
  BY DEF StartRefused, RunFails, ClientLeaves
<1>4. CASE stream' = c
  <2>1. /\ opening' \in {"join", "opened", "rejected"}
        /\ opening' # "rejected" => stream.context # "none"
        /\ running' \in {"idle", running}
    BY DEF StartRefused, RunFails, ClientLeaves, TrackingIInv, TrackingTypeOK, Loading
  <2> QED
    BY <1>2, <1>3, <1>4, <2>1, ClosedSteps DEF TrackingIInv, TrackingTypeOK, Loading, EndsOnce, OwnPosition
<1>5. CASE RunFails /\ stream.closed
  <2>1. stream' = stream /\ running' = "idle" /\ opening' = opening
    BY <1>5 DEF RunFails
  <2> QED
    BY <1>3, <1>5, <2>1, TrackTypes, ClosedSteps DEF TrackingIInv, TrackingTypeOK, Loading, EndsOnce, OwnPosition
<1>6. CASE StartRefused /\ opening = "new"
  <2>1. UNCHANGED <<stream, running>> /\ opening' = "rejected"
    BY <1>6 DEF StartRefused
  <2>2. TrackingTypeOK'
    BY <1>3, <2>1, TrackTypes, StreamSteps DEF TrackingIInv, TrackingTypeOK
  <2>3. ContextFollows' /\ SentFollows'
    BY <2>1 DEF ContextFollows, SentFollows
  <2>4. Hears' /\ Loading' /\ EndsOnce' /\ OwnPosition'
    BY <1>3, <1>6, <2>1 DEF TrackingIInv, Hears, Loading, EndsOnce, OwnPosition
  <2> QED
    BY <2>2, <2>3, <2>4 DEF TrackingIInv
<1> QED
  BY <1>1, <1>4, <1>5, <1>6 DEF StartRefused, RunFails, ClientLeaves

-----------------------------------------------------------------------------
(* run() *)
LEMMA RunEarly ==
  ASSUME TrackingIInv, RunBegins \/ RunAsks
  PROVE  TrackingIInv'
<1>1. UNCHANGED <<world, triggers, opening>>
  BY DEF RunBegins, RunAsks
<1>2. CASE RunBegins
  <2>1. /\ running = "idle" /\ stream.pending # "none" /\ stream' = [stream EXCEPT !.pending = "none"]
        /\ running' = IF stream.closed \/ stream.context = "none" THEN "idle"
                      ELSE IF stream.pending = "full" THEN "ask" ELSE "read"
        /\ lost' = (lost \/ stream.context = "none") /\ UNCHANGED answered
    BY <1>2 DEF RunBegins
  <2>2. /\ stream' \in StreamType /\ stream'.held = stream.held /\ stream'.joined = stream.joined
        /\ stream'.closed = stream.closed /\ stream'.context = stream.context
        /\ stream'.followed = stream.followed /\ stream'.pending = "none"
        /\ stream'.sent = stream.sent /\ stream'.armed = stream.armed /\ stream'.ends = stream.ends
    BY <2>1, TrackTypes, Pending
  <2>3. lost' \in BOOLEAN /\ (lost' <=> lost \/ stream.context = "none")
    BY <2>1 DEF TrackingIInv, TrackingTypeOK
  <2>4. TrackingTypeOK'
    BY <1>1, <2>1, <2>2, <2>3, TrackTypes, StreamSteps DEF TrackingIInv, TrackingTypeOK
  <2>5. ContextFollows'
    BY <1>1, <2>1, <2>2, <2>3 DEF TrackingIInv, ContextFollows, Loading, world
  <2>6. SentFollows'
    BY <1>1, <2>1, <2>2 DEF TrackingIInv, SentFollows, Loading
  <2>7. Hears'
    BY <1>1, <2>1, <2>2 DEF TrackingIInv, TrackingTypeOK, Hears, Loading, NothingSent
  <2>8. Loading' /\ EndsOnce' /\ OwnPosition'
    BY <1>1, <2>1, <2>2 DEF TrackingIInv, Loading, EndsOnce, OwnPosition
  <2> QED
    BY <2>4, <2>5, <2>6, <2>7, <2>8 DEF TrackingIInv
<1>3. CASE RunAsks
  <2>1. /\ running = "ask" /\ running' = "load" /\ lost' = FALSE /\ UNCHANGED stream
        /\ answered' = [answered EXCEPT !.run = delivery]
    BY <1>3 DEF RunAsks
  <2>2. answered' \in [start : Answer, run : Answer] /\ answered'.run = delivery /\ answered'.start = answered.start
    BY <2>1, TrackTypes DEF TrackingIInv, TrackingTypeOK
  <2>3. TrackingTypeOK'
    BY <1>1, <2>1, <2>2, TrackTypes, StreamSteps DEF TrackingIInv, TrackingTypeOK
  <2>4. ContextFollows' /\ SentFollows'
    BY <1>1, <2>1, <2>2 DEF TrackingIInv, ContextFollows, SentFollows, Loading, world
  <2>5. Hears' /\ Loading' /\ EndsOnce' /\ OwnPosition'
    BY <1>1, <2>1, <2>2, TrackTypes DEF TrackingIInv, Hears, Loading, EndsOnce, OwnPosition
  <2> QED
    BY <2>3, <2>4, <2>5 DEF TrackingIInv
<1> QED
  BY <1>2, <1>3

LEMMA RunLoadsStep ==
  ASSUME TrackingIInv, RunLoads
  PROVE  TrackingIInv'
<1>1. PICK status : status = answered.run
  OBVIOUS
<1>2. /\ UNCHANGED <<world, triggers, opening, lost>>
      /\ running = "load" /\ stream' = loaded(stream, status)
      /\ running' = IF joins(status) THEN "join" ELSE IF stream.closed THEN "idle" ELSE "read"
      /\ answered' = [answered EXCEPT !.run = "none"]
  BY <1>1 DEF RunLoads
<1>3. status \in Answer \ {"none"} /\ (~stream.closed => opening \in {"join", "opened"})
  BY <1>1, <1>2 DEF TrackingIInv, TrackingTypeOK, Loading
<1>4. /\ stream' \in StreamType /\ stream'.held \subseteq stream'.joined /\ stream'.context = status
      /\ stream'.followed <=> status = "assigned"
      /\ status = "assigned" => stream'.joined = stream.joined /\ stream'.held = stream.held
      /\ stream.held = stream.joined => stream'.held = stream'.joined
      /\ "delivery" \in stream.joined => "delivery" \in stream'.joined
      /\ stream'.closed = stream.closed /\ stream'.pending = stream.pending /\ stream'.armed = stream.armed
      /\ stream'.sent = stream.sent /\ stream'.ends = stream.ends
  BY <1>2, <1>3, TrackTypes, LoadedStream
<1>5. answered' \in [start : Answer, run : Answer] /\ answered'.start = answered.start
  BY <1>2 DEF TrackingIInv, TrackingTypeOK, Answer
<1>6. /\ running' \in {"idle", "join", "read"} /\ (~stream.closed => running' \in {"join", "read"})
      /\ status = "assigned" /\ ~stream.followed => running' = "join"
  BY <1>2 DEF joins
<1>7. TrackingTypeOK'
  BY <1>2, <1>4, <1>5, <1>6, StreamSteps DEF TrackingIInv, TrackingTypeOK
<1>8. ContextFollows'
  BY <1>1, <1>2, <1>3, <1>4, <1>6 DEF TrackingIInv, ContextFollows, world
<1>9. SentFollows'
  BY <1>4, <1>6 DEF SentFollows
<1>10. Hears'
  <2> SUFFICES ASSUME ~stream.closed
               PROVE  /\ opening \notin {"new", "rejected"} => "delivery" \in stream'.joined
                      /\ status = "assigned" =>
                           "driver" \in stream'.joined \/ opening = "join" \/ running' = "join"
                      /\ stream'.held = stream'.joined
    BY <1>2, <1>4, <1>6 DEF Hears
  <2>1. status = "assigned" => "driver" \in stream'.joined \/ opening = "join" \/ running' = "join"
    BY <1>2, <1>4, <1>6 DEF TrackingIInv, Hears, Loading
  <2> QED
    BY <1>3, <1>4, <2>1 DEF TrackingIInv, Hears
<1>11. Loading' /\ EndsOnce' /\ OwnPosition'
  BY <1>2, <1>3, <1>4, <1>5, <1>6 DEF TrackingIInv, Loading, EndsOnce, OwnPosition
<1> QED
  BY <1>7, <1>8, <1>9, <1>10, <1>11 DEF TrackingIInv

LEMMA RunJoinsStep ==
  ASSUME TrackingIInv, RunJoins
  PROVE  TrackingIInv'
<1>1. /\ running = "join" /\ running' = (IF stream.closed THEN "idle" ELSE "read")
      /\ stream' = hear(stream, "driver") /\ UNCHANGED <<world, triggers, opening, answered, lost>>
  BY DEF RunJoins
<1>2. /\ stream' \in StreamType /\ stream'.held \subseteq stream'.joined
      /\ stream'.joined = stream.joined \cup {"driver"} /\ stream'.held = stream.held \cup {"driver"}
      /\ stream'.closed = stream.closed /\ stream'.context = stream.context
      /\ stream'.followed = stream.followed /\ stream'.pending = stream.pending
      /\ stream'.armed = stream.armed /\ stream'.sent = stream.sent /\ stream'.ends = stream.ends
  BY <1>1, TrackTypes, Hearing DEF Channel
<1>3. TrackingTypeOK'
  BY <1>1, <1>2, StreamSteps DEF TrackingIInv, TrackingTypeOK
<1>4. ContextFollows' /\ SentFollows'
  BY <1>1, <1>2 DEF TrackingIInv, ContextFollows, SentFollows, world
<1>5. Hears' /\ Loading' /\ EndsOnce' /\ OwnPosition'
  BY <1>1, <1>2 DEF TrackingIInv, Hears, Loading, EndsOnce, OwnPosition
<1> QED
  BY <1>3, <1>4, <1>5 DEF TrackingIInv

\* What is sent is what the stream knows and the position it reads.
LEMMA RunEmitsStep ==
  ASSUME TrackingIInv, RunEmits
  PROVE  TrackingIInv'
<1>1. PICK r : r = resolveTracking(stream.context, positionForDelivery(position))
  OBVIOUS
<1>2. /\ running = "read" /\ running' = "idle" /\ stream' = emit(stream, r)
      /\ UNCHANGED <<world, triggers, opening, answered, lost>>
  BY <1>1 DEF RunEmits
<1>3. /\ opening \in {"join", "opened", "rejected"} /\ (~stream.closed => opening # "rejected")
      /\ stream.context \in Answer \ {"none"}
  BY <1>2, TrackTypes DEF TrackingIInv, TrackingTypeOK, Loading
<1>4. r \in Snapshot /\ r.on # "other"
  BY <1>1, <1>3, TrackTypes, ResolveIs
<1>5. CASE stream.closed
  <2>1. stream' = stream
    BY <1>2, <1>5 DEF emit
  <2> QED
    BY <1>2, <1>3, <1>5, <2>1, TrackTypes, ClosedSteps
       DEF TrackingIInv, TrackingTypeOK, Loading, EndsOnce, OwnPosition
<1>6. CASE ~stream.closed
  <2>1. PICK c : c = emitted(stream, r)
    OBVIOUS
  <2>2. stream.ends = 0
    BY <1>6 DEF TrackingIInv, EndsOnce
  <2>3. /\ c \in StreamType /\ c.held = stream.held /\ c.joined = stream.joined
        /\ c.closed = stream.closed /\ c.context = stream.context /\ c.followed = stream.followed
        /\ c.pending = stream.pending /\ c.sent = r
        /\ c.armed <=> r.tracking = "LIVE"
        /\ c.ends \in 0..1 /\ (r.tracking # "ENDED" => c.ends = 0)
    BY <1>4, <2>1, <2>2, TrackTypes, Showing
  <2>4. CASE r.tracking = "ENDED"
    <3>1. stream' = closedStream(c)
      BY <1>2, <1>6, <2>1, <2>4 DEF emit
    <3>2. /\ stream' \in StreamType /\ stream'.held \subseteq stream'.joined /\ stream'.closed
          /\ ~stream'.followed /\ stream'.context = c.context /\ stream'.sent = c.sent /\ stream'.ends = c.ends
      BY <2>3, <3>1, TrackTypes, Closing
    <3> QED
      BY <1>2, <1>3, <1>4, <2>3, <3>2, ClosedSteps DEF TrackingIInv, TrackingTypeOK
  <2>5. CASE r.tracking # "ENDED"
    <3>1. stream' = c
      BY <1>2, <1>6, <2>1, <2>5 DEF emit
    <3>2. TrackingTypeOK'
      BY <1>2, <2>3, <3>1, TrackTypes, StreamSteps DEF TrackingIInv, TrackingTypeOK
    <3>3. ContextFollows'
      BY <1>2, <2>3, <3>1 DEF TrackingIInv, ContextFollows, world
    <3>4. SentFollows'
      BY <1>1, <1>2, <2>3, <3>1 DEF SentFollows, fresh, world
    <3>5. Hears' /\ Loading' /\ EndsOnce' /\ OwnPosition'
      BY <1>2, <1>3, <1>4, <1>6, <2>3, <2>5, <3>1 DEF TrackingIInv, Hears, Loading, EndsOnce, OwnPosition
    <3> QED
      BY <3>2, <3>3, <3>4, <3>5 DEF TrackingIInv
  <2> QED
    BY <2>4, <2>5
<1> QED
  BY <1>5, <1>6

-----------------------------------------------------------------------------
LEMMA QuietIsCurrent == TrackingIInv => StreamTellsTruth
<1> SUFFICES ASSUME TrackingIInv PROVE StreamTellsTruth
  OBVIOUS
<1>1. EndedOnce
  BY DEF TrackingIInv, EndsOnce, EndedOnce
<1>2. QuietMeansCurrent
  <2> SUFFICES ASSUME opening = "opened", ~stream.closed, triggers = {}, stream.pending = "none",
                      running = "idle", ~staleDue, ~lost
               PROVE  stream.sent = current
    BY DEF QuietMeansCurrent
  <2>1. stream.context = delivery
    BY DEF TrackingIInv, ContextFollows
  <2>2. stream.sent = fresh \/ turning
    BY DEF TrackingIInv, SentFollows
  <2>3. ~turning
    BY DEF turning, staleDue
  <2> QED
    BY <2>1, <2>2, <2>3 DEF fresh, current
<1> QED
  BY <1>1, <1>2 DEF TrackingIInv, StreamTellsTruth

\* An open stream that is idle, with no trigger on its way and its timer not due,
\* shows the delivery as it is; none tells the end twice or shows a position
\* reported on another delivery - however start() and run() cross, and whatever
\* triggers, reports and closings come between their awaits
\* (TrackingStreamService, positionForDelivery).
THEOREM StreamIsTrue == TrackingSpec => []StreamTellsTruth
<1>1. TrackingInit => TrackingIInv
  BY TrackStart
<1>2. TrackingIInv /\ [TrackingNext]_trackingVars => TrackingIInv'
  <2> SUFFICES ASSUME TrackingIInv, [TrackingNext]_trackingVars PROVE TrackingIInv'
    OBVIOUS
  <2>1. CASE WorldNext
    BY <2>1, WorldSteps
  <2>2. ASSUME NEW ch \in Channel, Dispatch(ch) \/ LoseTrigger(ch) PROVE TrackingIInv'
    BY <2>2, DispatchStep
  <2>3. CASE StartSubscribes \/ StartStep
    BY <2>3, StartEarly, StartLoadsStep, StartLate DEF StartStep
  <2>4. CASE StartRefused \/ RunFails \/ ClientLeaves
    BY <2>4, CloseSteps
  <2>5. CASE RunStep
    BY <2>5, RunEarly, RunLoadsStep, RunJoinsStep, RunEmitsStep DEF RunStep
  <2>6. CASE Resync \/ StaleTimer
    BY <2>6, TimerSteps
  <2>7. CASE UNCHANGED trackingVars
    BY <2>7 DEF trackingVars, world, TrackingIInv, TrackingTypeOK, ContextFollows, SentFollows, fresh,
                turning, Hears, Loading, EndsOnce, OwnPosition
  <2> QED
    BY <2>1, <2>2, <2>3, <2>4, <2>5, <2>6, <2>7 DEF TrackingNext
<1>3. TrackingIInv => StreamTellsTruth
  BY QuietIsCurrent
<1> QED
  BY <1>1, <1>2, <1>3, PTL DEF TrackingSpec

-----------------------------------------------------------------------------
(* How fresh a position is (Freshness) *)

LEMMA DivFacts == 
  ASSUME NEW d \in Nat \ {0}, NEW x \in Int
  PROVE  x \div d \in Int /\ d * (x \div d) <= x /\ x < d * (x \div d) + d
BY SMT

LEMMA DivAtMost ==
  ASSUME NEW d \in Nat \ {0}, NEW x \in Int, NEW q \in Int, x < d * q + d
  PROVE  x \div d <= q
BY SMT

LEMMA DivAtLeast ==
  ASSUME NEW d \in Nat \ {0}, NEW x \in Int, NEW q \in Int, d * q <= x
  PROVE  q <= x \div d
BY SMT

LEMMA TimesKeeps ==
  ASSUME NEW d \in Nat, NEW x \in Int, NEW y \in Int, x <= y
  PROVE  x * d \in Int /\ x * d <= y * d
BY SMT

LEMMA MaxOfTwo ==
  ASSUME NEW a \in Int, NEW b \in Int
  PROVE  Max({a, b}) = IF a > b THEN a ELSE b
<1>1. PICK m : m = IF a > b THEN a ELSE b
  OBVIOUS
<1>2. m \in {a, b} /\ \A y \in {a, b} : m >= y
  BY <1>1
<1>3. \A n \in {a, b} : (\A y \in {a, b} : n >= y) => n = m
  BY <1>1
<1> QED
  BY <1>1, <1>2, <1>3 DEF Max

\* An age is the whole seconds since the stamp, or 0 for one from the future.
LEMMA Ages ==
  ASSUME clock \in Int, NEW received \in Int
  PROVE  /\ locationAge(received) \in Nat
         /\ received <= clock => /\ Second * locationAge(received) <= clock - received
                                 /\ clock - received < Second * locationAge(received) + Second
         /\ received > clock => locationAge(received) = 0
<1> USE FreshnessAssumption
<1>1. PICK x : x = clock - received
  OBVIOUS
<1>2. PICK q : q = x \div Second
  OBVIOUS
<1>3. x \in Int /\ q \in Int /\ Second * q <= x /\ x < Second * q + Second
  BY <1>1, <1>2, DivFacts
<1>4. locationAge(received) = Max({0, q})
  BY <1>1, <1>2 DEF locationAge
<1>5. locationAge(received) = IF 0 > q THEN 0 ELSE q
  BY <1>3, <1>4, MaxOfTwo
<1>6. x >= 0 => q >= 0
  <2>1. x >= 0 => Second * 0 <= x
    BY <1>3
  <2> QED
    BY <1>2, <1>3, <2>1, DivAtLeast
<1>7. x < 0 => q <= -1
  <2>1. x < 0 => x < Second * (-1) + Second
    BY <1>3
  <2> QED
    BY <1>2, <1>3, <2>1, DivAtMost
<1> QED
  BY <1>1, <1>3, <1>5, <1>6, <1>7

\* The timer is due when the position it was armed for has turned stale, or, for
\* one stamped ahead, that long from now.
LEMMA Delays ==
  ASSUME clock \in Int, NEW received \in Int, locationAge(received) <= staleAfter
  PROVE  /\ staleDelay(received) \in Nat
         /\ staleDelay(received) <= (staleAfter + 1) * Second
         /\ clock + staleDelay(received) - received < (staleAfter + 2) * Second
         /\ received <= clock => clock + staleDelay(received) - received >= (staleAfter + 1) * Second
<1> USE FreshnessAssumption
<1>1. PICK a : a = locationAge(received)
  OBVIOUS
<1>2. a \in 0..staleAfter /\ (received > clock => a = 0)
  BY <1>1, Ages
<1>3. received <= clock => Second * a <= clock - received /\ clock - received < Second * a + Second
  BY <1>1, Ages
<1>4. PICK k, w : k = staleAfter - a + 1 /\ w = k * Second
  OBVIOUS
<1>5. k \in Int /\ 1 <= k /\ k <= staleAfter + 1
  BY <1>2, <1>4
<1>6. w \in Int /\ Second <= w /\ w <= (staleAfter + 1) * Second
  <2>1. 1 * Second <= k * Second /\ k * Second \in Int /\ k * Second <= (staleAfter + 1) * Second
    BY <1>5, TimesKeeps
  <2> QED
    BY <1>4, <2>1
<1>7. staleDelay(received) = w
  <2>1. staleDelay(received) = Max({w, Second})
    BY <1>1, <1>4 DEF staleDelay
  <2>2. Max({w, Second}) = w
    BY <1>6, MaxOfTwo
  <2> QED
    BY <2>1, <2>2
<1>8. w + Second * a = (staleAfter + 1) * Second /\ (staleAfter + 2) * Second = (staleAfter + 1) * Second + Second
  BY <1>2, <1>4
<1>9. Second * a \in Nat /\ (staleAfter + 1) * Second \in Nat
  BY <1>2
<1>10. PICK z, v : z = Second * a /\ v = (staleAfter + 1) * Second
  OBVIOUS
<1>11. /\ clock + w - received < v + Second
       /\ received <= clock => clock + w - received >= v
  BY <1>2, <1>3, <1>6, <1>8, <1>9, <1>10
<1> QED
  BY <1>6, <1>7, <1>8, <1>10, <1>11

-----------------------------------------------------------------------------
\* The timer of a position shown as live is armed for when it turns stale, and
\* an estimate is only sent with such a position.
TimerCovers ==
  /\ shown.tracking = "LIVE" =>
       /\ shown.basedOn # Never /\ staleAt # Never /\ clock <= staleAt
       /\ staleAt - shown.basedOn < (staleAfter + 2) * Second
       /\ shown.basedOn <= shown.at => staleAt - shown.basedOn >= (staleAfter + 1) * Second
  /\ shown.estimated => shown.tracking = "LIVE"

FreshnessIInv == FreshnessTypeOK /\ TimerCovers

LEMMA FreshStart == FreshnessInit => FreshnessIInv
<1> SUFFICES ASSUME FreshnessInit PROVE FreshnessIInv
  OBVIOUS
<1>1. FreshnessTypeOK
  <2>1. -1 \in -1..(MaxTick + MaxSkew) /\ 0 \in 0..MaxTick
    BY FreshnessAssumption
  <2>2. (staleAfter + 1) * Second \in Nat
    BY FreshnessAssumption
  <2>3. -1 \in -1..(MaxTick + (staleAfter + 1) * Second)
    BY <2>2, FreshnessAssumption
  <2> QED
    BY <2>1, <2>3 DEF FreshnessInit, FreshnessTypeOK, Shown, Tick, Never
<1>2. TimerCovers
  BY DEF FreshnessInit, TimerCovers
<1> QED
  BY <1>1, <1>2 DEF FreshnessIInv

LEMMA FreshTypes ==
  ASSUME FreshnessIInv
  PROVE  /\ clock \in Nat /\ clock <= MaxTick /\ fix \in Int /\ staleAt \in Int
         /\ shown \in Shown /\ shown.basedOn \in Int /\ shown.at \in Nat
BY FreshnessAssumption DEF FreshnessIInv, FreshnessTypeOK, Shown, Tick

\* Nothing of what the customer was sent changes.
LEMMA WorldMoves ==
  ASSUME FreshnessIInv, Tock \/ ErrandMoves \/ FixExpires \/ \E skew \in 0..MaxSkew : ReceiveReport(skew)
  PROVE  FreshnessIInv'
<1> USE FreshnessAssumption
<1>1. UNCHANGED <<shown, staleAt>>
  BY DEF Tock, ErrandMoves, FixExpires, ReceiveReport
<1>2. /\ clock' \in Tick
      /\ \/ clock' = clock
         \/ clock' = clock + 1 /\ clock # staleAt
  BY FreshTypes DEF Tock, ErrandMoves, FixExpires, ReceiveReport, Tick
<1>3. fix' \in -1..(MaxTick + MaxSkew) /\ errand' \in {"waiting", "assigned", "ended"}
  <2>1. CASE Tock
    BY <2>1 DEF Tock, FreshnessIInv, FreshnessTypeOK
  <2>2. CASE ErrandMoves
    BY <2>2 DEF ErrandMoves, FreshnessIInv, FreshnessTypeOK
  <2>3. CASE FixExpires
    BY <2>3 DEF FixExpires, Never, FreshnessIInv, FreshnessTypeOK
  <2>4. ASSUME NEW skew \in 0..MaxSkew, ReceiveReport(skew)
        PROVE  fix' \in -1..(MaxTick + MaxSkew) /\ errand' \in {"waiting", "assigned", "ended"}
    <3>1. errand' = errand /\ fix' = clock + skew
      BY <2>4 DEF ReceiveReport
    <3> QED
      BY <3>1, FreshTypes DEF FreshnessIInv, FreshnessTypeOK
  <2> QED
    BY <2>1, <2>2, <2>3, <2>4
<1>4. FreshnessTypeOK'
  BY <1>1, <1>2, <1>3 DEF FreshnessIInv, FreshnessTypeOK
<1>5. TimerCovers'
  <2>1. shown.tracking = "LIVE" => clock' <= staleAt
    BY <1>2, FreshTypes DEF FreshnessIInv, TimerCovers
  <2> QED
    BY <1>1, <2>1 DEF FreshnessIInv, TimerCovers
<1> QED
  BY <1>4, <1>5 DEF FreshnessIInv

LEMMA LiveMeans ==
  ASSUME NEW job \in {"waiting", "assigned", "ended"}, NEW received, resolved(job, received) = "LIVE"
  PROVE  job = "assigned" /\ received # Never /\ ~(locationAge(received) > staleAfter)
BY DEF resolved

LEMMA EmitStep ==
  ASSUME FreshnessIInv, EmitSnapshot
  PROVE  FreshnessIInv'
<1> USE FreshnessAssumption
<1>1. PICK t : t = resolved(errand, fix)
  OBVIOUS
<1>2. PICK estimated \in {FALSE, t = "LIVE"} :
        shown' = [tracking |-> t, basedOn |-> fix, at |-> clock, estimated |-> estimated]
  BY <1>1 DEF EmitSnapshot
<1>3. /\ staleAt' = IF t = "LIVE" THEN clock + staleDelay(fix) ELSE Never
      /\ UNCHANGED <<clock, errand, fix>>
  BY <1>1 DEF EmitSnapshot
<1>4. t \in {"NO_DRIVER", "AWAITING_LOCATION", "LIVE", "STALE", "ENDED"}
  BY <1>1 DEF resolved, FreshnessIInv, FreshnessTypeOK
<1>5. estimated \in BOOLEAN /\ (estimated => t = "LIVE")
  BY <1>2
<1>6. /\ shown'.tracking = t /\ shown'.basedOn = fix /\ shown'.at = clock
      /\ shown'.estimated = estimated /\ shown' \in Shown
  BY <1>2, <1>4, <1>5 DEF Shown, FreshnessIInv, FreshnessTypeOK
<1>7. PICK v : v = (staleAfter + 1) * Second
  OBVIOUS
<1>8. v \in Nat
  BY <1>7
<1>9. CASE t = "LIVE"
  <2>1. fix # Never /\ locationAge(fix) <= staleAfter
    <3>1. fix # Never /\ ~(locationAge(fix) > staleAfter)
      BY <1>1, <1>9, LiveMeans DEF FreshnessIInv, FreshnessTypeOK
    <3> QED
      BY <3>1, Ages, FreshTypes
  <2>2. PICK w : w = staleDelay(fix)
    OBVIOUS
  <2>3. /\ w \in Nat /\ w <= v
        /\ clock + w - fix < (staleAfter + 2) * Second
        /\ fix <= clock => clock + w - fix >= (staleAfter + 1) * Second
    BY <1>7, <2>1, <2>2, Delays, FreshTypes
  <2>4. staleAt' = clock + w
    BY <1>3, <1>9, <2>2
  <2>5. staleAt' \in -1..(MaxTick + v) /\ staleAt' # Never /\ clock <= staleAt'
    BY <1>8, <2>3, <2>4, FreshTypes DEF Never
  <2>6. FreshnessTypeOK'
    BY <1>3, <1>6, <1>7, <2>5 DEF FreshnessIInv, FreshnessTypeOK
  <2>7. TimerCovers'
    <3>1. clock' = clock /\ shown'.basedOn # Never
      BY <1>3, <1>6, <2>1
    <3>2. /\ staleAt' - shown'.basedOn < (staleAfter + 2) * Second
          /\ shown'.basedOn <= shown'.at => staleAt' - shown'.basedOn >= (staleAfter + 1) * Second
      <4>1. PICK y, z : y = (staleAfter + 2) * Second /\ z = staleAt'
        OBVIOUS
      <4>2. z - fix < y /\ (fix <= clock => z - fix >= v)
        BY <1>7, <2>3, <2>4, <4>1, FreshTypes
      <4> QED
        BY <1>6, <1>7, <4>1, <4>2
    <3>3. shown'.estimated => shown'.tracking = "LIVE"
      BY <1>5, <1>6
    <3> QED
      BY <2>5, <3>1, <3>2, <3>3 DEF TimerCovers
  <2> QED
    BY <2>6, <2>7 DEF FreshnessIInv
<1>10. CASE t # "LIVE"
  <2>1. staleAt' \in -1..(MaxTick + v)
    BY <1>3, <1>8, <1>10 DEF Never
  <2>2. FreshnessTypeOK'
    BY <1>3, <1>6, <1>7, <2>1 DEF FreshnessIInv, FreshnessTypeOK
  <2>3. TimerCovers'
    BY <1>5, <1>6, <1>10 DEF TimerCovers
  <2> QED
    BY <2>2, <2>3 DEF FreshnessIInv
<1> QED
  BY <1>9, <1>10

LEMMA FreshKept == FreshnessIInv => LiveTurnsStale /\ EtaInTime
<1> USE FreshnessAssumption
<1> SUFFICES ASSUME FreshnessIInv PROVE LiveTurnsStale /\ EtaInTime
  OBVIOUS
<1>1. PICK b : b = shown.basedOn
  OBVIOUS
<1>2. b \in Int /\ clock \in Nat /\ staleAt \in Int
  BY <1>1, FreshTypes
<1>3. LiveTurnsStale
  <2> SUFFICES ASSUME shown.tracking = "LIVE"
               PROVE  /\ staleAt # Never /\ clock <= staleAt
                      /\ clock < staleAt => clock - shown.basedOn < (staleAfter + 2) * Second
                      /\ clock = staleAt /\ shown.basedOn <= shown.at => locationAge(shown.basedOn) > staleAfter
    BY DEF LiveTurnsStale
  <2>1. /\ staleAt # Never /\ clock <= staleAt
        /\ staleAt - b < (staleAfter + 2) * Second
        /\ b <= shown.at => staleAt - b >= (staleAfter + 1) * Second
    BY <1>1 DEF FreshnessIInv, TimerCovers
  <2>2. (staleAfter + 2) * Second \in Nat /\ (staleAfter + 1) * Second \in Nat
        /\ (staleAfter + 1) * Second = Second * (staleAfter + 1)
        /\ (staleAfter + 1) * Second > 0
    <3>1. 1 * Second <= (staleAfter + 1) * Second
      BY TimesKeeps
    <3> QED
      BY <3>1
  <2>3. clock < staleAt => clock - b < (staleAfter + 2) * Second
    BY <1>2, <2>1, <2>2
  <2>4. ASSUME clock = staleAt, b <= shown.at PROVE locationAge(b) > staleAfter
    <3>1. clock - b >= Second * (staleAfter + 1) /\ b <= clock
      BY <1>2, <2>1, <2>2, <2>4
    <3>2. PICK a : a = locationAge(b)
      OBVIOUS
    <3>3. a \in Nat /\ clock - b < Second * a + Second
      BY <1>2, <3>1, <3>2, Ages
    <3>4. ASSUME a <= staleAfter PROVE FALSE
      <4>1. a * Second <= staleAfter * Second
        BY <3>3, <3>4, TimesKeeps
      <4> QED
        BY <1>2, <3>1, <3>3, <4>1
    <3> QED
      BY <3>2, <3>3, <3>4
  <2> QED
    BY <1>1, <2>1, <2>3, <2>4
<1>4. EtaInTime
  <2> SUFFICES ASSUME isEtaValid(shown) PROVE resolved(errand, shown.basedOn) = "LIVE"
    BY DEF EtaInTime
  <2>1. errand = "assigned" /\ b # Never /\ clock <= b + staleAfter * Second
    BY <1>1 DEF isEtaValid, validUntil, FreshnessIInv, TimerCovers
  <2>2. PICK a : a = locationAge(b)
    OBVIOUS
  <2>3. a \in Nat /\ (b <= clock => Second * a <= clock - b) /\ (b > clock => a = 0)
    BY <1>2, <2>2, Ages
  <2>4. a <= staleAfter
    <3>1. CASE b > clock
      BY <2>3, <3>1
    <3>2. CASE b <= clock
      <4>1. Second * a <= staleAfter * Second
        <5>1. PICK u, w : u = Second * a /\ w = staleAfter * Second
          OBVIOUS
        <5>2. u \in Int /\ w \in Int
          BY <2>3, <5>1
        <5> QED
          BY <1>2, <2>1, <2>3, <3>2, <5>1, <5>2
      <4>2. ASSUME a >= staleAfter + 1 PROVE FALSE
        <5>1. (staleAfter + 1) * Second <= a * Second
          BY <2>3, <4>2, TimesKeeps
        <5> QED
          BY <2>3, <4>1, <5>1
      <4> QED
        BY <2>3, <4>2
    <3> QED
      BY <1>2, <3>1, <3>2
  <2>5. ~(locationAge(b) > staleAfter)
    BY <2>2, <2>3, <2>4
  <2> QED
    BY <1>1, <2>1, <2>5 DEF resolved
<1> QED
  BY <1>3, <1>4

-----------------------------------------------------------------------------
\* A position is shown as live for less than a second after it turned stale and
\* an estimate a client may still show is of a position that has not, however
\* ages were rounded and for every skew of the clocks (armStaleTimer,
\* resolveTracking, deriveEta, isEtaValid).
THEOREM FreshnessHolds == FreshnessSpec => []FreshnessKept
<1>1. FreshnessInit => FreshnessIInv
  BY FreshStart
<1>2. FreshnessIInv /\ [FreshnessNext]_freshVars => FreshnessIInv'
  <2> SUFFICES ASSUME FreshnessIInv, [FreshnessNext]_freshVars PROVE FreshnessIInv'
    OBVIOUS
  <2>1. CASE FreshnessNext
    BY <2>1, WorldMoves, EmitStep DEF FreshnessNext
  <2>2. CASE UNCHANGED freshVars
    BY <2>2 DEF freshVars, FreshnessIInv, FreshnessTypeOK, TimerCovers
  <2> QED
    BY <2>1, <2>2
<1>3. FreshnessIInv => FreshnessKept
  BY FreshKept DEF FreshnessIInv, FreshnessKept
<1> QED
  BY <1>1, <1>2, <1>3, PTL DEF FreshnessSpec

-----------------------------------------------------------------------------
(* Pages of a listing that changes meanwhile (Listing) *)

ReaderState ==
  [pc : {"idle", "items", "count", "done"}, page : Nat \ {0}, got : SUBSET PageRow,
   steady : SUBSET PageRow, departures : Nat, changes : Nat]

ListingTypeOK ==
  /\ filter \in {"any"} \cup Group
  /\ key \in [PageRow -> Nat] /\ statusGroup \in [PageRow -> Group]
  /\ walk \in ReaderState

\* The rows that come before n, and how many the reader has read or skipped.
ahead(n) == {m \in Listed : key[m] > key[n]}
readUpTo(w) == IF w.pc = "count" THEN w.page * limit ELSE (w.page - 1) * limit

\* The rows untouched so far that no later page will hold.
Passed == {n \in walk.steady \ walk.got : Cardinality(ahead(n)) < readUpTo(walk)}

ListingIInv ==
  /\ ListingTypeOK
  /\ \A n \in walk.steady : inListing(n) /\ n \notin tied(key)
  /\ walk.pc # "done" => Cardinality(Passed) <= walk.departures
  /\ filter = "any" /\ kind # "restaurants" => walk.departures = 0
  /\ ListingComplete

-----------------------------------------------------------------------------
LEMMA RowsFinite ==
  ASSUME NEW S \in SUBSET PageRow
  PROVE  IsFiniteSet(S) /\ Cardinality(S) \in Nat
BY ListingAssumption, FS_Subset, FS_CardinalityType

LEMMA FewerRows ==
  ASSUME NEW S \in SUBSET PageRow, NEW T \in SUBSET S
  PROVE  Cardinality(T) <= Cardinality(S)
BY RowsFinite, FS_Subset

LEMMA RowsAhead ==
  ASSUME ListingIInv, NEW n \in PageRow
  PROVE  /\ ahead(n) \in SUBSET PageRow /\ Cardinality(ahead(n)) \in Nat
         /\ Listed \in SUBSET PageRow /\ Cardinality(Listed) \in Nat
         /\ Passed \in SUBSET PageRow
<1>1. ahead(n) \in SUBSET PageRow /\ Listed \in SUBSET PageRow
  BY DEF ahead, Listed
<1>2. Passed \in SUBSET PageRow
  BY DEF Passed, ListingIInv, ListingTypeOK, ReaderState
<1> QED
  BY <1>1, <1>2, RowsFinite

LEMMA ReaderPlace ==
  ASSUME NEW w \in ReaderState
  PROVE  w.page * limit \in Nat /\ (w.page - 1) * limit \in Nat /\ readUpTo(w) \in Nat
<1>1. w.page \in Nat /\ w.page - 1 \in Nat /\ limit \in Nat
  BY ListingAssumption DEF ReaderState
<1>2. \A a, b \in Nat : a * b \in Nat
  OBVIOUS
<1> QED
  BY <1>1, <1>2 DEF readUpTo

\* A row of the listing that shares its key with none comes after those ahead of it.
LEMMA RanksApart ==
  ASSUME ListingIInv, NEW m \in walk.steady, NEW n \in walk.steady, m # n
  PROVE  Cardinality(ahead(m)) # Cardinality(ahead(n))
<1>1. /\ m \in PageRow /\ n \in PageRow /\ inListing(m) /\ inListing(n)
      /\ m \notin tied(key) /\ n \notin tied(key) /\ key[m] \in Nat /\ key[n] \in Nat
      /\ \A x \in PageRow : key[x] \in Nat
  BY DEF ListingIInv, ListingTypeOK, ReaderState
<1>2. key[m] # key[n]
  BY <1>1 DEF tied, inListing
<1>3. ASSUME NEW a \in {m, n}, NEW b \in {m, n}, key[a] > key[b]
      PROVE  Cardinality(ahead(a)) < Cardinality(ahead(b))
  <2>1. a \in ahead(b) /\ a \notin ahead(a)
    BY <1>1, <1>3 DEF ahead, Listed
  <2>2. ahead(a) \cup {a} \subseteq ahead(b)
    BY <1>1, <1>3, <2>1 DEF ahead, Listed
  <2>3. ahead(b) \in SUBSET PageRow /\ ahead(a) \in SUBSET PageRow
        /\ Cardinality(ahead(a)) \in Nat /\ Cardinality(ahead(b)) \in Nat
    BY <1>1, RowsAhead
  <2>4. Cardinality(ahead(a) \cup {a}) = Cardinality(ahead(a)) + 1
    <3>1. IsFiniteSet(ahead(a))
      BY <2>3, RowsFinite
    <3> QED
      BY <2>1, <3>1, FS_AddElement
  <2>5. Cardinality(ahead(a) \cup {a}) <= Cardinality(ahead(b))
    BY <2>2, <2>3, FewerRows
  <2> QED
    BY <2>3, <2>4, <2>5
<1>4. Cardinality(ahead(m)) \in Nat /\ Cardinality(ahead(n)) \in Nat
  BY <1>1, RowsAhead
<1> QED
  BY <1>1, <1>2, <1>3, <1>4

-----------------------------------------------------------------------------
(* Where a row stands in an answer *)

LEMMA KeysFall ==
  ASSUME ListingIInv, NEW s \in sorted(Listed), NEW a \in DOMAIN s, NEW b \in DOMAIN s, a <= b
  PROVE  key[s[a]] >= key[s[b]]
<1> DEFINE C == Cardinality(Listed)
           Bad == {j \in a..b : key[s[j]] > key[s[a]]}
<1>1. C \in Nat /\ \A n \in Listed : key[n] \in Nat
  <2>1. Listed \in SUBSET PageRow
    BY DEF Listed
  <2> QED
    BY <2>1, RowsFinite DEF ListingIInv, ListingTypeOK
<1>2. s \in [1..C -> Listed] /\ \A j \in 1..(Len(s) - 1) : key[s[j]] >= key[s[j + 1]]
  BY DEF sorted, SetToSeqs
<1> HIDE DEF C
<1>3. Len(s) = C /\ DOMAIN s = 1..C
  BY <1>1, <1>2
<1>4. \A j \in 1..C : key[s[j]] \in Nat
  BY <1>1, <1>2
<1>5. CASE Bad # {}
  <2>1. Bad \in SUBSET Nat
    BY <1>3
  <2>2. PICK m \in Bad : \A j \in Bad : m <= j
    BY <1>5, <2>1, LeastExists
  <2>3. m \in a..b /\ key[s[m]] > key[s[a]]
    BY <2>2
  <2>4. m # a
    BY <1>3, <1>4, <2>3
  <2>5. m - 1 \in a..b /\ m - 1 \notin Bad /\ m - 1 \in 1..(Len(s) - 1) /\ m - 1 + 1 = m
    BY <1>1, <1>3, <2>2, <2>3, <2>4
  <2>6. ~(key[s[m - 1]] > key[s[a]]) /\ key[s[m - 1]] >= key[s[m]]
    BY <1>2, <2>5
  <2>7. key[s[m]] \in Nat /\ key[s[m - 1]] \in Nat /\ key[s[a]] \in Nat
    BY <1>1, <1>3, <1>4, <2>3, <2>5
  <2> QED
    BY <2>3, <2>6, <2>7
<1>6. CASE Bad = {}
  <2>1. ~(key[s[b]] > key[s[a]])
    BY <1>3, <1>6
  <2> QED
    BY <1>3, <1>4, <2>1
<1> QED
  BY <1>5, <1>6

LEMMA PlaceInAnswer ==
  ASSUME ListingIInv, NEW s \in sorted(Listed), NEW n \in Listed, n \notin tied(key)
  PROVE  Cardinality(ahead(n)) + 1 \in DOMAIN s /\ s[Cardinality(ahead(n)) + 1] = n
<1> DEFINE C == Cardinality(Listed)
<1>1. C \in Nat /\ IsFiniteSet(Listed) /\ Listed \in SUBSET PageRow
  <2>1. Listed \in SUBSET PageRow
    BY DEF Listed
  <2> QED
    BY <2>1, RowsFinite
<1>2. s \in [1..C -> Listed] /\ \A i, j \in 1..C : i # j => s[i] # s[j]
  BY DEF sorted, SetToSeqs
<1>3. \E i \in 1..C : s[i] = n
  <2>1. s \in Injection(1..C, Listed)
    BY <1>2 DEF Injection, IsInjective
  <2>2. IsFiniteSet(1..C) /\ Cardinality(1..C) = C
    <3>1. IsFiniteSet(1..C) /\ Cardinality(1..C) = IF 1 > C THEN 0 ELSE C - 1 + 1
      BY <1>1, FS_Interval
    <3> QED
      BY <1>1, <3>1
  <2>3. s \in Surjection(1..C, Listed)
    BY <1>1, <2>1, <2>2, FS_Injection
  <2> QED
    BY <2>3 DEF Surjection
<1> HIDE DEF C
<1>4. PICK i \in 1..C : s[i] = n
  BY <1>3
<1>5. DOMAIN s = 1..C /\ \A j \in 1..C : s[j] \in Listed /\ s[j] \in PageRow
  BY <1>1, <1>2
<1>6. \A m \in PageRow : key[m] \in Nat
  BY DEF ListingIInv, ListingTypeOK
<1>7. \A j \in 1..C : j <= i => key[s[j]] >= key[n]
  BY <1>4, <1>5, KeysFall
<1>8. \A j \in 1..C : i <= j => key[n] >= key[s[j]]
  BY <1>4, <1>5, KeysFall
<1>9. n \in PageRow /\ key[n] > 0
  BY <1>1 DEF Listed, inListing
<1>10. \A m \in PageRow \ {n} : key[m] # key[n]
  BY <1>9 DEF tied
<1>11. \A j \in 1..C : j < i <=> key[s[j]] > key[n]
  <2> SUFFICES ASSUME NEW j \in 1..C PROVE j < i <=> key[s[j]] > key[n]
    OBVIOUS
  <2>1. key[s[j]] \in Nat /\ key[n] \in Nat
    BY <1>5, <1>6, <1>9
  <2>2. CASE j < i
    <3>1. s[j] # n
      BY <1>2, <1>4, <2>2
    <3>2. key[s[j]] # key[n] /\ key[s[j]] >= key[n]
      BY <1>5, <1>7, <1>10, <2>2, <3>1
    <3> QED
      BY <2>1, <2>2, <3>2
  <2>3. CASE ~(j < i)
    <3>1. i <= j
      BY <2>3
    <3>2. key[n] >= key[s[j]]
      BY <1>8, <3>1
    <3> QED
      BY <2>1, <2>3, <3>2
  <2> QED
    BY <2>2, <2>3
<1>12. ahead(n) = {s[j] : j \in 1..(i - 1)}
  <2>1. \A j \in 1..(i - 1) : j \in 1..C /\ j < i
    BY <1>1, <1>4
  <2>2. {s[j] : j \in 1..(i - 1)} \subseteq ahead(n)
    BY <1>5, <1>11, <2>1 DEF ahead
  <2>3. ASSUME NEW m \in ahead(n) PROVE \E j \in 1..(i - 1) : s[j] = m
    <3>1. m \in Listed /\ key[m] > key[n]
      BY <2>3 DEF ahead
    <3>2. PICK j \in 1..C : s[j] = m
      <4>1. s \in Injection(1..C, Listed)
        BY <1>2 DEF Injection, IsInjective
      <4>2. IsFiniteSet(1..C) /\ Cardinality(1..C) = IF 1 > C THEN 0 ELSE C - 1 + 1
        BY <1>1, FS_Interval DEF C
      <4>3. Cardinality(1..C) = Cardinality(Listed)
        BY <1>1, <4>2 DEF C
      <4>4. s \in Surjection(1..C, Listed)
        BY <1>1, <4>1, <4>3, FS_Injection
      <4> QED
        BY <3>1, <4>4 DEF Surjection
    <3>3. j < i
      BY <1>11, <3>1, <3>2
    <3> QED
      BY <3>2, <3>3
  <2> QED
    BY <2>2, <2>3
<1>13. Cardinality(ahead(n)) = i - 1
  <2> DEFINE f == [j \in 1..(i - 1) |-> s[j]]
             R == {s[j] : j \in 1..(i - 1)}
  <2>1. \A j, k \in 1..(i - 1) : s[j] = s[k] => j = k
    BY <1>1, <1>2, <1>4
  <2>2. f \in Bijection(1..(i - 1), R)
    BY <2>1 DEF Bijection, Injection, Surjection, IsInjective
  <2> HIDE DEF f
  <2>3. ExistsBijection(1..(i - 1), R)
    BY <2>2 DEF ExistsBijection
  <2>4. IsFiniteSet(1..(i - 1)) /\ Cardinality(1..(i - 1)) = i - 1
    <3>1. IsFiniteSet(1..(i - 1)) /\ Cardinality(1..(i - 1)) = IF 1 > i - 1 THEN 0 ELSE i - 1 - 1 + 1
      BY <1>4, FS_Interval
    <3> QED
      BY <1>4, <3>1
  <2> HIDE DEF R
  <2>5. Cardinality(R) = i - 1
    BY <2>3, <2>4, FS_Bijection
  <2> QED
    BY <1>12, <2>5 DEF R
<1> QED
  BY <1>4, <1>5, <1>13

-----------------------------------------------------------------------------
(* The reader's steps *)

LEMMA ListingStart == ListingInit => ListingIInv
<1> SUFFICES ASSUME ListingInit PROVE ListingIInv
  OBVIOUS
<1> USE DEF ListingInit
<1>1. walk = NoWalk /\ walk \in ReaderState /\ walk.steady = {} /\ walk.pc = "idle" /\ walk.departures = 0
  BY DEF NoWalk, ReaderState
<1>2. ListingTypeOK
  <2>1. key \in [PageRow -> Nat]
    BY ListingAssumption
  <2>2. filter \in {"any"} \cup Group
    OBVIOUS
  <2> QED
    BY <1>1, <2>1, <2>2 DEF ListingTypeOK
<1>3. Passed = {}
  BY <1>1 DEF Passed
<1>4. Cardinality(Passed) = 0
  BY <1>3, FS_EmptySet
<1> QED
  BY <1>1, <1>2, <1>4 DEF ListingIInv, ListingComplete

LEMMA BeginStep ==
  ASSUME ListingIInv, Begin
  PROVE  ListingIInv'
<1>0. PICK S : S = Listed \ tied(key)
  OBVIOUS
<1>z. PICK z : z = NoWalk
  OBVIOUS
<1>1. PICK w : w = [z EXCEPT !.pc = "items", !.steady = S]
  OBVIOUS
<1>s. S \subseteq PageRow
  BY <1>0 DEF Listed
<1>w. z \in ReaderState /\ z.page = 1 /\ z.got = {} /\ z.departures = 0
  BY <1>z DEF NoWalk, ReaderState
<1>2. /\ w.pc = "items" /\ w.page = 1 /\ w.got = {} /\ w.steady = S /\ w.departures = 0
      /\ w \in ReaderState
  BY <1>1, <1>s, <1>w DEF ReaderState
<1>3. walk' = w /\ UNCHANGED <<kind, filter, key, statusGroup>>
  BY <1>0, <1>1, <1>z DEF Begin
<1>4. ListingTypeOK'
  BY <1>2, <1>3 DEF ListingIInv, ListingTypeOK
<1>5. \A n \in walk'.steady : inListing(n)' /\ n \notin tied(key')
  BY <1>0, <1>2, <1>3 DEF inListing, Listed, tied
<1>6. Passed' = {}
  <2>1. readUpTo(w) = 0
    <3>1. (w.page - 1) * limit = 0
      BY <1>2, ListingAssumption
    <3> QED
      BY <1>2, <3>1 DEF readUpTo
  <2>2. ASSUME NEW n \in walk'.steady PROVE Cardinality(ahead(n)') \in Nat
    <3>1. ahead(n)' \in SUBSET PageRow
      BY DEF ahead, Listed
    <3> QED
      BY <3>1, RowsFinite
  <2> QED
    BY <1>3, <2>1, <2>2 DEF Passed
<1>7. Cardinality(Passed') = 0
  BY <1>6, FS_EmptySet
<1>8. ListingComplete'
  BY <1>2, <1>3 DEF ListingComplete
<1> QED
  BY <1>2, <1>3, <1>4, <1>5, <1>7, <1>8 DEF ListingIInv

\* The reader goes on and passes no row it does not take.
LEMMA ReaderGoesOn ==
  ASSUME ListingIInv, NEW w \in ReaderState, walk' = w, UNCHANGED <<kind, filter, key, statusGroup>>,
         w.steady = walk.steady, w.departures = walk.departures, walk.pc # "done", w.pc # "done",
         {n \in w.steady \ w.got : Cardinality(ahead(n)) < readUpTo(w)} \subseteq Passed
  PROVE  ListingIInv'
<1>1. ListingTypeOK'
  BY DEF ListingIInv, ListingTypeOK
<1>2. \A n \in walk'.steady : inListing(n)' /\ n \notin tied(key')
  BY DEF ListingIInv, inListing, tied
<1>3. Passed' \subseteq Passed
  BY DEF Passed, ahead, Listed, inListing
<1>4. Passed \in SUBSET PageRow
  BY DEF Passed, ListingIInv, ListingTypeOK, ReaderState
<1>5. /\ Cardinality(Passed') <= Cardinality(Passed) /\ Cardinality(Passed) \in Nat
      /\ Cardinality(Passed') \in Nat
  BY <1>3, <1>4, FewerRows, RowsFinite
<1>6. walk.departures \in Nat /\ Cardinality(Passed) <= walk.departures
  BY DEF ListingIInv, ListingTypeOK, ReaderState
<1>7. Cardinality(Passed') <= walk'.departures
  BY <1>5, <1>6
<1>8. ListingComplete'
  BY DEF ListingComplete
<1> QED
  BY <1>1, <1>2, <1>7, <1>8 DEF ListingIInv

LEMMA ReadItemsStep ==
  ASSUME ListingIInv, ReadItems
  PROVE  ListingIInv'
<1>1. PICK s \in sorted(Listed) : walk' = [walk EXCEPT !.pc = "count", !.got = @ \cup pageOf(s, walk.page)]
  BY DEF ReadItems
<1>2. PICK P : P = pageOf(s, walk.page)
  OBVIOUS
<1>3. P \subseteq PageRow
  BY <1>2 DEF pageOf, sorted, SetToSeqs, Listed
<1>4. PICK w : w = [walk EXCEPT !.pc = "count", !.got = @ \cup P]
  OBVIOUS
<1>5. walk \in ReaderState
  BY DEF ListingIInv, ListingTypeOK
<1>6. /\ w \in ReaderState /\ w.pc = "count" /\ w.got = walk.got \cup P /\ w.page = walk.page
      /\ w.steady = walk.steady /\ w.departures = walk.departures
  BY <1>3, <1>4, <1>5 DEF ReaderState
<1>7. walk' = w /\ UNCHANGED <<kind, filter, key, statusGroup>> /\ walk.pc = "items"
  BY <1>1, <1>2, <1>4 DEF ReadItems
<1>8. readUpTo(w) = walk.page * limit /\ readUpTo(walk) = (walk.page - 1) * limit
  BY <1>6, <1>7 DEF readUpTo
<1>9. ASSUME NEW n \in w.steady \ w.got, Cardinality(ahead(n)) < readUpTo(w) PROVE n \in Passed
  <2>1. n \in Listed /\ n \notin tied(key) /\ n \in PageRow
    BY <1>5, <1>6, <1>9 DEF ListingIInv, Listed, ReaderState
  <2>2. PICK i : i = Cardinality(ahead(n)) + 1
    OBVIOUS
  <2>3. i \in DOMAIN s /\ s[i] = n
    BY <2>1, <2>2, PlaceInAnswer
  <2>4. i \notin ((walk.page - 1) * limit + 1)..(walk.page * limit)
    BY <1>2, <1>6, <1>9, <2>3 DEF pageOf
  <2>5. Cardinality(ahead(n)) \in Nat
    BY <2>1, RowsAhead
  <2>6. walk.page * limit \in Nat /\ (walk.page - 1) * limit \in Nat
    BY <1>5, ReaderPlace
  <2>7. PICK a, b : a = (walk.page - 1) * limit /\ b = walk.page * limit
    OBVIOUS
  <2>8. Cardinality(ahead(n)) < a
    BY <1>8, <1>9, <2>2, <2>4, <2>5, <2>6, <2>7
  <2> QED
    BY <1>6, <1>8, <1>9, <2>7, <2>8 DEF Passed
<1> QED
  BY <1>6, <1>7, <1>9, ReaderGoesOn

\* What the last page leaves out was passed.
LEMMA LastPage ==
  ASSUME ListingIInv, walk.page >= totalPages
  PROVE  Cardinality(Listed) <= walk.page * limit
<1>1. PICK C : C = Cardinality(Listed)
  OBVIOUS
<1>2. PICK p : p = walk.page
  OBVIOUS
<1>3. C \in Nat /\ p \in Nat \ {0} /\ limit \in Nat \ {0}
  <2>1. Listed \in SUBSET PageRow
    BY DEF Listed
  <2> QED
    BY <1>1, <1>2, <2>1, RowsFinite, ListingAssumption DEF ListingIInv, ListingTypeOK, ReaderState
<1>4. PICK q : q = (C + limit - 1) \div limit
  OBVIOUS
<1>5. C + limit - 1 \in Int
  BY <1>3
<1>6. q \in Int /\ C + limit - 1 < limit * q + limit
  BY <1>3, <1>4, <1>5, DivFacts
<1>7. q <= p
  <2>1. totalPages = IF q = 0 THEN 1 ELSE q
    BY <1>1, <1>4 DEF totalPages
  <2> QED
    BY <1>2, <1>3, <1>6, <2>1
<1>8. q * limit \in Int /\ q * limit <= p * limit
  BY <1>3, <1>6, <1>7, TimesKeeps
<1>9. limit * q = q * limit
  BY <1>3, <1>6
<1>10. p * limit \in Int
  BY <1>3
<1>11. PICK a, b : a = q * limit /\ b = p * limit
  OBVIOUS
<1>12. C <= b
  BY <1>3, <1>6, <1>8, <1>9, <1>10, <1>11
<1> QED
  BY <1>1, <1>2, <1>11, <1>12

LEMMA ReadCountStep ==
  ASSUME ListingIInv, ReadCount
  PROVE  ListingIInv'
<1>1. walk \in ReaderState /\ walk.pc = "count" /\ UNCHANGED <<kind, filter, key, statusGroup>>
  BY DEF ReadCount, ListingIInv, ListingTypeOK
<1>2. CASE walk.page >= totalPages
  <2>1. PICK w : w = [walk EXCEPT !.pc = "done"]
    OBVIOUS
  <2>2. /\ w \in ReaderState /\ w.pc = "done" /\ w.got = walk.got /\ w.page = walk.page
        /\ w.steady = walk.steady /\ w.departures = walk.departures /\ walk' = w
    BY <1>1, <1>2, <2>1 DEF ReaderState, ReadCount
  <2>3. walk.steady \ walk.got \subseteq Passed
    <3> SUFFICES ASSUME NEW n \in walk.steady \ walk.got PROVE n \in Passed
      OBVIOUS
    <3>1. n \in Listed /\ n \in PageRow /\ key[n] \in Nat
      BY <1>1 DEF ListingIInv, ListingTypeOK, Listed, ReaderState
    <3>2. ahead(n) \subseteq Listed \ {n}
      BY <3>1 DEF ahead
    <3>3. Cardinality(ahead(n)) <= Cardinality(Listed \ {n}) /\ Cardinality(Listed \ {n}) = Cardinality(Listed) - 1
      <4>1. Listed \in SUBSET PageRow /\ Listed \ {n} \in SUBSET PageRow
        BY DEF Listed
      <4>2. IsFiniteSet(Listed)
        BY <4>1, RowsFinite
      <4> QED
        BY <3>1, <3>2, <4>1, <4>2, FewerRows, FS_RemoveElement
    <3>4. Cardinality(ahead(n)) \in Nat /\ Cardinality(Listed) \in Nat
      BY <3>1, RowsAhead
    <3>5. walk.page * limit \in Nat /\ Cardinality(Listed) <= walk.page * limit
      BY <1>1, <1>2, LastPage, ReaderPlace
    <3>6. PICK a : a = walk.page * limit
      OBVIOUS
    <3>7. Cardinality(ahead(n)) < a
      BY <3>3, <3>4, <3>5, <3>6
    <3> QED
      BY <1>1, <3>6, <3>7 DEF Passed, readUpTo
  <2>4. Passed \in SUBSET PageRow
    BY <1>1 DEF Passed, ReaderState
  <2>5. /\ Cardinality(walk.steady \ walk.got) <= Cardinality(Passed) /\ Cardinality(Passed) \in Nat
        /\ Cardinality(walk.steady \ walk.got) \in Nat /\ IsFiniteSet(walk.steady \ walk.got)
    BY <2>3, <2>4, FewerRows, RowsFinite
  <2>6. Cardinality(Passed) <= walk.departures /\ walk.departures \in Nat
    BY <1>1 DEF ListingIInv, ReaderState
  <2>7. Cardinality(walk.steady \ walk.got) <= walk.departures
    BY <2>5, <2>6
  <2>8. filter = "any" /\ kind # "restaurants" => walk.steady \subseteq walk.got
    <3>1. ASSUME walk.departures = 0 PROVE walk.steady \ walk.got = {}
      <4>1. Cardinality(walk.steady \ walk.got) = 0
        BY <2>5, <2>7, <3>1
      <4> QED
        BY <2>5, <4>1, FS_EmptySet
    <3> QED
      BY <3>1 DEF ListingIInv
  <2>9. ListingComplete'
    BY <1>1, <2>2, <2>7, <2>8 DEF ListingComplete
  <2> QED
    BY <1>1, <2>2, <2>9 DEF ListingIInv, ListingTypeOK, inListing, tied
<1>3. CASE ~(walk.page >= totalPages)
  <2>1. PICK w : w = [walk EXCEPT !.pc = "items", !.page = @ + 1]
    OBVIOUS
  <2>2. /\ w.pc = "items" /\ w.got = walk.got /\ w.page = walk.page + 1
        /\ w.steady = walk.steady /\ w.departures = walk.departures /\ walk' = w
    BY <1>1, <1>3, <2>1 DEF ReaderState, ReadCount
  <2>3. w \in ReaderState
    <3>1. walk.page + 1 \in Nat \ {0}
      BY <1>1 DEF ReaderState
    <3> QED
      BY <1>1, <2>1, <3>1 DEF ReaderState
  <2>4. readUpTo(w) = readUpTo(walk)
    <3>1. w.page - 1 = walk.page
      BY <1>1, <2>2 DEF ReaderState
    <3> QED
      BY <1>1, <2>2, <3>1 DEF readUpTo
  <2>5. {n \in w.steady \ w.got : Cardinality(ahead(n)) < readUpTo(w)} \subseteq Passed
    BY <2>2, <2>4 DEF Passed
  <2> QED
    BY <1>1, <2>2, <2>3, <2>5, ReaderGoesOn
<1> QED
  BY <1>2, <1>3

-----------------------------------------------------------------------------
(* What others do to the rows *)

\* Is the row's change one that lets others move up?
departs(n) == inListing(n) /\ ~(inListing(n)' /\ key'[n] >= key[n])

LEMMA RowChanges ==
  ASSUME ListingIInv, NEW n \in PageRow, key' \in [PageRow -> Nat], statusGroup' \in [PageRow -> Group],
         \A m \in PageRow \ {n} : key'[m] = key[m] /\ statusGroup'[m] = statusGroup[m],
         UNCHANGED <<kind, filter>>, noted(n), walk.pc \in {"items", "count"},
         filter = "any" /\ kind # "restaurants" => ~departs(n)
  PROVE  ListingIInv'
<1>1. walk \in ReaderState /\ key \in [PageRow -> Nat] /\ filter \in {"any"} \cup Group
  BY DEF ListingIInv, ListingTypeOK
<1>2. PICK S, d : S = walk.steady \ ({n} \cup tied(key')) /\ d = walk.departures + (IF departs(n) THEN 1 ELSE 0)
  OBVIOUS
<1>3. walk' = [walk EXCEPT !.changes = @ + 1, !.steady = S, !.departures = d]
  <2>1. departs(n) <=> inListing(n) /\ ~(inListing(n)' /\ key'[n] >= key[n])
    BY DEF departs
  <2> QED
    BY <1>2, <2>1 DEF noted
<1>4. S \subseteq PageRow /\ S \subseteq walk.steady
  BY <1>1, <1>2 DEF ReaderState
<1>5. d \in Nat /\ d = (IF departs(n) THEN walk.departures + 1 ELSE walk.departures) /\ walk.departures \in Nat
  BY <1>1, <1>2 DEF ReaderState
<1>6. /\ walk' \in ReaderState /\ walk'.pc = walk.pc /\ walk'.got = walk.got /\ walk'.page = walk.page
      /\ walk'.steady = S /\ walk'.departures = d
  <2>1. PICK c : c = walk.changes + 1
    OBVIOUS
  <2>2. c \in Nat
    BY <1>1, <2>1 DEF ReaderState
  <2>3. walk' = [walk EXCEPT !.changes = c, !.steady = S, !.departures = d]
    BY <1>3, <2>1
  <2> QED
    BY <1>1, <1>4, <1>5, <2>2, <2>3 DEF ReaderState
<1>7. ListingTypeOK'
  BY <1>1, <1>6 DEF ListingTypeOK
<1>8. ASSUME NEW m \in S
      PROVE  m # n /\ inListing(m)' /\ inListing(m) /\ m \notin tied(key') /\ m \in PageRow /\ key'[m] = key[m]
  <2>1. m # n /\ m \notin tied(key') /\ m \in PageRow /\ inListing(m)
    BY <1>2, <1>4 DEF ListingIInv
  <2> QED
    BY <2>1 DEF inListing
<1>9. ListingComplete'
  BY <1>6 DEF ListingComplete
<1>10. filter = "any" /\ kind # "restaurants" => d = 0
  BY <1>5 DEF ListingIInv
<1>11. /\ Passed \in SUBSET PageRow /\ Passed' \in SUBSET PageRow
       /\ IsFiniteSet(Passed) /\ Cardinality(Passed) \in Nat /\ Cardinality(Passed') \in Nat
  <2>1. Passed \in SUBSET PageRow /\ Passed' \in SUBSET PageRow
    BY <1>1, <1>4, <1>6 DEF Passed, ReaderState
  <2> QED
    BY <2>1, RowsFinite
<1>12. PICK R : R = readUpTo(walk)
  OBVIOUS
<1>13. R \in Nat /\ readUpTo(walk') = R
  BY <1>1, <1>6, <1>12, ReaderPlace DEF readUpTo
<1>14. Cardinality(Passed) <= walk.departures
  BY DEF ListingIInv
<1>15. \A m \in PageRow \ {n} : inListing(m)' <=> inListing(m)
  BY DEF inListing
<1>16. ASSUME NEW m \in S
       PROVE  /\ ahead(m) \in SUBSET PageRow /\ ahead(m)' \in SUBSET PageRow
              /\ IsFiniteSet(ahead(m)) /\ Cardinality(ahead(m)) \in Nat /\ Cardinality(ahead(m)') \in Nat
              /\ ahead(m) \ {n} \subseteq ahead(m)'
              /\ ~departs(n) => ahead(m) \subseteq ahead(m)'
  <2>1. ahead(m) \in SUBSET PageRow /\ ahead(m)' \in SUBSET PageRow
    BY DEF ahead, Listed
  <2>2. ahead(m) \ {n} \subseteq ahead(m)'
    BY <1>8, <1>15 DEF ahead, Listed
  <2>3. ASSUME ~departs(n), n \in ahead(m) PROVE n \in ahead(m)'
    <3>1. inListing(n) /\ key[n] > key[m]
      BY <2>3 DEF ahead, Listed
    <3>2. inListing(n)' /\ key'[n] >= key[n]
      BY <2>3, <3>1 DEF departs
    <3>3. key'[n] > key'[m]
      BY <1>1, <1>8, <3>1, <3>2
    <3> QED
      BY <3>2, <3>3 DEF ahead, Listed
  <2> QED
    BY <2>1, <2>2, <2>3, RowsFinite
<1>17. Cardinality(Passed') <= d
  <2>1. CASE ~departs(n)
    <3>1. ASSUME NEW m \in Passed' PROVE m \in Passed
      <4>1. m \in S \ walk.got /\ Cardinality(ahead(m)') < R
        BY <1>6, <1>13 DEF Passed
      <4>2. Cardinality(ahead(m)) <= Cardinality(ahead(m)')
        BY <1>16, <2>1, <4>1, FewerRows
      <4>3. Cardinality(ahead(m)) < R
        BY <1>13, <1>16, <4>1, <4>2
      <4> QED
        BY <1>4, <1>12, <4>1, <4>3 DEF Passed
    <3>2. Cardinality(Passed') <= Cardinality(Passed)
      BY <1>11, <3>1, FewerRows
    <3> QED
      BY <1>5, <1>11, <1>14, <2>1, <3>2
  <2>2. CASE departs(n)
    <3> DEFINE next == {m \in S \ walk.got : Cardinality(ahead(m)) = R}
    <3>1. ASSUME NEW m \in Passed' PROVE m \in Passed \cup next
      <4>1. m \in S \ walk.got /\ Cardinality(ahead(m)') < R
        BY <1>6, <1>13 DEF Passed
      <4>2. Cardinality(ahead(m) \ {n}) <= Cardinality(ahead(m)')
        BY <1>16, <4>1, FewerRows
      <4>3. Cardinality(ahead(m) \ {n}) >= Cardinality(ahead(m)) - 1 /\ Cardinality(ahead(m) \ {n}) \in Nat
        <5>1. IsFiniteSet(ahead(m)) /\ Cardinality(ahead(m)) \in Nat
          BY <1>16, <4>1
        <5>2. Cardinality(ahead(m) \ {n}) =
                IF n \in ahead(m) THEN Cardinality(ahead(m)) - 1 ELSE Cardinality(ahead(m))
          BY <5>1, FS_RemoveElement
        <5>3. n \in ahead(m) => Cardinality(ahead(m)) # 0
          BY <5>1, FS_EmptySet
        <5> QED
          BY <5>1, <5>2, <5>3
      <4>4. Cardinality(ahead(m)) \in Nat /\ Cardinality(ahead(m)') \in Nat
        BY <1>16, <4>1
      <4>5. Cardinality(ahead(m)) <= R
        BY <1>13, <4>1, <4>2, <4>3, <4>4
      <4>6. CASE Cardinality(ahead(m)) = R
        BY <4>1, <4>6
      <4>7. CASE Cardinality(ahead(m)) < R
        BY <1>4, <1>12, <4>1, <4>7 DEF Passed
      <4> QED
        BY <1>13, <4>4, <4>5, <4>6, <4>7
    <3>2. \A m, k \in next : m = k
      BY <1>4, RanksApart
    <3>3. PICK x : next \subseteq {x}
      BY <3>2
    <3>4. Passed' \subseteq Passed \cup {x}
      BY <3>1, <3>3
    <3>5. IsFiniteSet(Passed \cup {x}) /\ Cardinality(Passed \cup {x}) <= Cardinality(Passed) + 1
          /\ Cardinality(Passed \cup {x}) \in Nat
      <4>1. IsFiniteSet(Passed \cup {x})
        BY <1>11, FS_AddElement
      <4>2. Cardinality(Passed \cup {x}) = IF x \in Passed THEN Cardinality(Passed) ELSE Cardinality(Passed) + 1
        BY <1>11, FS_AddElement
      <4> QED
        BY <1>11, <4>1, <4>2
    <3>6. Cardinality(Passed') <= Cardinality(Passed \cup {x})
      BY <3>4, <3>5, FS_Subset
    <3> QED
      BY <1>5, <1>11, <1>14, <2>2, <3>5, <3>6
  <2> QED
    BY <2>1, <2>2
<1>18. \A m \in walk'.steady : inListing(m)' /\ m \notin tied(key')
  BY <1>6, <1>8
<1>19. walk'.pc # "done" => Cardinality(Passed') <= walk'.departures
  BY <1>6, <1>17
<1>20. filter' = "any" /\ kind' # "restaurants" => walk'.departures = 0
  BY <1>6, <1>10
<1> QED
  BY <1>7, <1>9, <1>18, <1>19, <1>20 DEF ListingIInv

\* The newest key is there, and the keys of all rows are at most it.
LEMMA NewestIsLast ==
  ASSUME ListingIInv
  PROVE  newest \in Nat /\ \A n \in PageRow : key[n] <= newest
<1> DEFINE K == {0} \cup {key[n] : n \in PageRow}
<1>1. \A n \in PageRow : key[n] \in Nat
  BY DEF ListingIInv, ListingTypeOK
<1>2. K \in SUBSET Nat /\ K # {}
  BY <1>1
<1>3. IsFiniteSet(K)
  <2>1. IsFiniteSet({key[n] : n \in PageRow})
    <3>1. key \in Surjection(PageRow, {key[n] : n \in PageRow})
      BY DEF ListingIInv, ListingTypeOK, Surjection
    <3> QED
      BY <3>1, ListingAssumption, FS_Surjection
  <2>2. IsFiniteSet({0})
    BY FS_Singleton
  <2> QED
    BY <2>1, <2>2, FS_Union
<1>4. \E m \in K : \A k \in K : k <= m
  <2> HIDE DEF K
  <2> QED
    BY <1>2, <1>3, GreatestExists
<1>5. \E m \in K : \A k \in K : m >= k
  BY <1>2, <1>4
<1>6. newest \in K /\ \A k \in K : newest >= k
  <2>1. newest = Max(K)
    BY DEF newest
  <2> HIDE DEF K
  <2> QED
    BY <1>5, <2>1 DEF Max
<1> QED
  BY <1>1, <1>2, <1>6

LEMMA OthersStep ==
  ASSUME ListingIInv, walk.pc \in {"items", "count"},
         NEW n \in PageRow, Insert(n) \/ Move(n) \/ Touch(n)
  PROVE  ListingIInv'
<1>1. /\ key \in [PageRow -> Nat] /\ statusGroup \in [PageRow -> Group] /\ filter \in {"any"} \cup Group
  BY DEF ListingIInv, ListingTypeOK
<1>2. newest \in Nat /\ key[n] <= newest /\ newest + 1 \in Nat /\ newest + 1 >= key[n] /\ newest + 1 > 0
  BY <1>1, NewestIsLast
<1>3. Label \subseteq Nat
  BY DEF Label
<1>4. /\ noted(n) /\ UNCHANGED <<kind, filter>>
  BY DEF Insert, Move, Touch
<1>5. CASE Insert(n)
  <2>1. PICK k \in Nat : key' = [key EXCEPT ![n] = k]
    <3>1. CASE kind = "restaurants"
      BY <1>3, <1>5, <3>1 DEF Insert
    <3>2. CASE kind # "restaurants"
      BY <1>2, <1>5, <3>2 DEF Insert
    <3> QED
      BY <3>1, <3>2
  <2>2. statusGroup' = statusGroup /\ key[n] = 0
    BY <1>5 DEF Insert
  <2>3. ~departs(n)
    BY <2>2 DEF departs, inListing
  <2> QED
    BY <1>1, <1>4, <2>1, <2>2, <2>3, RowChanges
<1>6. CASE Move(n)
  <2>1. PICK g \in Group : statusGroup' = [statusGroup EXCEPT ![n] = g]
    BY <1>6 DEF Move
  <2>2. PICK k \in Nat : key' = [key EXCEPT ![n] = k] /\ k >= key[n] /\ k > 0
    <3>1. key[n] \in Nat /\ key[n] > 0
      BY <1>1, <1>6 DEF Move
    <3>2. CASE kind = "history"
      BY <1>2, <1>6, <3>2 DEF Move
    <3>3. CASE kind # "history"
      <4>1. PICK k : k = key[n]
        OBVIOUS
      <4>2. key' = [key EXCEPT ![n] = k]
        BY <1>1, <1>6, <3>3, <4>1 DEF Move
      <4>3. k \in Nat /\ k >= key[n] /\ k > 0
        BY <3>1, <4>1
      <4> QED
        BY <4>2, <4>3
    <3> QED
      BY <3>2, <3>3
  <2>3. filter = "any" => ~departs(n)
    BY <1>1, <1>4, <2>2 DEF departs, inListing
  <2> QED
    BY <1>1, <1>4, <2>1, <2>2, <2>3, RowChanges
<1>7. CASE Touch(n)
  <2>1. statusGroup' = statusGroup
    BY <1>7 DEF Touch
  <2>2. PICK k \in Nat : key' = [key EXCEPT ![n] = k] /\ (kind # "restaurants" => k >= key[n] /\ k > 0)
    <3>1. CASE kind = "history" /\ key' = [key EXCEPT ![n] = newest + 1]
      BY <1>2, <3>1
    <3>2. CASE kind = "restaurants"
      BY <1>3, <1>7, <3>2 DEF Touch
    <3> QED
      BY <1>7, <3>1, <3>2 DEF Touch
  <2>3. filter = "any" /\ kind # "restaurants" => ~departs(n)
    BY <1>1, <1>4, <2>2 DEF departs, inListing
  <2> QED
    BY <1>1, <1>4, <2>1, <2>2, <2>3, RowChanges
<1> QED
  BY <1>5, <1>6, <1>7

-----------------------------------------------------------------------------
\* A reader who walks the pages to the last one misses no row that stayed as it
\* was, but one for each row that left the listing or moved behind others; a
\* listing of the inbox, the ledger or of all orders loses none, however many
\* rows arrive, whatever the size of a page (skip and take of every repository).
THEOREM WalkIsComplete == ListingSpec => []ListingComplete
<1>1. ListingIInv /\ [ListingNext]_listingVars => ListingIInv'
  <2> SUFFICES ASSUME ListingIInv, [ListingNext]_listingVars PROVE ListingIInv'
    OBVIOUS
  <2>1. CASE UNCHANGED listingVars
    BY <2>1 DEF listingVars, ListingIInv, ListingTypeOK, ListingComplete, Passed, ahead, Listed, inListing, tied
  <2> QED
    BY <2>1, BeginStep, ReadItemsStep, ReadCountStep, OthersStep DEF ListingNext
<1>2. ListingIInv => ListingComplete
  BY DEF ListingIInv
<1> QED
  BY <1>1, <1>2, ListingStart, PTL DEF ListingSpec
=============================================================================
