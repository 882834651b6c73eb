------------------------------- MODULE Catalog -------------------------------
(***************************************************************************)
(* A restaurant (restaurant-service) and an item of its menu               *)
(* (menu-service) behind the shared read-through cache: three documents    *)
(* kept in Redis for a while, read by everyone and dropped by whoever      *)
(* changes a row.                                                          *)
(*                                                                         *)
(* Every request first reads its document through the cache (getOrSet:     *)
(* get, fetch, set, one step each), is judged on that copy, writes the     *)
(* row, and drops the documents one by one.  It may die after any step.    *)
(* menu-service's ownership question is a read of the restaurant.          *)
(***************************************************************************)
EXTENDS Naturals, Sequences, SequencesExt

CONSTANTS
  Client,  \* slots for requests at work
  Miss,    \* no copy
  NoItem   \* the menu without the item

VARIABLES
  restaurant, \* its status
  item,       \* the item's row
  cached,     \* the copy of each document, or Miss
  overtaken,  \* copies that were old when stored, or whose writer died
  call        \* the request in each slot

catalogVars == <<restaurant, item, cached, overtaken, call>>

Document == {"restaurant", "menu", "menuitem"}
RestaurantStatus == {"OPEN", "CLOSED", "BUSY", "SUSPENDED"}
MenuItem == [price : {"listed", "changed"}, available : BOOLEAN, archived : BOOLEAN]
Edit == {"updateItem", "offer", "withdraw", "archiveItem"}

\* What the rows say of a document; the menu lists no archived item.
truth(d) ==
  CASE d = "restaurant" -> restaurant
    [] d = "menuitem" -> item
    [] d = "menu" -> IF item.archived THEN NoItem ELSE item

Copy(d) ==
  CASE d = "restaurant" -> RestaurantStatus
    [] d = "menuitem" -> MenuItem
    [] d = "menu" -> MenuItem \cup {NoItem}

CallIdle == [pc |-> "idle", doc |-> "menu", want |-> "read", admin |-> FALSE,
             copy |-> Miss, drops |-> <<>>]

CatalogTypeOK ==
  /\ restaurant \in RestaurantStatus /\ item \in MenuItem
  /\ overtaken \subseteq Document
  /\ \A d \in Document : cached[d] \in {Miss} \cup Copy(d)
  /\ \A c \in Client :
       /\ call[c].pc \in {"idle", "get", "fetch", "set", "write", "drop"}
       /\ call[c].doc \in Document /\ call[c].admin \in BOOLEAN
       /\ call[c].want \in {"read"} \cup RestaurantStatus \cup Edit
       /\ call[c].copy \in {Miss} \cup Copy(call[c].doc)
       /\ call[c].drops \in Seq(Document)
       /\ call[c].drops # <<>> <=> call[c].pc = "drop"

CatalogInit ==
  /\ restaurant = "OPEN"
  /\ item = [price |-> "listed", available |-> TRUE, archived |-> FALSE]
  /\ cached = [d \in Document |-> Miss]
  /\ overtaken = {}
  /\ call = [c \in Client |-> CallIdle]

hangUp(c) == call' = [call EXCEPT ![c] = CallIdle]

-----------------------------------------------------------------------------
(* What is asked *)
calls(c, doc, want, admin) ==
  /\ call[c].pc = "idle"
  /\ call' = [call EXCEPT ![c] = [CallIdle EXCEPT !.pc = "get", !.doc = doc,
                                                  !.want = want, !.admin = admin]]
  /\ UNCHANGED <<restaurant, item, cached, overtaken>>

Read(c, doc) == calls(c, doc, "read", FALSE)
UpdateRestaurantStatus(c, status, admin) == calls(c, "restaurant", status, admin)
EditItem(c, edit) == calls(c, "menuitem", edit, FALSE)

-----------------------------------------------------------------------------
(* Judged on the copy that was read *)
drops_OnlyMenu(want) ==
  IF want \in RestaurantStatus THEN <<"restaurant">> ELSE <<"menu">>

drops(want) ==
  IF want \in RestaurantStatus THEN <<"restaurant">> ELSE <<"menu", "menuitem">>

refused(want, admin, copy) ==
  \/ want = "SUSPENDED" /\ ~admin
  \/ want \in Edit \ {"archiveItem"} /\ copy.archived

judged(c, copy) ==
  LET want == call[c].want IN
  CASE want = "read" \/ refused(want, call[c].admin, copy) -> CallIdle
    [] want = "archiveItem" /\ copy.archived ->
         [call[c] EXCEPT !.pc = "drop", !.copy = Miss, !.drops = drops(want)]
    [] OTHER -> [call[c] EXCEPT !.pc = "write", !.copy = Miss]

-----------------------------------------------------------------------------
(* CacheService.getOrSet *)
Get(c) ==
  /\ call[c].pc = "get"
  /\ LET copy == cached[call[c].doc] IN
     call' = [call EXCEPT ![c] = IF copy = Miss THEN [@ EXCEPT !.pc = "fetch"] ELSE judged(c, copy)]
  /\ UNCHANGED <<restaurant, item, cached, overtaken>>

FetchRow(c) ==
  /\ call[c].pc = "fetch"
  /\ call' = [call EXCEPT ![c].pc = "set", ![c].copy = truth(call[c].doc)]
  /\ UNCHANGED <<restaurant, item, cached, overtaken>>

Set(c) ==
  LET d == call[c].doc
      copy == call[c].copy
  IN
  /\ call[c].pc = "set"
  /\ cached' = [cached EXCEPT ![d] = copy]
  /\ overtaken' = IF copy = truth(d) THEN overtaken \ {d} ELSE overtaken \cup {d}
  /\ call' = [call EXCEPT ![c] = judged(c, copy)]
  /\ UNCHANGED <<restaurant, item>>

Expire(d) ==
  /\ cached[d] # Miss
  /\ cached' = [cached EXCEPT ![d] = Miss]
  /\ overtaken' = overtaken \ {d}
  /\ UNCHANGED <<restaurant, item, call>>

-----------------------------------------------------------------------------
(* The rows and the drops *)
wrote(c) ==
  /\ call[c].pc = "write"
  /\ call' = [call EXCEPT ![c].pc = "drop", ![c].drops = drops(call[c].want)]
  /\ UNCHANGED <<cached, overtaken>>

WriteStatus_Blind(c) ==
  /\ call[c].doc = "restaurant"
  /\ wrote(c)
  /\ restaurant' = call[c].want
  /\ UNCHANGED item

\* An owner's write applies unless the row is suspended now.
WriteStatus(c) ==
  /\ call[c].doc = "restaurant"
  /\ wrote(c)
  /\ restaurant' = IF ~call[c].admin /\ restaurant = "SUSPENDED" THEN restaurant ELSE call[c].want
  /\ UNCHANGED item

\* Only archiving looks at the row again.
WriteItem(c) ==
  /\ call[c].doc = "menuitem"
  /\ wrote(c)
  /\ item' = CASE call[c].want = "updateItem" -> [item EXCEPT !.price = "changed"]
               [] call[c].want = "offer" -> [item EXCEPT !.available = TRUE]
               [] call[c].want = "withdraw" -> [item EXCEPT !.available = FALSE]
               [] call[c].want = "archiveItem" ->
                    IF item.archived THEN item
                    ELSE [item EXCEPT !.archived = TRUE, !.available = FALSE]
  /\ UNCHANGED restaurant

Drop(c) ==
  LET d == Head(call[c].drops) IN
  /\ call[c].pc = "drop"
  /\ cached' = [cached EXCEPT ![d] = Miss]
  /\ overtaken' = overtaken \ {d}
  /\ IF Len(call[c].drops) = 1 THEN hangUp(c) ELSE call' = [call EXCEPT ![c].drops = Tail(@)]
  /\ UNCHANGED <<restaurant, item>>

\* The process dies, or Redis or the database fails.
Abandon(c) ==
  /\ call[c].pc # "idle"
  /\ overtaken' = overtaken \cup {d \in ToSet(call[c].drops) : cached[d] # Miss}
  /\ hangUp(c)
  /\ UNCHANGED <<restaurant, item, cached>>

-----------------------------------------------------------------------------
CatalogNext ==
  \/ \E c \in Client :
       \/ \E d \in Document : Read(c, d)
       \/ \E s \in RestaurantStatus, admin \in BOOLEAN : UpdateRestaurantStatus(c, s, admin)
       \/ \E e \in Edit : EditItem(c, e)
       \/ Get(c) \/ FetchRow(c) \/ Set(c)
       \/ WriteStatus(c) \/ WriteItem(c) \/ Drop(c) \/ Abandon(c)
  \/ \E d \in Document : Expire(d)

CatalogSpec == CatalogInit /\ [][CatalogNext]_catalogVars

-----------------------------------------------------------------------------
(* What it promises *)

\* A copy differs from the rows only while the request that changed them has yet
\* to drop it, or when it was stored by a reader the change overtook or left by
\* a writer that died: every write drops every document that shows the row.
CacheTellsTruth ==
  \A d \in Document \ overtaken :
    \/ cached[d] \in {Miss, truth(d)}
    \/ \E c \in Client : d \in ToSet(call[c].drops)

\* Only an administrator ends a suspension, although an owner's request may have
\* been judged on a copy from before it (updateStatusUnlessSuspended).
SuspensionHolds ==
  [][restaurant = "SUSPENDED" /\ restaurant' # restaurant =>
       \E c \in Client : call[c].admin /\ call[c].pc = "write" /\ call'[c].pc = "drop"]_catalogVars

\* That, of every document the two services cache, whoever reads, writes, expires
\* or dies (CacheService.getOrSet, RestaurantsService, MenuService).
CatalogInv == CatalogTypeOK /\ CacheTellsTruth

\* docs/services/menu-service.md: an archived item is not available and cannot be
\* toggled (archiveItem, updateAvailability).
ArchivedNotOffered == item.archived => ~item.available
=============================================================================
