------------------------------ MODULE Categories ------------------------------
(***************************************************************************)
(* The categories of one restaurant's menu and the items in them           *)
(* (menu-service): an owner's staff reorder, delete and fill categories at *)
(* once.  Reordering is one transaction of one UPDATE per category, which  *)
(* holds each row until it commits and is rolled back in a deadlock.       *)
(* Deleting counts, detaches and deletes in three statements, and filling  *)
(* checks the category in one and writes the item in another.              *)
(***************************************************************************)
EXTENDS Naturals, Sequences, SequencesExt, FiniteSets

CONSTANTS
  Category,  \* categories the restaurant may have
  Dish,      \* items
  Staff,     \* slots for requests at work
  NoCategory \* categoryId is null

ASSUME CategoriesAssumption == NoCategory \notin Category /\ IsFiniteSet(Category)

VARIABLES
  listed,   \* the categories there are, with their displayOrder
  dish,     \* each item: its category, and whether it is archived
  lastList, \* the list of the last reorder that committed, <<>> if changed since
  chore,    \* what each slot is doing
  strayed   \* items put into a category after its deletion had counted its items

categoryVars == <<listed, dish, lastList, chore, strayed>>

Place == 0..(Cardinality(Category) - 1)
DishState == [category : Category \cup {NoCategory}, archived : BOOLEAN]
ChoreIdle == [pc |-> "idle", list |-> <<>>, done |-> {}, category |-> NoCategory, dish |-> NoCategory]

CategoriesTypeOK ==
  /\ DOMAIN listed \subseteq Category /\ \A c \in DOMAIN listed : listed[c] \in Place
  /\ dish \in [Dish -> DishState]
  /\ lastList \in Seq(Category)
  /\ strayed \subseteq Dish
  /\ \A s \in Staff :
       /\ chore[s].pc \in {"idle", "reorder", "count", "detach", "delete", "fill"}
       /\ chore[s].list \in Seq(Category) /\ chore[s].done \subseteq Category \X Place \* with the place to return to
       /\ chore[s].category \in Category \cup {NoCategory} /\ chore[s].dish \in Dish \cup {NoCategory}

CategoriesInit ==
  /\ listed = [c \in Category |-> 0]
  /\ dish = [d \in Dish |-> [category |-> NoCategory, archived |-> FALSE]]
  /\ lastList = <<>>
  /\ chore = [s \in Staff |-> ChoreIdle]
  /\ strayed = {}

choreDone(s) == chore' = [chore EXCEPT ![s] = ChoreIdle]
starts(s, record) == chore[s].pc = "idle" /\ chore' = [chore EXCEPT ![s] = record]
liveIn(c) == {d \in Dish : dish[d].category = c /\ ~dish[d].archived}

-----------------------------------------------------------------------------
(* createCategory, updateCategory *)
CreateCategory(c) ==
  /\ c \notin DOMAIN listed \* ids are never used again
  /\ \A s \in Staff : c # chore[s].category /\ c \notin ToSet(chore[s].list)
  /\ \A d \in Dish : dish[d].category # c
  /\ listed' = [x \in DOMAIN listed \cup {c} |-> IF x = c THEN 0 ELSE listed[x]]
  /\ lastList' = <<>>
  /\ UNCHANGED <<dish, chore, strayed>>

\* The rows a transaction holds until it ends.
heldBy(s) == {p[1] : p \in chore[s].done}
held_NoTransaction(c, s) == FALSE
held(c, s) == \E t \in Staff \ {s} : c \in heldBy(t)

UpdateCategory(c, place) ==
  /\ c \in DOMAIN listed /\ \A s \in Staff : c \notin heldBy(s)
  /\ listed' = [listed EXCEPT ![c] = place]
  /\ lastList' = <<>>
  /\ UNCHANGED <<dish, chore, strayed>>

-----------------------------------------------------------------------------
(* reorderCategories: every category exactly once, then the transaction *)
ReorderCategories(s, list) ==
  /\ ToSet(list) = DOMAIN listed
  /\ starts(s, [ChoreIdle EXCEPT !.pc = "reorder", !.list = list])
  /\ UNCHANGED <<listed, dish, lastList, strayed>>

nextOf(s) == chore[s].list[Cardinality(chore[s].done) + 1]

placeBefore(c) == IF c \in DOMAIN listed THEN listed[c] ELSE 0

\* A row deleted meanwhile is updated to no effect.
UpdateRow(s) ==
  LET c == nextOf(s) IN
  /\ chore[s].pc = "reorder" /\ Cardinality(chore[s].done) < Len(chore[s].list)
  /\ ~held(c, s)
  /\ chore' = [chore EXCEPT ![s].done = @ \cup {<<c, placeBefore(c)>>}]
  /\ listed' = [x \in DOMAIN listed |-> IF x = c THEN Cardinality(chore[s].done) ELSE listed[x]]
  /\ UNCHANGED <<dish, lastList, strayed>>

CommitReorder(s) ==
  /\ chore[s].pc = "reorder" /\ Cardinality(chore[s].done) = Len(chore[s].list)
  /\ lastList' = IF DOMAIN listed = heldBy(s) THEN chore[s].list ELSE <<>>
  /\ choreDone(s)
  /\ UNCHANGED <<listed, dish, strayed>>

\* The process dies or the database ends a deadlock; the transaction is undone.
ChoreFails(s) ==
  /\ chore[s].pc # "idle"
  /\ listed' = [c \in DOMAIN listed |->
       IF c \in heldBy(s) THEN (CHOOSE p \in chore[s].done : p[1] = c)[2] ELSE listed[c]]
  /\ choreDone(s)
  /\ UNCHANGED <<dish, lastList, strayed>>

-----------------------------------------------------------------------------
(* deleteCategory: countLiveInCategory, detachArchivedFromCategory, delete *)
DeleteCategory(s, c) ==
  /\ c \in DOMAIN listed
  /\ starts(s, [ChoreIdle EXCEPT !.pc = "count", !.category = c])
  /\ UNCHANGED <<listed, dish, lastList, strayed>>

CountLive(s) ==
  /\ chore[s].pc = "count"
  /\ IF liveIn(chore[s].category) # {} THEN choreDone(s) ELSE chore' = [chore EXCEPT ![s].pc = "detach"]
  /\ UNCHANGED <<listed, dish, lastList, strayed>>

DetachArchived(s) ==
  /\ chore[s].pc = "detach"
  /\ dish' = [d \in Dish |-> IF dish[d].archived /\ dish[d].category = chore[s].category
                               THEN [dish[d] EXCEPT !.category = NoCategory] ELSE dish[d]]
  /\ chore' = [chore EXCEPT ![s].pc = "delete"]
  /\ UNCHANGED <<listed, lastList, strayed>>

DeleteRow(s) ==
  LET c == chore[s].category IN
  /\ chore[s].pc = "delete" /\ ~held(c, s)
  /\ listed' = [x \in DOMAIN listed \ {c} |-> listed[x]]
  /\ lastList' = IF c \in DOMAIN listed THEN <<>> ELSE lastList
  /\ choreDone(s)
  /\ UNCHANGED <<dish, strayed>>

-----------------------------------------------------------------------------
(* createItem and updateItem with a categoryId; archiveItem *)
FillCategory(s, d, c) ==
  /\ c \in DOMAIN listed /\ ~dish[d].archived \* assertCategoryOf, assertNotArchived
  /\ starts(s, [ChoreIdle EXCEPT !.pc = "fill", !.category = c, !.dish = d])
  /\ UNCHANGED <<listed, dish, lastList, strayed>>

counted(c) == \E s \in Staff : chore[s].pc \in {"detach", "delete"} /\ chore[s].category = c
WriteDish(s) ==
  LET d == chore[s].dish
      c == chore[s].category IN
  /\ chore[s].pc = "fill"
  /\ dish' = [dish EXCEPT ![d].category = c]
  /\ strayed' = IF c \notin DOMAIN listed \/ counted(c) THEN strayed \cup {d} ELSE strayed \ {d}
  /\ choreDone(s)
  /\ UNCHANGED <<listed, lastList>>

ArchiveDish(d) ==
  /\ dish' = [dish EXCEPT ![d].archived = TRUE]
  /\ UNCHANGED <<listed, lastList, chore, strayed>>

-----------------------------------------------------------------------------
CategoriesStep(s) ==
  \/ UpdateRow(s) \/ CommitReorder(s) \/ ChoreFails(s)
  \/ CountLive(s) \/ DetachArchived(s) \/ DeleteRow(s) \/ WriteDish(s)
  \/ \E list \in SetToSeqs(DOMAIN listed) : ReorderCategories(s, list)
  \/ \E c \in Category : DeleteCategory(s, c) \/ \E d \in Dish : FillCategory(s, d, c)

CategoriesNext ==
  \/ \E s \in Staff : CategoriesStep(s)
  \/ \E c \in Category : CreateCategory(c) \/ \E place \in Place : UpdateCategory(c, place)
  \/ \E d \in Dish : ArchiveDish(d)

CategoriesSpec == CategoriesInit /\ [][CategoriesNext]_categoryVars

-----------------------------------------------------------------------------
(* What menu-service promises *)

\* The order shown is the one somebody sent, whole: crossing reorders do not mix
\* (CategoriesRepository.reorder).
OrderIsWhole ==
  lastList # <<>> /\ (\A s \in Staff : chore[s].done = {}) => \A i \in DOMAIN lastList : listed[lastList[i]] = i - 1

\* An item on the menu is in a category that exists, unless the two were
\* changed between one another's check and write (deleteCategory,
\* assertCategoryOf).
NoOrphan ==
  \A d \in Dish : dish[d].category \in DOMAIN listed \cup {NoCategory} \/ d \in strayed

\* Both at once, with reorders, deletions and fillings crossing, failing and in
\* each other's locks (MenuService, CategoriesRepository).
CategoriesKept == CategoriesTypeOK /\ OrderIsWhole /\ NoOrphan
=============================================================================
