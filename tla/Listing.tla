------------------------------- MODULE Listing -------------------------------
(***************************************************************************)
(* Walking a listing page by page while others change it: a customer's or  *)
(* a restaurant's orders, a driver's history, notifications, ledger        *)
(* entries, restaurants.  Every listing skips (page - 1) * limit rows of   *)
(* one query and counts them with a second, outside any transaction.       *)
(***************************************************************************)
EXTENDS Lifecycle, Integers, Sequences, FiniteSets, SequencesExt

CONSTANTS
  PageRow,        \* rows
  limit,          \* rows to a page
  MaxKey,         \* bound: values a listing sorts by
  MaxChanges      \* bound: changes during a walk

ASSUME ListingAssumption ==
  PageRow \subseteq Nat /\ IsFiniteSet(PageRow) /\ limit \in Nat \ {0} /\ MaxKey \in Nat /\ MaxChanges \in Nat

ORDER_LIST_FILTER_STATUSES ==
  [active |-> {"CREATED", "PAYMENT_PENDING", "CONFIRMED", "PREPARING", "READY_FOR_PICKUP",
               "DRIVER_ASSIGNED", "PICKED_UP"},
   completed |-> {"DELIVERED"}, cancelled |-> {"CANCELLED", "FAILED"}]

HISTORY_FILTER_STATUSES ==
  [active |-> {"DRIVER_ASSIGNED", "PICKED_UP", "IN_TRANSIT"},
   completed |-> {"DELIVERED"}, cancelled |-> {"CANCELLED"}]

Group == {"active", "completed", "cancelled"}

\* How the rows of each kind move between the groups of its filter; the inbox and the
\* ledger have none.
movesOf(statuses, transitions) ==
  {m \in Group \X Group :
     m[1] # m[2] /\ \E from \in statuses[m[1]], to \in statuses[m[2]] :
                       isTransitionAllowed(transitions, from, to)}
groupMoves ==
  [orders |-> movesOf(ORDER_LIST_FILTER_STATUSES, ORDER_TRANSITIONS),
   history |-> movesOf(HISTORY_FILTER_STATUSES, DELIVERY_TRANSITIONS),
   inbox |-> {},
   restaurants |-> {m \in Group \X Group : m[1] # m[2]}] \* any status of a restaurant, by any

Kind == DOMAIN groupMoves

VARIABLES
  kind, filter,  \* the listing, and the group it is asked for or "any"
  key,           \* what each row is sorted by; 0 for a row not there
  statusGroup,         \* the group of each row
  walk           \* the reader

listingVars == <<kind, filter, key, statusGroup, walk>>

inListing(n) == key[n] > 0 /\ filter \in {"any", statusGroup[n]}
Listed == {n \in PageRow : inListing(n)}
newest == Max({0} \cup {key[n] : n \in PageRow})

Label == 1..Cardinality(PageRow)

\* Names repeat; the moments of the other listings do not.
tied(keys) == {n \in PageRow : \E other \in PageRow \ {n} : keys[n] > 0 /\ keys[other] = keys[n]}

NoWalk == [pc |-> "idle", page |-> 1, got |-> {}, steady |-> {}, departures |-> 0, changes |-> 0]

ListingInit ==
  /\ kind \in Kind /\ filter \in IF kind = "inbox" THEN {"any"} ELSE {"any"} \cup Group
  /\ key \in [PageRow -> 0..MaxKey] /\ \A k \in 1..newest : \E n \in PageRow : key[n] = k
  /\ kind # "restaurants" => tied(key) = {}
  /\ \A m, n \in PageRow : m < n /\ key[n] > 0 => key[m] \in 1..key[n] \* as they are numbered
  /\ statusGroup \in [PageRow -> Group]
  /\ \A n \in PageRow : kind = "inbox" \/ key[n] = 0 => statusGroup[n] = "active"
  /\ walk = NoWalk

-----------------------------------------------------------------------------
(* The reader *)

Begin ==
  /\ walk.pc = "idle"
  /\ walk' = [NoWalk EXCEPT !.pc = "items", !.steady = Listed \ tied(key)]
  /\ UNCHANGED <<kind, filter, key, statusGroup>>

sorted_Unordered(rows) == SetToSeqs(rows)

\* The rows latest first, equal ones in any order.
sorted(rows) == {s \in SetToSeqs(rows) : \A n \in 1..(Len(s) - 1) : key[s[n]] >= key[s[n + 1]]}
pageOf(s, page) == {s[n] : n \in DOMAIN s \cap ((page - 1) * limit + 1)..(page * limit)}

\* A row whose details another service cannot give is returned without them.
ReadItems ==
  /\ walk.pc = "items"
  /\ \E s \in sorted(Listed) :
       walk' = [walk EXCEPT !.pc = "count", !.got = @ \cup pageOf(s, walk.page)]
  /\ UNCHANGED <<kind, filter, key, statusGroup>>

totalPages == LET pages == (Cardinality(Listed) + limit - 1) \div limit IN
              IF pages = 0 THEN 1 ELSE pages

\* The reader asks for the next page until it has the last.
ReadCount ==
  /\ walk.pc = "count"
  /\ walk' = IF walk.page >= totalPages THEN [walk EXCEPT !.pc = "done"]
                                        ELSE [walk EXCEPT !.pc = "items", !.page = @ + 1]
  /\ UNCHANGED <<kind, filter, key, statusGroup>>

-----------------------------------------------------------------------------
(* Others *)

\* The rows left as they were; how often one went, or moved behind others.
noted(n) ==
  walk' = [walk EXCEPT !.changes = @ + 1, !.steady = @ \ ({n} \cup tied(key')),
                       !.departures = @ + (IF inListing(n) /\ ~(inListing(n)' /\ key'[n] >= key[n])
                                             THEN 1 ELSE 0)]

Insert(n) ==
  /\ key[n] = 0
  /\ \E k \in IF kind = "restaurants" THEN Label ELSE {newest + 1} \cap 1..MaxKey :
       key' = [key EXCEPT ![n] = k]
  /\ UNCHANGED <<kind, filter, statusGroup>>
  /\ noted(n)

\* A status changes, and with it the moment a history is sorted by.
Move(n) ==
  /\ key[n] > 0
  /\ \E g \in Group : /\ <<statusGroup[n], g>> \in groupMoves[kind]
                     /\ statusGroup' = [statusGroup EXCEPT ![n] = g]
  /\ IF kind = "history" THEN newest < MaxKey /\ key' = [key EXCEPT ![n] = newest + 1]
                         ELSE UNCHANGED key
  /\ UNCHANGED <<kind, filter>>
  /\ noted(n)

\* The steps of a delivery that stay in its group, and a restaurant's new name.
Touch(n) ==
  /\ key[n] > 0
  /\ \/ kind = "history" /\ statusGroup[n] = "active" /\ newest < MaxKey
        /\ key' = [key EXCEPT ![n] = newest + 1]
     \/ kind = "restaurants" /\ \E k \in Label : key' = [key EXCEPT ![n] = k]
  /\ UNCHANGED <<kind, filter, statusGroup>>
  /\ noted(n)

ListingNext ==
  \/ Begin \/ ReadItems \/ ReadCount
  \/ /\ walk.pc \in {"items", "count"} /\ walk.changes < MaxChanges
     /\ \E n \in PageRow : Insert(n) \/ Move(n) \/ Touch(n)

ListingSpec == ListingInit /\ [][ListingNext]_listingVars

-----------------------------------------------------------------------------
(***************************************************************************)
(* A finished walk missed none of the rows that were there, untouched and  *)
(* with a key of their own, from its first query to its last - but one for *)
(* each row that meanwhile left the listing or moved behind.  So a walk of *)
(* the inbox, of the ledger or of all orders misses nothing, however many  *)
(* arrive; one filtered by status can.                                     *)
(***************************************************************************)
ListingComplete ==
  walk.pc = "done" =>
    /\ Cardinality(walk.steady \ walk.got) <= walk.departures
    /\ filter = "any" /\ kind # "restaurants" => walk.steady \subseteq walk.got
=============================================================================
