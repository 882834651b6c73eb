---------------------------- MODULE Notifications ----------------------------
(***************************************************************************)
(* The customer's notifications (notification-service): a row for each     *)
(* order, payment and delivery event the customer is told of, and marking  *)
(* rows read.  The consumer (Consumer) hands an event to one worker at a   *)
(* time and again until its handler was seen to succeed; the row has no    *)
(* key of its own, so what happens between the insert and the receipt is   *)
(* seen by the customer.                                                   *)
(***************************************************************************)
EXTENDS Naturals, Sequences, FiniteSets

CONSTANTS
  Notice,    \* events
  Person,    \* users
  NoPerson,  \* an event from before events named the customer
  Worker,    \* processes of the service
  MaxRepeats \* bound: handlings lost after their insert

ASSUME NotificationsAssumption == NoPerson \notin Person /\ MaxRepeats \in Nat

VARIABLES
  notice,  \* each event: its kind and customer, "none" before it is published
  receipt, \* each event's idempotency key: "free", "claimed", "processed" or "dead"
  worker,  \* the event each worker has, and how far it is with it
  inbox,   \* the rows, in the order they were written
  repeats  \* events whose handling was lost after its insert, as often as it was

notificationsVars == <<notice, receipt, worker, inbox, repeats>>

\* Subscribed events; a cancellation by the customer; events nobody subscribed.
NoticeKind == {"told", "ownCancellation", "untold"}
NoNotice == [kind |-> "none", customer |-> NoPerson]
WorkerIdle == [pc |-> "idle", notice |-> NoPerson]
Row == [notice : Notice, user : Person, read : {NoPerson} \cup Person]

NotificationsTypeOK ==
  /\ notice \in [Notice -> [kind : NoticeKind \cup {"none"}, customer : Person \cup {NoPerson}]]
  /\ receipt \in [Notice -> {"free", "claimed", "processed", "dead"}]
  /\ worker \in [Worker -> [pc : {"idle", "handle", "mark"}, notice : Notice \cup {NoPerson}]]
  /\ inbox \in Seq(Row)
  /\ repeats \in [Notice -> 0..MaxRepeats]

NotificationsInit ==
  /\ notice = [n \in Notice |-> NoNotice] /\ receipt = [n \in Notice |-> "free"]
  /\ worker = [w \in Worker |-> WorkerIdle]
  /\ inbox = <<>> /\ repeats = [n \in Notice |-> 0]

PublishNotice(n, kind, customer) ==
  /\ notice[n] = NoNotice
  /\ notice' = [notice EXCEPT ![n] = [kind |-> kind, customer |-> customer]]
  /\ UNCHANGED <<receipt, worker, inbox, repeats>>

-----------------------------------------------------------------------------
(* The handlers *)
notifies(n) == notice[n].kind = "told" /\ notice[n].customer # NoPerson
handling(w, pc) == worker[w].pc = pc
put(w, record) == worker' = [worker EXCEPT ![w] = record]
rowFor(n) == [notice |-> n, user |-> notice[n].customer, read |-> NoPerson]

\* Events nobody subscribed are committed unread.
ClaimNotice(w, n) ==
  /\ handling(w, "idle") /\ receipt[n] = "free"
  /\ notice[n].kind \in {"told", "ownCancellation"}
  /\ receipt' = [receipt EXCEPT ![n] = "claimed"]
  /\ put(w, [pc |-> "handle", notice |-> n])
  /\ UNCHANGED <<notice, inbox, repeats>>

CreateNotification(w) ==
  LET n == worker[w].notice IN
  /\ handling(w, "handle")
  /\ inbox' = IF notifies(n) THEN Append(inbox, rowFor(n)) ELSE inbox
  /\ put(w, [worker[w] EXCEPT !.pc = "mark"])
  /\ UNCHANGED <<notice, receipt, repeats>>

MarkNotice(w) ==
  LET n == worker[w].notice IN
  /\ handling(w, "mark")
  /\ receipt' = [receipt EXCEPT ![n] = "processed"]
  /\ put(w, WorkerIdle)
  /\ UNCHANGED <<notice, inbox, repeats>>

\* The handler throws, its lease runs out or the process dies: the event is free
\* again, or dead-lettered.  An insert may have been committed all the same.
LoseWorker(w) ==
  LET n == worker[w].notice IN
  /\ worker[w].pc # "idle"
  /\ \E inserted \in {worker[w].pc = "mark" /\ notifies(n), notifies(n)} :
       /\ inserted => repeats[n] < MaxRepeats
       /\ repeats' = IF inserted THEN [repeats EXCEPT ![n] = @ + 1] ELSE repeats
       /\ inbox' = IF inserted /\ worker[w].pc = "handle" THEN Append(inbox, rowFor(n)) ELSE inbox
  /\ \E after \in {"free", "dead"} : receipt' = [receipt EXCEPT ![n] = after]
  /\ put(w, WorkerIdle)
  /\ UNCHANGED notice

-----------------------------------------------------------------------------
(* The routes *)
isRead(i) == inbox[i].read # NoPerson

MarkAsRead_AnyRow(i, user) ==
  /\ i \in DOMAIN inbox
  /\ inbox' = [inbox EXCEPT ![i].read = user]
  /\ UNCHANGED <<notice, receipt, worker, repeats>>
MarkAsRead(i, user) ==
  /\ i \in DOMAIN inbox /\ inbox[i].user = user \* else 404
  /\ inbox' = [inbox EXCEPT ![i].read = user]
  /\ UNCHANGED <<notice, receipt, worker, repeats>>

MarkAllAsRead(user) ==
  /\ inbox' = [i \in DOMAIN inbox |->
       IF inbox[i].user = user /\ ~isRead(i) THEN [inbox[i] EXCEPT !.read = user] ELSE inbox[i]]
  /\ UNCHANGED <<notice, receipt, worker, repeats>>

-----------------------------------------------------------------------------
NotificationsNext ==
  \/ \E n \in Notice, kind \in NoticeKind, c \in Person \cup {NoPerson} : PublishNotice(n, kind, c)
  \/ \E w \in Worker :
       \/ CreateNotification(w) \/ MarkNotice(w) \/ LoseWorker(w)
       \/ \E n \in Notice : ClaimNotice(w, n)
  \/ \E user \in Person : MarkAllAsRead(user) \/ \E i \in DOMAIN inbox : MarkAsRead(i, user)

NotificationsSpec == NotificationsInit /\ [][NotificationsNext]_notificationsVars

-----------------------------------------------------------------------------
(* What the customer may rely on *)
rowsOf(n) == {i \in DOMAIN inbox : inbox[i].notice = n}

\* An event the service is done with has told its customer, and nobody else; an
\* own cancellation, and an event that names nobody, tell nobody.  It is told
\* again only for a handling that was lost after its insert, however workers
\* race and die (notifyCustomer, createNotification).
ToldOnceToItsOwn ==
  \A n \in Notice :
    /\ \A i \in rowsOf(n) : inbox[i].user = notice[n].customer
    /\ receipt[n] = "processed" /\ notifies(n) => rowsOf(n) # {}
    /\ ~notifies(n) => rowsOf(n) = {}
    /\ Cardinality(rowsOf(n)) <= 1 + repeats[n]

\* Nobody marks another's row as read (markAsReadForUser).
ReadByItsOwn == \A i \in DOMAIN inbox : isRead(i) => inbox[i].read = inbox[i].user

\* Both at once, with workers and the customers' own requests crossing
\* (NotificationsService).
InboxKept == NotificationsTypeOK /\ ToldOnceToItsOwn /\ ReadByItsOwn
=============================================================================
