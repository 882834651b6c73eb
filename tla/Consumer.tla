------------------------------ MODULE Consumer ------------------------------
(***************************************************************************)
(* One consumer group on one partition: KafkaConsumerService with its      *)
(* durable idempotency markers in Redis, the dead-letter topic and the     *)
(* replay script.                                                          *)
(*                                                                         *)
(* A message is claimed, handled with retries, marked and committed, one   *)
(* action per call, or dead-lettered, released and committed.  Anything    *)
(* that throws leaves the offset where it was.  The partition may move to  *)
(* another process at any time; the old one goes on with its message, and  *)
(* Kafka refuses its commit.  Every service that reacts to events does so  *)
(* through this code; what its handler writes is `runs`, one unit a run.   *)
(***************************************************************************)
EXTENDS Naturals, Sequences, FiniteSets

CONSTANTS
  MaxEvent,        \* bound: events some handler is subscribed to
  Garbage,         \* a message that is no event
  Ignored,         \* an event type nobody subscribed to, or a message without a value
  Consumer,        \* processes of the group
  NoClaim, DeadClaim,  \* an unclaimed event; the claim of a process that is gone
  MaxAttempts,     \* DEFAULT_MAX_HANDLER_ATTEMPTS
  MaxLog,          \* bound: messages on the partition, replayed ones included
  MaxGeneration,   \* bound: rebalances
  MaxFailures,     \* bound: calls that fail and processes that die
  MaxExpiries      \* bound: handlers that outlive their lease

ASSUME ConsumerAssumption ==
  /\ MaxEvent \in Nat /\ Garbage \notin Nat /\ Ignored \notin Nat /\ Garbage # Ignored
  /\ {NoClaim, DeadClaim, "processed"} \cap Consumer = {}
  /\ NoClaim # DeadClaim /\ NoClaim # "processed" /\ DeadClaim # "processed"
  /\ Consumer # {}
  /\ MaxAttempts \in Nat \ {0} /\ MaxLog \in Nat /\ MaxGeneration \in Nat
  /\ MaxFailures \in Nat /\ MaxExpiries \in Nat

VARIABLES
  log,         \* the partition
  offset,      \* the group's committed offset: messages done with
  assignee,    \* the process the partition is assigned to, or NoClaim
  generation,  \* rebalances so far
  marker,      \* the Redis key of each event: NoClaim, a lease's holder, or "processed"
  con,         \* the message each process is at
  runs,        \* handler runs that succeeded
  failures, expiries,
  letter,      \* dead letter of each position: "none", "dead", "replayed"
  replaying    \* the position whose letter was sent back, not yet committed

group == <<assignee, generation>>
harm == <<failures, expiries>>
dlq == <<letter, replaying>>
groupVars == <<log, offset, group, marker, con, runs, harm, dlq>>

EventNo == 1..MaxEvent  \* in the order they are first sent
Offset == 1..MaxLog
Message == EventNo \cup {Garbage, Ignored}
ConsumerIdle == [pc |-> "idle", at |-> 0, tries |-> 0]
HoldsLease == {"run", "mark", "bury", "release"}
ConsumerState ==
  [pc : {"idle", "claim", "commit"} \cup HoldsLease, at : 0..MaxLog, tries : 0..MaxAttempts]

ConsumerTypeOK ==
  /\ log \in Seq(Message) /\ Len(log) <= MaxLog
  /\ offset \in 0..Len(log)
  /\ assignee \in Consumer \cup {NoClaim} /\ generation \in 0..MaxGeneration
  /\ marker \in [EventNo -> Consumer \cup {NoClaim, DeadClaim, "processed"}]
  /\ con \in [Consumer -> ConsumerState]
  /\ runs \in [EventNo -> Nat]
  /\ failures \in 0..MaxFailures /\ expiries \in 0..MaxExpiries
  /\ letter \in [Offset -> {"none", "dead", "replayed"}]
  /\ replaying \in 0..MaxLog

ConsumerInit ==
  /\ log = <<>> /\ offset = 0
  /\ assignee \in Consumer \cup {NoClaim}
  /\ generation = 0
  /\ marker = [e \in EventNo |-> NoClaim]
  /\ con = [c \in Consumer |-> ConsumerIdle]
  /\ runs = [e \in EventNo |-> 0]
  /\ failures = 0 /\ expiries = 0
  /\ letter = [n \in Offset |-> "none"]
  /\ replaying = 0

event(c) == log[con[c].at]
reach(c, pc) == con' = [con EXCEPT ![c].pc = pc]
drop(c) == con' = [con EXCEPT ![c] = ConsumerIdle]
setMarker(e, value) == marker' = [marker EXCEPT ![e] = value]

-----------------------------------------------------------------------------
(* Kafka *)
append(m) == Len(log) < MaxLog /\ log' = Append(log, m)

\* Producers may send an event twice: the relay does after a crash.
Produce(m) ==
  /\ m \in EventNo => \A e \in 1..(m - 1) : \E n \in DOMAIN log : log[n] = e
  /\ append(m)
  /\ UNCHANGED <<offset, group, marker, con, runs, harm, dlq>>

\* A process is assigned partitions when it joins, between two messages.
Rebalance(c) ==
  /\ c # assignee /\ con[c].pc = "idle" /\ generation < MaxGeneration
  /\ assignee' = c /\ generation' = generation + 1
  /\ UNCHANGED <<log, offset, marker, con, runs, harm, dlq>>

\* The message after the last committed one: earlier ones were done with, and one
\* that threw is fetched again.
Fetch(c) ==
  /\ assignee = c /\ con[c].pc = "idle" /\ offset < Len(log)
  /\ LET m == log[offset + 1] IN
     con' = [con EXCEPT ![c] = [at |-> offset + 1, tries |-> 0,
               pc |-> CASE m = Garbage -> "bury" [] m = Ignored -> "commit" [] OTHER -> "claim"]]
  /\ UNCHANGED <<log, offset, group, marker, runs, harm, dlq>>

\* Refused for a process that lost the partition: it drops the message.
CommitOffset(c) ==
  /\ con[c].pc = "commit"
  /\ offset' = IF assignee = c THEN con[c].at ELSE offset
  /\ drop(c)
  /\ UNCHANGED <<log, group, marker, runs, harm, dlq>>

-----------------------------------------------------------------------------
(* handleMessage *)
tryAcquire(c, claimable) ==
  /\ con[c].pc = "claim" /\ marker[event(c)] \in claimable
  /\ setMarker(event(c), c)
  /\ reach(c, "run")
  /\ UNCHANGED <<log, offset, group, runs, harm, dlq>>

TryAcquire_NotAtomic(c) == tryAcquire(c, {NoClaim} \cup Consumer)
TryAcquire(c) == tryAcquire(c, {NoClaim})

AlreadyProcessed(c) ==
  /\ con[c].pc = "claim" /\ marker[event(c)] = "processed"
  /\ reach(c, "commit")
  /\ UNCHANGED <<log, offset, group, marker, runs, harm, dlq>>

\* The claim polls until the lease is gone, and throws after CLAIM_WAIT_MS.
ClaimTimesOut(c) ==
  /\ con[c].pc = "claim" /\ marker[event(c)] \notin {NoClaim, "processed"}
  /\ drop(c)
  /\ UNCHANGED <<log, offset, group, marker, runs, harm, dlq>>

HandlerSucceeds(c) ==
  /\ con[c].pc = "run"
  /\ runs' = [runs EXCEPT ![event(c)] = @ + 1]
  /\ reach(c, "mark")
  /\ UNCHANGED <<log, offset, group, marker, harm, dlq>>

HandlerFails(c) ==
  /\ con[c].pc = "run"
  /\ con' = [con EXCEPT ![c].tries = @ + 1,
                        ![c].pc = IF con[c].tries + 1 < MaxAttempts THEN "run" ELSE "bury"]
  /\ UNCHANGED <<log, offset, group, marker, runs, harm, dlq>>

\* The handler did run: recorded even over another process's lease.
MarkProcessed(c) ==
  /\ con[c].pc = "mark"
  /\ setMarker(event(c), "processed")
  /\ reach(c, "commit")
  /\ UNCHANGED <<log, offset, group, runs, harm, dlq>>

DeadLetter(c) ==
  /\ con[c].pc = "bury"
  /\ letter' = [letter EXCEPT ![con[c].at] = "dead"]
  /\ reach(c, IF event(c) \in EventNo THEN "release" ELSE "commit")
  /\ UNCHANGED <<log, offset, group, marker, runs, harm, replaying>>

release(c, value) ==
  /\ con[c].pc = "release"
  /\ setMarker(event(c), IF marker[event(c)] = c THEN value ELSE marker[event(c)])
  /\ reach(c, "commit")
  /\ UNCHANGED <<log, offset, group, runs, harm, dlq>>

ReleaseClaim_Forgotten(c) == release(c, c)
ReleaseClaim(c) == release(c, NoClaim)

\* Redis or Kafka fails, or the process dies: the message is dropped and the
\* lease is left to expire.
Fails(c) ==
  /\ con[c].pc # "idle" /\ failures < MaxFailures
  /\ failures' = failures + 1
  /\ drop(c)
  /\ marker' = [e \in EventNo |-> IF marker[e] = c THEN DeadClaim ELSE marker[e]]
  /\ UNCHANGED <<log, offset, group, runs, expiries, dlq>>

\* PX of ACQUIRE_SCRIPT: nobody renews a lease.
ClaimExpires(e) ==
  /\ marker[e] \in Consumer \cup {DeadClaim}
  /\ \/ marker[e] = DeadClaim /\ UNCHANGED expiries
     \/ marker[e] # DeadClaim /\ expiries < MaxExpiries /\ expiries' = expiries + 1
  /\ setMarker(e, NoClaim)
  /\ UNCHANGED <<log, offset, group, con, runs, failures, dlq>>

-----------------------------------------------------------------------------
(* scripts/kafka-dlq.ts --replay: send a letter back, then commit it *)
pending(n) == replaying = 0 /\ n <= Len(log) /\ letter[n] = "dead"

ReplaySend(n) ==
  /\ pending(n) /\ log[n] \in EventNo
  /\ append(log[n])
  /\ replaying' = n
  /\ UNCHANGED <<offset, group, marker, con, runs, harm, letter>>

ReplayCommit(n) ==
  /\ replaying = n
  /\ letter' = [letter EXCEPT ![n] = "replayed"]
  /\ replaying' = 0
  /\ UNCHANGED <<log, offset, group, marker, con, runs, harm>>

\* Not an event: listed, and marked as seen.
ReplaySkip(n) ==
  /\ pending(n) /\ log[n] \notin EventNo
  /\ letter' = [letter EXCEPT ![n] = "replayed"]
  /\ UNCHANGED <<log, offset, group, marker, con, runs, harm, replaying>>

ReplayDies ==
  /\ replaying # 0 /\ failures < MaxFailures
  /\ replaying' = 0 /\ failures' = failures + 1
  /\ UNCHANGED <<log, offset, group, marker, con, runs, expiries, letter>>

-----------------------------------------------------------------------------
Handle(c) ==
  \/ TryAcquire(c) \/ AlreadyProcessed(c) \/ ClaimTimesOut(c)
  \/ HandlerSucceeds(c) \/ HandlerFails(c)
  \/ MarkProcessed(c) \/ DeadLetter(c) \/ ReleaseClaim(c)

Replay(n) == ReplaySend(n) \/ ReplayCommit(n) \/ ReplaySkip(n)

ConsumerNext ==
  \/ \E m \in Message : Produce(m)
  \/ \E c \in Consumer : Rebalance(c) \/ Fetch(c) \/ Handle(c) \/ CommitOffset(c) \/ Fails(c)
  \/ \E e \in EventNo : ClaimExpires(e)
  \/ \E n \in Offset : Replay(n)
  \/ ReplayDies

ConsumerSpec == ConsumerInit /\ [][ConsumerNext]_groupVars

\* Each process goes on with its message, and Redis drops a lease that ran out.
ConsumerFairness ==
  /\ \A c \in Consumer : WF_groupVars(Fetch(c) \/ Handle(c) \/ CommitOffset(c))
  /\ \A e \in EventNo : WF_groupVars(marker[e] = DeadClaim /\ ClaimExpires(e))

FairConsumerSpec == ConsumerSpec /\ ConsumerFairness

-----------------------------------------------------------------------------
(* What the group promises *)

wasHandled(e) == runs[e] > 0

\* No event is lost: one the group is done with was handled, waits among the
\* dead letters, or came back later on the partition, whatever failed between
\* handling, marking, dead-lettering and committing it (handleMessage).
NothingLost ==
  \A n \in 1..offset : log[n] \in EventNo =>
    \/ wasHandled(log[n]) \/ letter[n] = "dead"
    \/ \E k \in (n + 1)..Len(log) : log[k] = log[n]

\* An event is first handled only after everything before it, dead letters
\* excepted: a claim that waits blocks the partition (claim).
OrderKept ==
  \A n \in DOMAIN log :
    log[n] \in EventNo /\ wasHandled(log[n]) /\ (\A k \in 1..(n - 1) : log[k] # log[n])
      => \A k \in 1..(n - 1) : log[k] \in EventNo => wasHandled(log[k]) \/ letter[k] # "none"

\* A processed marker stands for a handler that ran to its end; a replay that
\* finds it is skipped and loses nothing (MARK_PROCESSED_SCRIPT, RELEASE_SCRIPT).
MarkedWasHandled == \A e \in EventNo : marker[e] = "processed" => wasHandled(e)

\* As many processes run an event's handler together as outlived their lease,
\* and one: a rebalance, a crash or a redelivery alone never runs two
\* (ACQUIRE_SCRIPT, claim).
OneHandler ==
  \A e \in EventNo : Cardinality({c \in Consumer : con[c].pc = "run" /\ event(c) = e}) <= 1 + expiries

\* A handler succeeds once more only when a call failed, a process died or a
\* lease ran out: rebalances, duplicates and replays alone repeat nothing
\* (handleMessage, markProcessed).
HandledOnce == \A e \in EventNo : runs[e] <= 1 + failures + expiries

\* All of these at once, for every event on the partition and every process that
\* ever had it (KafkaConsumerService, EventIdempotencyService).
GroupInv ==
  ConsumerTypeOK /\ NothingLost /\ OrderKept /\ MarkedWasHandled /\ OneHandler /\ HandledOnce

\* The partition never stops: the group catches up again and again, whatever
\* failed, because a lease left behind runs out and a hopeless event is
\* dead-lettered (runWithRetries, claim).
EverythingCommitted == []<>(offset = Len(log))
=============================================================================
