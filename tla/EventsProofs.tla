---------------------------- MODULE EventsProofs ----------------------------
(***************************************************************************)
(* Proofs about what is made of the events: one consumer group on one        *)
(* partition (Consumer), a customer's notifications (Notifications) and an   *)
(* order that follows its delivery (OrderSync), for any number of processes, *)
(* events, failures and rebalances.                                          *)
(*                                                                           *)
(* Nothing is lost because a process reaches its commit only with the event  *)
(* handled or dead-lettered, and commits the one after the offset or         *)
(* nothing.  No handler runs twice without a cause because a process that    *)
(* works on an event either holds its lease or outlived it, and whoever      *)
(* outlived a lease, or lost it with a result nobody marked, is counted.  A  *)
(* notice has one row more than it was repeated, once it was told.  The      *)
(* events of a delivery are its legs in their order, so each one handled     *)
(* either moved the order to its leg or found it further.                    *)
(***************************************************************************)
EXTENDS Consumer, Notifications, OrderSync, FiniteSetTheorems, TLAPS

-----------------------------------------------------------------------------
(* A consumer group (Consumer) *)

settled(n) == log[n] \in EventNo => wasHandled(log[n]) \/ letter[n] # "none"
comesAgain(n) == \E k \in (n + 1)..Len(log) : log[k] = log[n]

\* What a process has reached with its message.
ProcessOK(c) ==
  con[c].pc # "idle" =>
    /\ con[c].at \in 1..Len(log) /\ con[c].at <= offset + 1
    /\ assignee = c => con[c].at = offset + 1
    /\ con[c].pc \in {"claim", "run", "mark", "release"} => event(c) \in EventNo
    /\ con[c].pc = "claim" => con[c].tries = 0
    /\ con[c].pc = "run" => con[c].tries < MaxAttempts
    /\ con[c].pc = "mark" => wasHandled(event(c))
    /\ con[c].pc = "release" => letter[con[c].at] # "none"
    /\ con[c].pc = "commit" => settled(con[c].at)

SettledBehind == \A n \in 1..offset : settled(n)

LettersReturn ==
  /\ \A n \in Offset : letter[n] # "none" => n <= Len(log)
  /\ \A n \in Offset : letter[n] = "replayed" /\ log[n] \in EventNo => comesAgain(n)
  /\ replaying # 0 => replaying \in 1..Len(log) /\ comesAgain(replaying)

\* A handled event was reached: some copy of it lies no further than the next message.
HandledWasReached ==
  \A e \in EventNo : wasHandled(e) => \E n \in 1..Len(log) : n <= offset + 1 /\ log[n] = e

LogIInv ==
  /\ ConsumerTypeOK
  /\ \A c \in Consumer : ProcessOK(c)
  /\ SettledBehind /\ LettersReturn /\ HandledWasReached /\ MarkedWasHandled

\* Processes at work on an event whose lease is no longer theirs.
Overdue(e) == {c \in Consumer : con[c].pc \in {"run", "mark"} /\ event(c) = e /\ marker[e] # c}
OverdueRunning(e) == {c \in Consumer : con[c].pc = "run" /\ event(c) = e /\ marker[e] # c}

\* One success of the event is explained by its marker, or by the holder about to set it.
explained(e) ==
  \/ marker[e] = "processed"
  \/ \E c \in Consumer : con[c].pc = "mark" /\ event(c) = e /\ marker[e] = c

counted(e) ==
  /\ IsFiniteSet(Overdue(e)) /\ Cardinality(Overdue(e)) <= expiries
  /\ runs[e] + Cardinality(OverdueRunning(e)) <=
       failures + expiries + (IF explained(e) THEN 1 ELSE 0)

OverdueCounted == \A e \in EventNo : counted(e)

GroupIInv == LogIInv /\ OverdueCounted

-----------------------------------------------------------------------------
(* Types *)
LEMMA ConsumerStarts == ConsumerInit => GroupIInv
<1> SUFFICES ASSUME ConsumerInit PROVE GroupIInv
  OBVIOUS
<1> USE DEF ConsumerInit
<1>1. ConsumerTypeOK
  BY ConsumerAssumption DEF ConsumerTypeOK, ConsumerIdle, ConsumerState, Message
<1>2. Len(log) = 0
  OBVIOUS
<1>3. \A c \in Consumer : con[c].pc = "idle"
  BY DEF ConsumerIdle
<1>4. \A c \in Consumer : ProcessOK(c)
  BY <1>3 DEF ProcessOK
<1>5. SettledBehind /\ LettersReturn /\ HandledWasReached
  BY <1>2 DEF SettledBehind, LettersReturn, HandledWasReached, wasHandled
<1>6. MarkedWasHandled
  BY ConsumerAssumption DEF MarkedWasHandled
<1>7. OverdueCounted
  <2> SUFFICES ASSUME NEW e \in EventNo PROVE counted(e)
    BY DEF OverdueCounted
  <2>1. Overdue(e) = {} /\ OverdueRunning(e) = {}
    BY <1>3 DEF Overdue, OverdueRunning
  <2>2. IsFiniteSet({}) /\ Cardinality({}) = 0
    BY FS_EmptySet
  <2>3. runs[e] = 0 /\ failures = 0 /\ expiries = 0
    OBVIOUS
  <2> QED
    BY <2>1, <2>2, <2>3 DEF counted
<1> QED
  BY <1>1, <1>4, <1>5, <1>6, <1>7 DEF GroupIInv, LogIInv

\* How a step moves one process.
LEMMA Reaches ==
  ASSUME ConsumerTypeOK, NEW c \in Consumer, NEW p \in {"idle", "claim", "commit"} \cup HoldsLease, reach(c, p)
  PROVE  /\ con' \in [Consumer -> ConsumerState]
         /\ \A d \in Consumer \ {c} : con'[d] = con[d]
         /\ con'[c].pc = p /\ con'[c].at = con[c].at /\ con'[c].tries = con[c].tries
BY DEF reach, ConsumerTypeOK, ConsumerState

LEMMA Drops ==
  ASSUME ConsumerTypeOK, NEW c \in Consumer, drop(c)
  PROVE  /\ con' \in [Consumer -> ConsumerState]
         /\ \A d \in Consumer \ {c} : con'[d] = con[d]
         /\ con'[c].pc = "idle"
BY ConsumerAssumption DEF drop, ConsumerTypeOK, ConsumerState, ConsumerIdle

LEMMA Appends ==
  ASSUME ConsumerTypeOK, NEW m \in Message, append(m)
  PROVE  /\ log' \in Seq(Message) /\ Len(log') = Len(log) + 1 /\ Len(log') <= MaxLog
         /\ \A n \in 1..Len(log) : log'[n] = log[n]
         /\ log'[Len(log) + 1] = m
BY ConsumerAssumption DEF append, ConsumerTypeOK

LEMMA LogTyped ==
  ASSUME ConsumerTypeOK
  PROVE  /\ Len(log) \in Nat /\ DOMAIN log = 1..Len(log) /\ offset \in 0..Len(log)
         /\ \A n \in 1..Len(log) : log[n] \in Message /\ n \in Offset
BY ConsumerAssumption DEF ConsumerTypeOK, Offset

\* What never goes back: the log, the offset, handler runs and letters.
Forward ==
  /\ Len(log') \in Nat /\ Len(log) <= Len(log') /\ \A n \in 1..Len(log) : log'[n] = log[n]
  /\ offset <= offset'
  /\ \A e \in EventNo : wasHandled(e) => wasHandled(e)'
  /\ \A n \in Offset : letter[n] # "none" => letter'[n] # "none"

LEMMA OtherProcess ==
  ASSUME LogIInv, Forward, NEW d \in Consumer, ProcessOK(d), con'[d] = con[d],
         con[d].pc # "idle" => (assignee' = d => assignee = d /\ offset' = offset),
         offset' \in Nat
  PROVE  ProcessOK(d)'
<1> SUFFICES ASSUME con[d].pc # "idle" PROVE ProcessOK(d)'
  BY DEF ProcessOK
<1> DEFINE at == con[d].at
<1>1. at \in 1..Len(log) /\ at \in 1..Len(log') /\ log'[at] = log[at] /\ at \in Offset
  BY LogTyped DEF ProcessOK, Forward, LogIInv
<1>2. offset \in Nat /\ offset <= offset' /\ at \in Nat /\ at <= offset + 1
  BY <1>1, LogTyped DEF ProcessOK, Forward, LogIInv
<1>3. event(d)' = event(d)
  BY <1>1 DEF event
<1>4. settled(at) => settled(at)'
  BY <1>1 DEF settled, Forward, wasHandled
<1>5. at \in 1..Len(log') /\ at <= offset' + 1
  BY <1>1, <1>2
<1>6. assignee' = d => at = offset' + 1
  BY DEF ProcessOK
<1>7. con[d].pc = "mark" => wasHandled(event(d))' 
  BY <1>3 DEF ProcessOK, Forward
<1>8. con[d].pc = "release" => letter'[at] # "none"
  BY <1>1 DEF ProcessOK, Forward
<1>9. con[d].pc = "commit" => settled(at)'
  BY <1>4 DEF ProcessOK
<1> QED
  BY <1>3, <1>5, <1>6, <1>7, <1>8, <1>9 DEF ProcessOK

-----------------------------------------------------------------------------
(* Where the log, the letters and the markers are safe *)

LEMMA StillWithin ==
  ASSUME NEW n \in Int, NEW i \in Int, NEW j \in Int, n <= i + 1, i <= j
  PROVE  n <= j + 1
OBVIOUS

\* What a step must show of the letters, the log and the process it moved.
LEMMA LogStep ==
  ASSUME LogIInv, Forward, ConsumerTypeOK', NEW c \in Consumer, ProcessOK(c)',
         \A d \in Consumer \ {c} : con'[d] = con[d],
         \A d \in Consumer \ {c} : con[d].pc # "idle" => (assignee' = d => assignee = d /\ offset' = offset),
         \/ offset' = offset
         \/ offset' = offset + 1 /\ offset + 1 \in 1..Len(log) /\ settled(offset + 1),
         \A e \in EventNo : wasHandled(e)' => wasHandled(e) \/ \E n \in 1..Len(log) : n <= offset + 1 /\ log[n] = e,
         \A n \in Offset : letter'[n] # "none" => n <= Len(log'),
         \A n \in Offset : letter'[n] = "replayed" => letter[n] = "replayed" \/ n = replaying \/ (n \in 1..Len(log) /\ log[n] \notin EventNo),
         replaying' # 0 => replaying' = replaying \/ (replaying' \in 1..Len(log') /\ comesAgain(replaying)'),
         \A e \in EventNo : marker'[e] = "processed" => wasHandled(e)'
  PROVE  LogIInv'
<1> USE DEF LogIInv
<1>t. /\ Len(log) \in Nat /\ Len(log') \in Nat /\ offset \in 0..Len(log) /\ offset' \in 0..Len(log')
      /\ offset <= offset' /\ Len(log) <= Len(log')
      /\ \A n \in 1..Len(log) : n \in Offset /\ n \in 1..Len(log') /\ log'[n] = log[n]
      /\ Offset \subseteq Nat
  BY LogTyped, SMTT(30) DEF Forward, ConsumerTypeOK, Offset
<1>1. \A d \in Consumer : ProcessOK(d)'
  <2>1. ASSUME NEW d \in Consumer \ {c} PROVE ProcessOK(d)'
    BY <1>t, <2>1, OtherProcess
  <2> QED
    BY <2>1
<1>2. SettledBehind'
  <2> SUFFICES ASSUME NEW n \in 1..offset' PROVE settled(n)'
    BY DEF SettledBehind
  <2>1. n \in 1..Len(log) /\ settled(n)
    <3>1. CASE n \in 1..offset
      BY <1>t, <3>1 DEF SettledBehind
    <3>2. CASE n \notin 1..offset
      <4>1. n = offset + 1 /\ offset' = offset + 1
        BY <1>t, <3>2
      <4> QED
        BY <1>t, <4>1
    <3> QED
      BY <3>1, <3>2
  <2> QED
    BY <1>t, <2>1 DEF settled, wasHandled, Forward
<1>3. LettersReturn'
  <2>1. ASSUME NEW n \in 1..Len(log), comesAgain(n) PROVE comesAgain(n)'
    <3>1. PICK k \in (n + 1)..Len(log) : log[k] = log[n]
      BY <2>1 DEF comesAgain
    <3>2. k \in 1..Len(log) /\ k \in (n + 1)..Len(log')
      BY <1>t, <3>1 DEF Forward
    <3> QED
      BY <1>t, <3>1, <3>2 DEF comesAgain
  <2>2. ASSUME NEW n \in Offset, letter'[n] = "replayed", log'[n] \in EventNo PROVE comesAgain(n)'
    <3>1. CASE letter[n] # "none"
      <4>1. n \in 1..Len(log) /\ log'[n] = log[n]
        BY <1>t, <3>1 DEF LettersReturn, Offset
      <4>2. letter[n] = "replayed" \/ n = replaying
        BY <2>2, <4>1
      <4>3. comesAgain(n)
        BY <2>2, <4>1, <4>2 DEF LettersReturn
      <4> QED
        BY <2>1, <4>1, <4>3
    <3>2. CASE letter[n] = "none"
      <4>1. n = replaying \/ (n \in 1..Len(log) /\ log[n] \notin EventNo)
        BY <2>2, <3>2
      <4>2. CASE n = replaying
        BY <1>t, <2>1, <4>2 DEF LettersReturn, Offset
      <4>3. CASE n # replaying
        BY <1>t, <2>2, <4>1, <4>3 DEF LettersReturn
      <4> QED
        BY <4>2, <4>3
    <3> QED
      BY <3>1, <3>2
  <2>3. replaying' # 0 => replaying' \in 1..Len(log') /\ comesAgain(replaying)'
    <3>1. ASSUME replaying' # 0, replaying' = replaying PROVE replaying' \in 1..Len(log') /\ comesAgain(replaying)'
      <4>1. replaying \in 1..Len(log) /\ comesAgain(replaying)
        BY <3>1 DEF LettersReturn
      <4>2. PICK k \in (replaying + 1)..Len(log) : log[k] = log[replaying]
        BY <4>1 DEF comesAgain
      <4>3. k \in 1..Len(log) /\ k \in (replaying + 1)..Len(log')
        BY <1>t, <4>1, <4>2
      <4> QED
        BY <1>t, <3>1, <4>1, <4>2, <4>3 DEF comesAgain
    <3> QED
      BY <3>1
  <2> QED
    BY <2>2, <2>3 DEF LettersReturn
<1>4. HandledWasReached'
  <2> SUFFICES ASSUME NEW e \in EventNo, wasHandled(e)'
               PROVE  \E n \in 1..Len(log') : n <= offset' + 1 /\ log'[n] = e
    BY DEF HandledWasReached
  <2>1. PICK n \in 1..Len(log) : n <= offset + 1 /\ log[n] = e
    BY DEF HandledWasReached
  <2>2. n <= offset' + 1
    <3>1. n \in Int /\ offset \in Int /\ offset' \in Int /\ offset <= offset' /\ n <= offset + 1
      BY <1>t, <2>1
    <3> QED
      BY <3>1, StillWithin
  <2> QED
    BY <1>t, <2>1, <2>2
<1>5. MarkedWasHandled'
  BY DEF MarkedWasHandled
<1> QED
  BY <1>1, <1>2, <1>3, <1>4, <1>5

\* The steps of Kafka and of the replay script.
LEMMA LogOutside ==
  ASSUME LogIInv,
         \/ \E m \in Message : Produce(m)
         \/ \E c \in Consumer : Rebalance(c)
         \/ \E e \in EventNo : ClaimExpires(e)
         \/ \E n \in Offset : Replay(n)
         \/ ReplayDies
         \/ UNCHANGED groupVars
  PROVE  LogIInv'
<1> USE DEF LogIInv
<1>t. /\ Len(log) \in Nat /\ DOMAIN log = 1..Len(log) /\ offset \in 0..Len(log) /\ offset + 0 = offset
      /\ \A n \in 1..Len(log) : log[n] \in Message /\ n \in Offset
  BY LogTyped
<1>u. ASSUME NEW c \in Consumer, con[c].pc = "idle", con' = con PROVE ProcessOK(c)'
  BY <1>u DEF ProcessOK
<1>1. ASSUME NEW m \in Message, Produce(m) PROVE LogIInv'
  <2>1. /\ log' \in Seq(Message) /\ Len(log') = Len(log) + 1 /\ Len(log') <= MaxLog
        /\ \A n \in 1..Len(log) : log'[n] = log[n]
    BY <1>1, Appends DEF Produce
  <2>2. ConsumerTypeOK'
    BY <1>1, <1>t, <2>1 DEF Produce, ConsumerTypeOK, group, harm, dlq
  <2>3. Forward
    BY <1>1, <1>t, <2>1 DEF Produce, Forward, dlq, wasHandled
  <2>4. PICK c \in Consumer : TRUE
    BY ConsumerAssumption
  <2>5. ProcessOK(c)'
    BY <1>1, <1>t, <2>3, OtherProcess DEF Produce, group
  <2>6. UNCHANGED <<offset, assignee, marker, con, runs, letter, replaying>>
    BY <1>1 DEF Produce, group, dlq
  <2>7. \A k \in Offset : letter'[k] # "none" => k <= Len(log')
    BY <1>t, <2>1, <2>6 DEF LettersReturn, Offset
  <2> QED
    BY <1>t, <2>2, <2>3, <2>5, <2>6, <2>7, LogStep DEF wasHandled, HandledWasReached, MarkedWasHandled
<1>2. ASSUME NEW c \in Consumer, Rebalance(c) PROVE LogIInv'
  <2>1. ConsumerTypeOK'
    BY <1>2, ConsumerAssumption DEF Rebalance, ConsumerTypeOK, harm, dlq
  <2>2. Forward
    BY <1>2, <1>t DEF Rebalance, Forward, dlq, wasHandled
  <2>3. ProcessOK(c)'
    BY <1>2 DEF Rebalance, ProcessOK
  <2> QED
    BY <1>2, <1>t, <2>1, <2>2, <2>3, LogStep
       DEF Rebalance, dlq, wasHandled, LettersReturn, HandledWasReached, MarkedWasHandled
<1>3. ASSUME NEW e \in EventNo, ClaimExpires(e) PROVE LogIInv'
  <2>1. ConsumerTypeOK'
    BY <1>3, ConsumerAssumption DEF ClaimExpires, ConsumerTypeOK, setMarker, group, dlq
  <2>2. Forward
    BY <1>3, <1>t DEF ClaimExpires, Forward, dlq, wasHandled
  <2>3. PICK c \in Consumer : TRUE
    BY ConsumerAssumption
  <2>4. ProcessOK(c)'
    BY <1>3, <1>t, <2>2, OtherProcess DEF ClaimExpires, group
  <2>5. \A f \in EventNo : marker'[f] = "processed" => marker[f] = "processed"
    BY <1>3, ConsumerAssumption DEF ClaimExpires, setMarker, ConsumerTypeOK
  <2> QED
    BY <1>3, <1>t, <2>1, <2>2, <2>4, <2>5, LogStep
       DEF ClaimExpires, group, dlq, wasHandled, LettersReturn, HandledWasReached, MarkedWasHandled
<1>4. ASSUME NEW n \in Offset, ReplaySend(n) PROVE LogIInv'
  <2>1. log[n] \in Message /\ n \in 1..Len(log)
    BY <1>4, <1>t DEF ReplaySend, pending, Offset
  <2>2. /\ log' \in Seq(Message) /\ Len(log') = Len(log) + 1 /\ Len(log') <= MaxLog
        /\ \A k \in 1..Len(log) : log'[k] = log[k]
        /\ log'[Len(log) + 1] = log[n]
    BY <1>4, <2>1, Appends DEF ReplaySend
  <2>3. ConsumerTypeOK'
    BY <1>4, <1>t, <2>2, ConsumerAssumption DEF ReplaySend, ConsumerTypeOK, group, harm, Offset
  <2>4. Forward
    BY <1>4, <1>t, <2>2 DEF ReplaySend, Forward, wasHandled
  <2>5. PICK c \in Consumer : TRUE
    BY ConsumerAssumption
  <2>6. ProcessOK(c)'
    BY <1>4, <1>t, <2>4, OtherProcess DEF ReplaySend, group
  <2>7. replaying' \in 1..Len(log') /\ comesAgain(replaying)'
    <3>1. replaying' = n /\ Len(log) + 1 \in (n + 1)..Len(log') /\ log'[Len(log) + 1] = log'[n]
      BY <1>4, <1>t, <2>1, <2>2 DEF ReplaySend
    <3> QED
      BY <1>t, <2>1, <2>2, <3>1 DEF comesAgain
  <2>8. UNCHANGED <<offset, assignee, marker, con, runs, letter>>
    BY <1>4 DEF ReplaySend, group
  <2>9. \A k \in Offset : letter'[k] # "none" => k <= Len(log')
    BY <1>t, <2>2, <2>8 DEF LettersReturn, Offset
  <2> QED
    BY <1>t, <2>3, <2>4, <2>6, <2>7, <2>8, <2>9, LogStep DEF wasHandled, HandledWasReached, MarkedWasHandled
<1>5. ASSUME NEW n \in Offset, ReplayCommit(n) \/ ReplaySkip(n) PROVE LogIInv'
  <2>1. ConsumerTypeOK'
    <3>1. CASE ReplayCommit(n)
      BY <1>5, <3>1, ConsumerAssumption DEF ReplayCommit, ConsumerTypeOK, group, harm
    <3>2. CASE ReplaySkip(n)
      BY <1>5, <3>2, ConsumerAssumption DEF ReplaySkip, ConsumerTypeOK, group, harm
    <3> QED
      BY <1>5, <3>1, <3>2
  <2>2. Forward
    BY <1>5, <1>t DEF ReplayCommit, ReplaySkip, Forward, wasHandled, ConsumerTypeOK
  <2>3. PICK c \in Consumer : TRUE
    BY ConsumerAssumption
  <2>4. ProcessOK(c)'
    BY <1>5, <1>t, <2>2, OtherProcess DEF ReplayCommit, ReplaySkip, group
  <2>5. n \in 1..Len(log)
    BY <1>5, <1>t DEF ReplayCommit, ReplaySkip, pending, LettersReturn, Offset
  <2>6. \A k \in Offset : k # n => letter'[k] = letter[k]
    BY <1>5 DEF ReplayCommit, ReplaySkip, ConsumerTypeOK
  <2>7. n = replaying \/ log[n] \notin EventNo
    BY <1>5 DEF ReplayCommit, ReplaySkip
  <2>8. replaying' = 0 \/ replaying' = replaying
    BY <1>5 DEF ReplayCommit, ReplaySkip
  <2>9. UNCHANGED <<log, offset, group, marker, con, runs>>
    BY <1>5 DEF ReplayCommit, ReplaySkip
  <2> QED
    BY <1>t, <2>1, <2>2, <2>4, <2>5, <2>6, <2>7, <2>8, <2>9, LogStep
       DEF group, wasHandled, LettersReturn, HandledWasReached, MarkedWasHandled
<1>6. CASE ReplayDies
  <2>1. ConsumerTypeOK'
    BY <1>6, ConsumerAssumption DEF ReplayDies, ConsumerTypeOK, group
  <2>2. Forward
    BY <1>6, <1>t DEF ReplayDies, Forward, wasHandled
  <2>3. PICK c \in Consumer : TRUE
    BY ConsumerAssumption
  <2>4. ProcessOK(c)'
    BY <1>6, <1>t, <2>2, OtherProcess DEF ReplayDies, group
  <2> QED
    BY <1>6, <1>t, <2>1, <2>2, <2>4, LogStep
       DEF ReplayDies, group, wasHandled, LettersReturn, HandledWasReached, MarkedWasHandled
<1>7. CASE UNCHANGED groupVars
  BY <1>7 DEF groupVars, group, harm, dlq, ConsumerTypeOK, ProcessOK, event, settled, wasHandled, SettledBehind,
              LettersReturn, comesAgain, HandledWasReached, MarkedWasHandled
<1> QED
  BY <1>1, <1>2, <1>3, <1>4, <1>5, <1>6, <1>7 DEF Replay

\* A step of one process that leaves Kafka and the letters alone.
LEMMA LogProcess ==
  ASSUME LogIInv, ConsumerTypeOK', NEW c \in Consumer, UNCHANGED <<log, offset, group, dlq>>,
         \A e \in EventNo : wasHandled(e) => wasHandled(e)',
         \A e \in EventNo : wasHandled(e)' => wasHandled(e) \/ (con[c].pc # "idle" /\ event(c) = e),
         \A e \in EventNo : marker'[e] = "processed" => marker[e] = "processed" \/ wasHandled(e),
         \A d \in Consumer \ {c} : con'[d] = con[d], ProcessOK(c)'
  PROVE  LogIInv'
<1> USE DEF LogIInv
<1>t. /\ Len(log) \in Nat /\ DOMAIN log = 1..Len(log) /\ offset \in 0..Len(log)
      /\ \A n \in 1..Len(log) : log[n] \in Message /\ n \in Offset
  BY LogTyped
<1>1. Forward
  BY <1>t DEF Forward, dlq
<1>2. \A e \in EventNo : wasHandled(e)' => wasHandled(e) \/ \E n \in 1..Len(log) : n <= offset + 1 /\ log[n] = e
  BY DEF ProcessOK, event
<1>3. \A n \in Offset : letter'[n] # "none" => n <= Len(log')
  BY DEF LettersReturn, dlq
<1>4. \A e \in EventNo : marker'[e] = "processed" => wasHandled(e)'
  BY DEF MarkedWasHandled
<1> QED
  BY <1>t, <1>1, <1>2, <1>3, <1>4, LogStep DEF group, dlq

LEMMA LogHandles ==
  ASSUME LogIInv, NEW c \in Consumer, Fetch(c) \/ Handle(c) \/ CommitOffset(c) \/ Fails(c)
  PROVE  LogIInv'
<1> USE DEF LogIInv
<1>t. /\ Len(log) \in Nat /\ DOMAIN log = 1..Len(log) /\ offset \in 0..Len(log)
      /\ \A n \in 1..Len(log) : log[n] \in Message /\ n \in Offset
  BY LogTyped
<1>e. con[c].pc # "idle" => con[c].at \in 1..Len(log) /\ event(c) \in Message /\ con[c].at \in Offset
  BY <1>t DEF ProcessOK, event
<1>1. CASE Fetch(c)
  <2> DEFINE m == log[offset + 1]
             p == CASE m = Garbage -> "bury" [] m = Ignored -> "commit" [] OTHER -> "claim"
  <2>1. offset + 1 \in 1..Len(log) /\ m \in Message /\ offset + 1 \in 0..MaxLog
    BY <1>1, <1>t DEF Fetch, Offset
  <2>2. p \in {"bury", "commit", "claim"}
    OBVIOUS
  <2>3. /\ con'[c].at = offset + 1 /\ con'[c].tries = 0 /\ con'[c].pc = p
        /\ con' \in [Consumer -> ConsumerState] /\ \A d \in Consumer \ {c} : con'[d] = con[d]
    <3> HIDE DEF p
    <3>1. con' = [con EXCEPT ![c] = [at |-> offset + 1, tries |-> 0, pc |-> p]]
      BY <1>1 DEF Fetch, p
    <3> QED
      BY <2>1, <2>2, <3>1, ConsumerAssumption DEF ConsumerTypeOK, ConsumerState, HoldsLease
  <2>4. p = "claim" => m \in EventNo
    BY <2>1 DEF Message
  <2>5. p = "commit" => m \notin EventNo
    BY ConsumerAssumption DEF EventNo
  <2>6. UNCHANGED <<log, offset, group, marker, runs, harm, dlq>>
    BY <1>1 DEF Fetch
  <2>7. ConsumerTypeOK'
    BY <2>3, <2>6 DEF ConsumerTypeOK, group, harm, dlq
  <2> HIDE DEF p, m
  <2>8. ProcessOK(c)'
    <3>1. event(c)' = m /\ settled(con[c].at)' = settled(offset + 1)
      BY <2>3, <2>6 DEF event, m, settled, wasHandled, dlq
    <3>2. p = "commit" => settled(offset + 1)
      BY <2>5 DEF settled, m
    <3> QED
      BY <1>t, <2>1, <2>2, <2>3, <2>4, <2>6, <3>1, <3>2 DEF ProcessOK, group
  <2> QED
    BY <2>3, <2>6, <2>7, <2>8, LogProcess DEF wasHandled
<1>2. CASE CommitOffset(c)
  <2>1. con' \in [Consumer -> ConsumerState] /\ con'[c].pc = "idle" /\ \A d \in Consumer \ {c} : con'[d] = con[d]
    BY <1>2, Drops DEF CommitOffset
  <2>2. UNCHANGED <<log, group, marker, runs, harm, dlq>> /\ con[c].pc = "commit"
    BY <1>2 DEF CommitOffset
  <2>3. \/ offset' = offset
        \/ assignee = c /\ offset' = offset + 1 /\ offset + 1 \in 1..Len(log) /\ settled(offset + 1)
    BY <1>2 DEF CommitOffset, ProcessOK
  <2>4. ConsumerTypeOK'
    BY <1>t, <2>1, <2>2, <2>3 DEF ConsumerTypeOK, group, harm, dlq
  <2>5. Forward
    BY <1>t, <2>2, <2>3 DEF Forward, wasHandled, dlq
  <2>6. ProcessOK(c)'
    BY <2>1 DEF ProcessOK
  <2>7. \A n \in Offset : letter'[n] # "none" => n <= Len(log')
    BY <2>2 DEF LettersReturn, dlq
  <2> QED
    BY <1>t, <2>1, <2>2, <2>3, <2>4, <2>5, <2>6, <2>7, LogStep DEF group, dlq, wasHandled, MarkedWasHandled
<1>3. CASE Fails(c)
  <2>1. con' \in [Consumer -> ConsumerState] /\ con'[c].pc = "idle" /\ \A d \in Consumer \ {c} : con'[d] = con[d]
    BY <1>3, Drops DEF Fails
  <2>2. UNCHANGED <<log, offset, group, runs, dlq>>
    BY <1>3 DEF Fails
  <2>3. \A e \in EventNo : marker'[e] = marker[e] \/ marker'[e] = DeadClaim
    BY <1>3 DEF Fails
  <2>4. ConsumerTypeOK'
    BY <1>3, <2>1, ConsumerAssumption DEF Fails, ConsumerTypeOK, group, dlq
  <2>5. ProcessOK(c)'
    BY <2>1 DEF ProcessOK
  <2> QED
    BY <2>1, <2>2, <2>3, <2>4, <2>5, LogProcess, ConsumerAssumption DEF wasHandled
<1>4. CASE TryAcquire(c)
  <2>1. /\ con' \in [Consumer -> ConsumerState] /\ \A d \in Consumer \ {c} : con'[d] = con[d]
        /\ con'[c].pc = "run" /\ con'[c].at = con[c].at /\ con'[c].tries = con[c].tries
    BY <1>4, Reaches DEF TryAcquire, tryAcquire, HoldsLease
  <2>2. con[c].pc = "claim" /\ event(c) \in EventNo /\ con[c].tries = 0
    BY <1>4 DEF TryAcquire, tryAcquire, ProcessOK
  <2>3. UNCHANGED <<log, offset, group, runs, harm, dlq>> /\ setMarker(event(c), c)
    BY <1>4 DEF TryAcquire, tryAcquire
  <2>4. ConsumerTypeOK'
    BY <2>1, <2>3 DEF setMarker, ConsumerTypeOK, group, harm, dlq
  <2>5. ProcessOK(c)'
    BY <2>1, <2>2, <2>3, ConsumerAssumption DEF ProcessOK, event, group
  <2>6. \A e \in EventNo : marker'[e] = "processed" => marker[e] = "processed"
    BY <2>3, ConsumerAssumption DEF setMarker, ConsumerTypeOK
  <2> QED
    BY <2>1, <2>3, <2>4, <2>5, <2>6, LogProcess DEF wasHandled
<1>5. CASE AlreadyProcessed(c)
  <2>1. /\ con' \in [Consumer -> ConsumerState] /\ \A d \in Consumer \ {c} : con'[d] = con[d]
        /\ con'[c].pc = "commit" /\ con'[c].at = con[c].at
    BY <1>5, Reaches DEF AlreadyProcessed
  <2>2. con[c].pc = "claim" /\ event(c) \in EventNo /\ wasHandled(event(c))
    BY <1>5 DEF AlreadyProcessed, ProcessOK, MarkedWasHandled
  <2>3. UNCHANGED <<log, offset, group, marker, runs, harm, dlq>>
    BY <1>5 DEF AlreadyProcessed
  <2>4. ConsumerTypeOK'
    BY <2>1, <2>3 DEF ConsumerTypeOK, group, harm, dlq
  <2>5. settled(con[c].at)'
    BY <2>1, <2>2, <2>3 DEF settled, event, wasHandled
  <2>6. ProcessOK(c)'
    BY <2>1, <2>2, <2>3, <2>5 DEF ProcessOK, group
  <2> QED
    BY <2>1, <2>3, <2>4, <2>6, LogProcess DEF wasHandled
<1>6. CASE ClaimTimesOut(c)
  <2>1. con' \in [Consumer -> ConsumerState] /\ con'[c].pc = "idle" /\ \A d \in Consumer \ {c} : con'[d] = con[d]
    BY <1>6, Drops DEF ClaimTimesOut
  <2>2. UNCHANGED <<log, offset, group, marker, runs, harm, dlq>>
    BY <1>6 DEF ClaimTimesOut
  <2>3. ConsumerTypeOK'
    BY <2>1, <2>2 DEF ConsumerTypeOK, group, harm, dlq
  <2>4. ProcessOK(c)'
    BY <2>1 DEF ProcessOK
  <2> QED
    BY <2>1, <2>2, <2>3, <2>4, LogProcess DEF wasHandled
<1>7. CASE HandlerSucceeds(c)
  <2>1. /\ con' \in [Consumer -> ConsumerState] /\ \A d \in Consumer \ {c} : con'[d] = con[d]
        /\ con'[c].pc = "mark" /\ con'[c].at = con[c].at
    BY <1>7, Reaches DEF HandlerSucceeds, HoldsLease
  <2>2. con[c].pc = "run" /\ event(c) \in EventNo
    BY <1>7 DEF HandlerSucceeds, ProcessOK
  <2>3. UNCHANGED <<log, offset, group, marker, harm, dlq>> /\ runs' = [runs EXCEPT ![event(c)] = @ + 1]
    BY <1>7 DEF HandlerSucceeds
  <2>4. ConsumerTypeOK'
    BY <2>1, <2>2, <2>3 DEF ConsumerTypeOK, group, harm, dlq
  <2>5. /\ \A e \in EventNo : wasHandled(e) => wasHandled(e)'
        /\ \A e \in EventNo : wasHandled(e)' => wasHandled(e) \/ event(c) = e
        /\ wasHandled(event(c))'
    <3>1. /\ runs[event(c)] \in Nat /\ runs'[event(c)] = runs[event(c)] + 1
          /\ \A e \in EventNo : e # event(c) => runs'[e] = runs[e]
      BY <2>2, <2>3 DEF ConsumerTypeOK
    <3>2. event(c)' = event(c)
      BY <2>1, <2>3 DEF event
    <3> QED
      BY <3>1, <3>2 DEF wasHandled
  <2>6. ProcessOK(c)'
    BY <2>1, <2>2, <2>3, <2>5 DEF ProcessOK, event, group
  <2> QED
    BY <2>1, <2>2, <2>3, <2>4, <2>5, <2>6, LogProcess
<1>8. CASE HandlerFails(c)
  <2> DEFINE p == IF con[c].tries + 1 < MaxAttempts THEN "run" ELSE "bury"
  <2>1. con[c].pc = "run" /\ event(c) \in EventNo /\ con[c].tries < MaxAttempts /\ con[c] \in ConsumerState
    BY <1>8 DEF HandlerFails, ProcessOK, ConsumerTypeOK
  <2>2. con[c].tries + 1 \in 0..MaxAttempts
    BY <2>1, ConsumerAssumption DEF ConsumerState
  <2>3. /\ con' \in [Consumer -> ConsumerState] /\ \A d \in Consumer \ {c} : con'[d] = con[d]
        /\ con'[c].pc = p /\ con'[c].at = con[c].at /\ con'[c].tries = con[c].tries + 1
    <3> HIDE DEF p
    <3>1. con' = [con EXCEPT ![c].tries = @ + 1, ![c].pc = p]
      BY <1>8 DEF HandlerFails, p
    <3>2. p \in {"run", "bury"}
      BY DEF p
    <3> QED
      BY <2>1, <2>2, <3>1, <3>2 DEF ConsumerTypeOK, ConsumerState, HoldsLease
  <2>4. UNCHANGED <<log, offset, group, marker, runs, harm, dlq>>
    BY <1>8 DEF HandlerFails
  <2>5. ConsumerTypeOK'
    BY <2>3, <2>4 DEF ConsumerTypeOK, group, harm, dlq
  <2>6. ProcessOK(c)'
    BY <2>1, <2>2, <2>3, <2>4 DEF ProcessOK, event, group
  <2> QED
    BY <2>3, <2>4, <2>5, <2>6, LogProcess DEF wasHandled
<1>9. CASE MarkProcessed(c)
  <2>1. /\ con' \in [Consumer -> ConsumerState] /\ \A d \in Consumer \ {c} : con'[d] = con[d]
        /\ con'[c].pc = "commit" /\ con'[c].at = con[c].at
    BY <1>9, Reaches DEF MarkProcessed
  <2>2. con[c].pc = "mark" /\ event(c) \in EventNo /\ wasHandled(event(c))
    BY <1>9 DEF MarkProcessed, ProcessOK
  <2>3. UNCHANGED <<log, offset, group, runs, harm, dlq>> /\ setMarker(event(c), "processed")
    BY <1>9 DEF MarkProcessed
  <2>4. ConsumerTypeOK'
    BY <2>1, <2>3 DEF setMarker, ConsumerTypeOK, group, harm, dlq
  <2>5. settled(con[c].at)'
    BY <2>1, <2>2, <2>3 DEF settled, event, wasHandled
  <2>6. ProcessOK(c)'
    BY <2>1, <2>2, <2>3, <2>5 DEF ProcessOK, group
  <2>7. \A e \in EventNo : marker'[e] = "processed" => marker[e] = "processed" \/ wasHandled(e)
    BY <2>2, <2>3 DEF setMarker, ConsumerTypeOK
  <2> QED
    BY <2>1, <2>3, <2>4, <2>6, <2>7, LogProcess DEF wasHandled
<1>10. CASE DeadLetter(c)
  <2> DEFINE p == IF event(c) \in EventNo THEN "release" ELSE "commit"
  <2>1. /\ con' \in [Consumer -> ConsumerState] /\ \A d \in Consumer \ {c} : con'[d] = con[d]
        /\ con'[c].pc = p /\ con'[c].at = con[c].at
    <3>1. p \in {"idle", "claim", "commit"} \cup HoldsLease
      BY DEF HoldsLease
    <3> QED
      BY <1>10, <3>1, Reaches DEF DeadLetter
  <2>2. con[c].pc = "bury" /\ con[c].at \in 1..Len(log) /\ con[c].at \in Offset
    BY <1>10, <1>e DEF DeadLetter
  <2>3. UNCHANGED <<log, offset, group, marker, runs, harm, replaying>> /\ letter' = [letter EXCEPT ![con[c].at] = "dead"]
    BY <1>10 DEF DeadLetter
  <2>4. ConsumerTypeOK'
    BY <2>1, <2>3 DEF ConsumerTypeOK, group, harm
  <2>5. letter'[con[c].at] = "dead" /\ \A n \in Offset : n # con[c].at => letter'[n] = letter[n]
    BY <2>2, <2>3 DEF ConsumerTypeOK
  <2>6. event(c)' = event(c)
    BY <2>1, <2>3 DEF event
  <2>7. ProcessOK(c)'
    BY <2>1, <2>2, <2>3, <2>5, <2>6 DEF ProcessOK, group, settled
  <2>8. Forward
    BY <1>t, <2>3, <2>5 DEF Forward, wasHandled
  <2>9. \A n \in Offset : letter'[n] # "none" => n <= Len(log')
    BY <1>t, <2>2, <2>3, <2>5 DEF LettersReturn
  <2> QED
    BY <1>t, <2>1, <2>2, <2>3, <2>4, <2>5, <2>7, <2>8, <2>9, LogStep DEF group, wasHandled, MarkedWasHandled
<1>11. CASE ReleaseClaim(c)
  <2>1. /\ con' \in [Consumer -> ConsumerState] /\ \A d \in Consumer \ {c} : con'[d] = con[d]
        /\ con'[c].pc = "commit" /\ con'[c].at = con[c].at
    BY <1>11, Reaches DEF ReleaseClaim, release
  <2>2. con[c].pc = "release" /\ event(c) \in EventNo /\ letter[con[c].at] # "none"
    BY <1>11 DEF ReleaseClaim, release, ProcessOK
  <2>3. UNCHANGED <<log, offset, group, runs, harm, dlq>>
    BY <1>11 DEF ReleaseClaim, release
  <2>4. /\ marker' \in [EventNo -> Consumer \cup {NoClaim, DeadClaim, "processed"}]
        /\ \A e \in EventNo : marker'[e] = "processed" => marker[e] = "processed"
    BY <1>11, <2>2, ConsumerAssumption DEF ReleaseClaim, release, setMarker, ConsumerTypeOK
  <2>5. ConsumerTypeOK'
    BY <2>1, <2>3, <2>4 DEF ConsumerTypeOK, group, harm, dlq
  <2>6. ProcessOK(c)'
    BY <2>1, <2>2, <2>3 DEF ProcessOK, group, dlq, settled
  <2> QED
    BY <2>1, <2>3, <2>4, <2>5, <2>6, LogProcess DEF wasHandled
<1> QED
  BY <1>1, <1>2, <1>3, <1>4, <1>5, <1>6, <1>7, <1>8, <1>9, <1>10, <1>11 DEF Handle

LEMMA LogStays == LogIInv /\ [ConsumerNext]_groupVars => LogIInv'
BY LogOutside, LogHandles DEF ConsumerNext

-----------------------------------------------------------------------------
(* Who works on an event without its lease *)
LEMMA Fewer ==
  ASSUME NEW S, IsFiniteSet(S), NEW T, T \subseteq S
  PROVE  IsFiniteSet(T) /\ Cardinality(T) \in Nat /\ Cardinality(S) \in Nat /\ Cardinality(T) <= Cardinality(S)
BY FS_Subset, FS_CardinalityType

LEMMA OneMore ==
  ASSUME NEW S, IsFiniteSet(S), NEW x, NEW T, T \subseteq S \cup {x}
  PROVE  IsFiniteSet(T) /\ Cardinality(T) \in Nat /\ Cardinality(S) \in Nat /\ Cardinality(T) <= Cardinality(S) + 1
<1>1. IsFiniteSet(S \cup {x}) /\ Cardinality(S \cup {x}) <= Cardinality(S) + 1 /\ Cardinality(S) \in Nat
  BY FS_AddElement, FS_CardinalityType
<1>2. IsFiniteSet(T) /\ Cardinality(T) \in Nat /\ Cardinality(T) <= Cardinality(S \cup {x}) /\ Cardinality(S \cup {x}) \in Nat
  BY <1>1, Fewer
<1> QED
  BY <1>1, <1>2

LEMMA OneLess ==
  ASSUME NEW S, IsFiniteSet(S), NEW x \in S, NEW T, T \subseteq S \ {x}
  PROVE  IsFiniteSet(T) /\ Cardinality(T) \in Nat /\ Cardinality(S) \in Nat /\ Cardinality(T) + 1 <= Cardinality(S)
<1>1. IsFiniteSet(S \ {x}) /\ Cardinality(S \ {x}) = Cardinality(S) - 1 /\ Cardinality(S) \in Nat
  BY FS_RemoveElement, FS_CardinalityType
<1>2. IsFiniteSet(T) /\ Cardinality(T) \in Nat /\ Cardinality(T) <= Cardinality(S \ {x})
  BY <1>1, Fewer
<1> QED
  BY <1>1, <1>2

LEMMA Swapped ==
  ASSUME NEW S, IsFiniteSet(S), NEW c \in S, NEW x, NEW T, T \subseteq (S \ {c}) \cup {x}
  PROVE  IsFiniteSet(T) /\ Cardinality(T) \in Nat /\ Cardinality(S) \in Nat /\ Cardinality(T) <= Cardinality(S)
<1>1. IsFiniteSet(S \ {c}) /\ Cardinality(S \ {c}) + 1 <= Cardinality(S) /\ Cardinality(S) \in Nat
  BY OneLess
<1>2. IsFiniteSet(T) /\ Cardinality(T) \in Nat /\ Cardinality(T) <= Cardinality(S \ {c}) + 1 /\ Cardinality(S \ {c}) \in Nat
  BY <1>1, OneMore
<1> QED
  BY <1>1, <1>2

LEMMA CountTyped ==
  ASSUME LogIInv, NEW e \in EventNo, counted(e)
  PROVE  /\ IsFiniteSet(Overdue(e)) /\ IsFiniteSet(OverdueRunning(e))
         /\ Cardinality(Overdue(e)) \in Nat /\ Cardinality(OverdueRunning(e)) \in Nat
         /\ runs[e] \in Nat /\ failures \in Nat /\ expiries \in Nat
<1>1. OverdueRunning(e) \subseteq Overdue(e) /\ IsFiniteSet(Overdue(e))
  BY DEF Overdue, OverdueRunning, counted
<1> QED
  BY <1>1, Fewer, FS_CardinalityType, ConsumerAssumption DEF LogIInv, ConsumerTypeOK

\* A step that adds nobody to those at work and lets nobody leave a result unmarked.
LEMMA CountQuiet ==
  ASSUME LogIInv, NEW e \in EventNo, counted(e),
         \A n \in 1..Len(log) : log'[n] = log[n],
         \A d \in Consumer : con'[d].pc \in {"run", "mark"} => con'[d].pc = con[d].pc /\ con'[d].at = con[d].at,
         \A d \in Consumer : con[d].pc = "mark" => con'[d].pc = "mark",
         marker'[e] = marker[e], runs'[e] = runs[e], failures' \in Nat, failures <= failures', expiries' = expiries
  PROVE  counted(e)'
<1>1. \A d \in Consumer : con'[d].pc \in {"run", "mark"} => event(d)' = event(d)
  BY DEF LogIInv, ProcessOK, event
<1>2. Overdue(e)' \subseteq Overdue(e) /\ OverdueRunning(e)' \subseteq OverdueRunning(e)
  BY <1>1 DEF Overdue, OverdueRunning
<1>3. explained(e) => explained(e)'
  BY <1>1 DEF explained
<1>4. /\ IsFiniteSet(Overdue(e)') /\ Cardinality(Overdue(e)') \in Nat /\ Cardinality(OverdueRunning(e)') \in Nat
      /\ Cardinality(Overdue(e)') <= Cardinality(Overdue(e))
      /\ Cardinality(OverdueRunning(e)') <= Cardinality(OverdueRunning(e))
  BY <1>2, CountTyped, Fewer
<1> QED
  BY <1>3, <1>4, CountTyped DEF counted

LEMMA CountOutside ==
  ASSUME LogIInv, NEW e \in EventNo, counted(e),
         \/ \E m \in Message : Produce(m)
         \/ \E c \in Consumer : Rebalance(c)
         \/ \E n \in Offset : Replay(n)
         \/ ReplayDies
         \/ UNCHANGED groupVars
  PROVE  counted(e)'
<1>1. \A n \in 1..Len(log) : log'[n] = log[n]
  <2>1. ASSUME NEW m \in Message, append(m) PROVE \A n \in 1..Len(log) : log'[n] = log[n]
    BY <2>1, Appends DEF LogIInv
  <2>2. ASSUME NEW n \in Offset, ReplaySend(n) PROVE log[n] \in Message
    BY <2>2, LogTyped DEF ReplaySend, pending, Offset, LogIInv
  <2> QED
    BY <2>1, <2>2 DEF Produce, Rebalance, Replay, ReplaySend, ReplayCommit, ReplaySkip, ReplayDies, groupVars
<1>2. UNCHANGED <<con, marker, runs, expiries>>
  BY DEF Produce, Rebalance, Replay, ReplaySend, ReplayCommit, ReplaySkip, ReplayDies, groupVars, harm, dlq
<1>3. failures' \in {failures, failures + 1}
  BY DEF Produce, Rebalance, Replay, ReplaySend, ReplayCommit, ReplaySkip, ReplayDies, groupVars, harm, dlq
<1> QED
  BY <1>1, <1>2, <1>3, CountQuiet, CountTyped

LEMMA CountProcess ==
  ASSUME LogIInv, LogIInv', NEW c \in Consumer, NEW e \in EventNo, counted(e),
         Fetch(c) \/ Handle(c) \/ CommitOffset(c) \/ Fails(c)
  PROVE  counted(e)'
<1> USE DEF LogIInv
<1> DEFINE here == event(c) = e
<1>t. /\ IsFiniteSet(Overdue(e)) /\ IsFiniteSet(OverdueRunning(e))
      /\ Cardinality(Overdue(e)) \in Nat /\ Cardinality(OverdueRunning(e)) \in Nat
      /\ runs[e] \in Nat /\ failures \in Nat /\ expiries \in Nat
      /\ Cardinality(Overdue(e)) <= expiries
      /\ runs[e] + Cardinality(OverdueRunning(e)) <= failures + expiries + (IF explained(e) THEN 1 ELSE 0)
  BY CountTyped DEF counted
<1>w. con[c].pc \in {"claim", "run", "mark", "release"} => event(c) \in EventNo
  BY DEF ProcessOK
<1>n. NoClaim \notin Consumer /\ DeadClaim \notin Consumer /\ "processed" \notin Consumer
      /\ NoClaim # "processed" /\ DeadClaim # "processed"
  BY ConsumerAssumption
<1>m. marker[e] \in Consumer \cup {NoClaim, DeadClaim, "processed"} /\ marker \in [EventNo -> Consumer \cup {NoClaim, DeadClaim, "processed"}]
  BY DEF ConsumerTypeOK
<1>1. CASE Fetch(c) \/ AlreadyProcessed(c) \/ ClaimTimesOut(c) \/ CommitOffset(c)
  <2>1. UNCHANGED <<log, marker, runs, failures, expiries>>
    BY <1>1 DEF Fetch, AlreadyProcessed, ClaimTimesOut, CommitOffset, harm
  <2>2. con[c].pc \in {"idle", "claim", "commit"} /\ con'[c].pc \notin {"run", "mark"}
    <3>1. CASE Fetch(c)
      BY <3>1 DEF Fetch, ConsumerTypeOK
    <3>2. CASE AlreadyProcessed(c)
      BY <3>2, Reaches DEF AlreadyProcessed
    <3>3. CASE ClaimTimesOut(c) \/ CommitOffset(c)
      BY <3>3, Drops DEF ClaimTimesOut, CommitOffset
    <3> QED
      BY <1>1, <3>1, <3>2, <3>3
  <2>3. \A d \in Consumer \ {c} : con'[d] = con[d]
    BY <1>1 DEF Fetch, AlreadyProcessed, ClaimTimesOut, CommitOffset, reach, drop, ConsumerTypeOK
  <2> QED
    BY <1>t, <2>1, <2>2, <2>3, CountQuiet
<1>2. CASE DeadLetter(c) \/ HandlerFails(c)
  <2>1. UNCHANGED <<log, marker, runs, failures, expiries>>
    BY <1>2 DEF DeadLetter, HandlerFails, harm
  <2>2. con[c].pc \in {"run", "bury"} /\ con'[c].pc # "mark" /\ (con'[c].pc = "run" => con[c].pc = "run" /\ con'[c].at = con[c].at)
    <3>1. CASE DeadLetter(c)
      BY <3>1 DEF DeadLetter, reach, ConsumerTypeOK
    <3>2. CASE HandlerFails(c)
      BY <3>2 DEF HandlerFails, ConsumerTypeOK, ConsumerState
    <3> QED
      BY <1>2, <3>1, <3>2
  <2>3. \A d \in Consumer \ {c} : con'[d] = con[d]
    BY <1>2 DEF DeadLetter, HandlerFails, reach, ConsumerTypeOK
  <2> QED
    BY <1>t, <2>1, <2>2, <2>3, CountQuiet
<1>3. CASE TryAcquire(c)
  <2>1. /\ con'[c].pc = "run" /\ con[c].pc = "claim" /\ con'[c].at = con[c].at
        /\ \A d \in Consumer \ {c} : con'[d] = con[d]
    BY <1>3, Reaches DEF TryAcquire, tryAcquire, HoldsLease
  <2>2. UNCHANGED <<log, runs, failures, expiries>> /\ setMarker(event(c), c) /\ marker[event(c)] = NoClaim
    BY <1>3 DEF TryAcquire, tryAcquire, harm
  <2>3. \A d \in Consumer : event(d)' = event(d)
    BY <2>1, <2>2 DEF event
  <2>4. IF here THEN marker[e] = NoClaim /\ marker'[e] = c ELSE marker'[e] = marker[e]
    BY <1>m, <2>2 DEF setMarker
  <2>5. Overdue(e)' \subseteq Overdue(e) /\ OverdueRunning(e)' \subseteq OverdueRunning(e)
    BY <1>n, <2>1, <2>3, <2>4 DEF Overdue, OverdueRunning
  <2>6. explained(e) => explained(e)'
    BY <1>n, <2>1, <2>3, <2>4 DEF explained
  <2> QED
    BY <1>t, <2>2, <2>5, <2>6, Fewer DEF counted
<1>4. CASE HandlerSucceeds(c)
  <2>1. /\ con'[c].pc = "mark" /\ con[c].pc = "run" /\ con'[c].at = con[c].at
        /\ \A d \in Consumer \ {c} : con'[d] = con[d]
    BY <1>4, Reaches DEF HandlerSucceeds, HoldsLease
  <2>2. UNCHANGED <<log, marker, failures, expiries>> /\ runs' = [runs EXCEPT ![event(c)] = @ + 1]
    BY <1>4 DEF HandlerSucceeds, harm
  <2>3. \A d \in Consumer : event(d)' = event(d)
    BY <2>1, <2>2 DEF event
  <2>4. runs'[e] = IF here THEN runs[e] + 1 ELSE runs[e]
    BY <2>2 DEF ConsumerTypeOK
  <2>5. Overdue(e)' \subseteq Overdue(e) /\ OverdueRunning(e)' \subseteq OverdueRunning(e) \ {c}
    BY <2>1, <2>2, <2>3 DEF Overdue, OverdueRunning
  <2>6. explained(e) => explained(e)'
    BY <2>1, <2>2, <2>3 DEF explained
  <2>7. IsFiniteSet(Overdue(e)') /\ Cardinality(Overdue(e)') <= expiries'
    BY <1>t, <2>2, <2>5, Fewer
  <2>8. CASE here /\ marker[e] = c
    <3>1. ~explained(e) /\ explained(e)'
      BY <1>n, <2>1, <2>2, <2>3, <2>8 DEF explained
    <3>2. Cardinality(OverdueRunning(e)') \in Nat /\ Cardinality(OverdueRunning(e)') <= Cardinality(OverdueRunning(e))
      BY <1>t, <2>5, Fewer
    <3> QED
      BY <1>t, <2>2, <2>4, <2>7, <2>8, <3>1, <3>2 DEF counted
  <2>9. CASE here /\ marker[e] # c
    <3>1. c \in OverdueRunning(e)
      BY <2>1, <2>9 DEF OverdueRunning
    <3>2. Cardinality(OverdueRunning(e)') \in Nat /\ Cardinality(OverdueRunning(e)') + 1 <= Cardinality(OverdueRunning(e))
      BY <1>t, <2>5, <3>1, OneLess
    <3> QED
      BY <1>t, <2>2, <2>4, <2>6, <2>7, <2>9, <3>2 DEF counted
  <2>10. CASE ~here
    <3>2. Cardinality(OverdueRunning(e)') \in Nat /\ Cardinality(OverdueRunning(e)') <= Cardinality(OverdueRunning(e))
      BY <1>t, <2>5, Fewer
    <3> QED
      BY <1>t, <2>2, <2>4, <2>6, <2>7, <2>10, <3>2 DEF counted
  <2> QED
    BY <2>8, <2>9, <2>10
<1>5. CASE MarkProcessed(c)
  <2>1. /\ con'[c].pc = "commit" /\ con[c].pc = "mark" /\ con'[c].at = con[c].at
        /\ \A d \in Consumer \ {c} : con'[d] = con[d]
    BY <1>5, Reaches DEF MarkProcessed
  <2>2. UNCHANGED <<log, runs, failures, expiries>> /\ setMarker(event(c), "processed")
    BY <1>5 DEF MarkProcessed, harm
  <2>3. \A d \in Consumer : event(d)' = event(d)
    BY <2>1, <2>2 DEF event
  <2>4. marker'[e] = IF here THEN "processed" ELSE marker[e]
    BY <1>m, <2>2 DEF setMarker
  <2>5. CASE ~here
    <3>1. Overdue(e)' \subseteq Overdue(e) /\ OverdueRunning(e)' \subseteq OverdueRunning(e)
      BY <2>1, <2>3, <2>4, <2>5 DEF Overdue, OverdueRunning
    <3>2. explained(e) => explained(e)'
      BY <2>1, <2>3, <2>4, <2>5 DEF explained
    <3> QED
      BY <1>t, <2>2, <3>1, <3>2, Fewer DEF counted
  <2>6. CASE here
    <3> DEFINE x == marker[e]
    <3>1. explained(e)'
      BY <2>4, <2>6 DEF explained
    <3>2. IsFiniteSet(Overdue(e)') /\ Cardinality(Overdue(e)') <= expiries'
      <4>1. CASE x = c
        <5>1. Overdue(e)' \subseteq Overdue(e)
          BY <2>1, <2>3, <4>1 DEF Overdue
        <5> QED
          BY <1>t, <2>2, <5>1, Fewer
      <4>2. CASE x # c
        <5>1. c \in Overdue(e) /\ Overdue(e)' \subseteq (Overdue(e) \ {c}) \cup {x}
          BY <2>1, <2>3, <2>6, <4>2 DEF Overdue
        <5>2. /\ IsFiniteSet(Overdue(e)') /\ Cardinality(Overdue(e)') \in Nat
              /\ Cardinality(Overdue(e)') <= Cardinality(Overdue(e))
          BY <1>t, <5>1, Swapped
        <5> QED
          BY <1>t, <2>2, <5>2
      <4> QED
        BY <4>1, <4>2
    <3>3. CASE x \in Consumer /\ con[x].pc = "run"
      <4>1. ~explained(e)
        BY <1>n, <3>3 DEF explained
      <4>2. OverdueRunning(e)' \subseteq OverdueRunning(e) \cup {x}
        BY <2>1, <2>3 DEF OverdueRunning
      <4>3. /\ Cardinality(OverdueRunning(e)') \in Nat
            /\ Cardinality(OverdueRunning(e)') <= Cardinality(OverdueRunning(e)) + 1
        BY <1>t, <4>2, OneMore
      <4> QED
        BY <1>t, <2>2, <3>1, <3>2, <4>1, <4>3 DEF counted
    <3>4. CASE ~(x \in Consumer /\ con[x].pc = "run")
      <4>1. OverdueRunning(e)' \subseteq OverdueRunning(e)
        BY <2>1, <2>3, <3>4 DEF OverdueRunning
      <4>2. Cardinality(OverdueRunning(e)') \in Nat /\ Cardinality(OverdueRunning(e)') <= Cardinality(OverdueRunning(e))
        BY <1>t, <4>1, Fewer
      <4> QED
        BY <1>t, <2>2, <3>1, <3>2, <4>2 DEF counted
    <3> QED
      BY <3>3, <3>4
  <2> QED
    BY <2>5, <2>6
<1>6. CASE ReleaseClaim(c)
  <2>1. /\ con'[c].pc = "commit" /\ con[c].pc = "release" /\ con'[c].at = con[c].at
        /\ \A d \in Consumer \ {c} : con'[d] = con[d]
    BY <1>6, Reaches DEF ReleaseClaim, release
  <2>2. UNCHANGED <<log, runs, failures, expiries>>
    BY <1>6 DEF ReleaseClaim, release, harm
  <2>3. \A d \in Consumer : event(d)' = event(d)
    BY <2>1, <2>2 DEF event
  <2>4. marker'[e] = IF here /\ marker[e] = c THEN NoClaim ELSE marker[e]
    BY <1>6, <1>m DEF ReleaseClaim, release, setMarker
  <2>5. Overdue(e)' \subseteq Overdue(e) /\ OverdueRunning(e)' \subseteq OverdueRunning(e)
    BY <2>1, <2>3, <2>4 DEF Overdue, OverdueRunning
  <2>6. explained(e) => explained(e)'
    BY <1>n, <2>1, <2>3, <2>4 DEF explained
  <2> QED
    BY <1>t, <2>2, <2>5, <2>6, Fewer DEF counted
<1>7. CASE Fails(c)
  <2>1. con'[c].pc = "idle" /\ \A d \in Consumer \ {c} : con'[d] = con[d]
    BY <1>7, Drops DEF Fails
  <2>2. UNCHANGED <<log, runs, expiries>> /\ failures' = failures + 1
    BY <1>7 DEF Fails
  <2>3. \A d \in Consumer \ {c} : event(d)' = event(d)
    BY <2>1, <2>2 DEF event
  <2>4. marker'[e] = IF marker[e] = c THEN DeadClaim ELSE marker[e]
    BY <1>7 DEF Fails
  <2>5. Overdue(e)' \subseteq Overdue(e) /\ OverdueRunning(e)' \subseteq OverdueRunning(e)
    BY <2>1, <2>3, <2>4 DEF Overdue, OverdueRunning
  <2> QED
    BY <1>t, <2>2, <2>5, Fewer DEF counted
<1> QED
  BY <1>1, <1>2, <1>3, <1>4, <1>5, <1>6, <1>7 DEF Handle

LEMMA CountExpiry ==
  ASSUME LogIInv, NEW f \in EventNo, NEW e \in EventNo, counted(e), ClaimExpires(f)
  PROVE  counted(e)'
<1> DEFINE x == marker[e]
<1>t. /\ IsFiniteSet(Overdue(e)) /\ IsFiniteSet(OverdueRunning(e))
      /\ Cardinality(Overdue(e)) \in Nat /\ Cardinality(OverdueRunning(e)) \in Nat
      /\ runs[e] \in Nat /\ failures \in Nat /\ expiries \in Nat
      /\ Cardinality(Overdue(e)) <= expiries
      /\ runs[e] + Cardinality(OverdueRunning(e)) <= failures + expiries + (IF explained(e) THEN 1 ELSE 0)
  BY CountTyped DEF counted
<1>n. DeadClaim \notin Consumer /\ "processed" \notin Consumer /\ DeadClaim # "processed"
  BY ConsumerAssumption
<1>1. /\ UNCHANGED <<log, con, runs, failures>>
      /\ marker'[e] = IF e = f THEN NoClaim ELSE x
  BY DEF ClaimExpires, setMarker, LogIInv, ConsumerTypeOK
<1>2. \A d \in Consumer : event(d)' = event(d)
  BY <1>1 DEF event
<1>3. CASE e # f
  <2>1. UNCHANGED <<Overdue(e), OverdueRunning(e), explained(e)>>
    BY <1>1, <1>2, <1>3 DEF Overdue, OverdueRunning, explained
  <2>2. expiries' \in {expiries, expiries + 1}
    BY DEF ClaimExpires
  <2> QED
    BY <1>t, <1>1, <2>1, <2>2 DEF counted
<1>4. CASE e = f /\ x = DeadClaim
  <2>1. Overdue(e)' \subseteq Overdue(e) /\ OverdueRunning(e)' \subseteq OverdueRunning(e) /\ ~explained(e)
    BY <1>1, <1>2, <1>4, <1>n DEF Overdue, OverdueRunning, explained
  <2>2. expiries' = expiries
    BY <1>4 DEF ClaimExpires
  <2> QED
    BY <1>t, <1>1, <2>1, <2>2, Fewer DEF counted
<1>5. CASE e = f /\ x # DeadClaim
  <2>1. Overdue(e)' \subseteq Overdue(e) \cup {x} /\ OverdueRunning(e)' \subseteq OverdueRunning(e) \cup {x}
    BY <1>1, <1>2 DEF Overdue, OverdueRunning
  <2>2. expiries' = expiries + 1 /\ x \in Consumer
    BY <1>5 DEF ClaimExpires
  <2>3. IsFiniteSet(Overdue(e)') /\ Cardinality(Overdue(e)') <= expiries'
    <3>1. /\ IsFiniteSet(Overdue(e)') /\ Cardinality(Overdue(e)') \in Nat
          /\ Cardinality(Overdue(e)') <= Cardinality(Overdue(e)) + 1
      BY <1>t, <2>1, OneMore
    <3> QED
      BY <1>t, <2>2, <3>1
  <2>4. CASE con[x].pc = "run"
    <3>1. ~explained(e)
      BY <1>n, <2>2, <2>4 DEF explained
    <3>2. /\ Cardinality(OverdueRunning(e)') \in Nat
          /\ Cardinality(OverdueRunning(e)') <= Cardinality(OverdueRunning(e)) + 1
      BY <1>t, <2>1, OneMore
    <3> QED
      BY <1>t, <1>1, <2>2, <2>3, <3>1, <3>2 DEF counted
  <2>5. CASE con[x].pc # "run"
    <3>1. OverdueRunning(e)' \subseteq OverdueRunning(e)
      BY <1>1, <1>2, <2>2, <2>5 DEF OverdueRunning
    <3>2. Cardinality(OverdueRunning(e)') \in Nat /\ Cardinality(OverdueRunning(e)') <= Cardinality(OverdueRunning(e))
      BY <1>t, <3>1, Fewer
    <3> QED
      BY <1>t, <1>1, <2>2, <2>3, <3>2 DEF counted
  <2> QED
    BY <2>4, <2>5
<1> QED
  BY <1>3, <1>4, <1>5

-----------------------------------------------------------------------------
LEMMA GroupInvariant == ConsumerSpec => []GroupIInv
<1>1. GroupIInv /\ [ConsumerNext]_groupVars => GroupIInv'
  <2> SUFFICES ASSUME GroupIInv, [ConsumerNext]_groupVars PROVE GroupIInv'
    OBVIOUS
  <2>1. LogIInv'
    BY LogStays DEF GroupIInv
  <2>2. ASSUME NEW e \in EventNo PROVE counted(e)'
    BY <2>1, CountOutside, CountProcess, CountExpiry DEF GroupIInv, OverdueCounted, ConsumerNext
  <2> QED
    BY <2>1, <2>2 DEF GroupIInv, OverdueCounted
<1> QED
  BY <1>1, ConsumerStarts, PTL DEF ConsumerSpec

(***************************************************************************)
(* Whatever processes die, calls fail, leases run out and partitions move: *)
(* no event the group is done with is lost, events are first handled in    *)
(* the partition's order, a marker stands for a handler that finished, and *)
(* a handler runs again only for a failure or an expired lease             *)
(* (KafkaConsumerService.handleMessage, EventIdempotencyService).          *)
(***************************************************************************)
THEOREM GroupCorrect == ConsumerSpec => []GroupInv
<1>1. ASSUME GroupIInv PROVE NothingLost
  BY <1>1, LogTyped DEF GroupIInv, LogIInv, NothingLost, SettledBehind, settled, LettersReturn, comesAgain, ConsumerTypeOK
<1>2. ASSUME GroupIInv PROVE OrderKept
  <2> SUFFICES ASSUME NEW n \in 1..Len(log), log[n] \in EventNo, wasHandled(log[n]),
                      \A k \in 1..(n - 1) : log[k] # log[n],
                      NEW k \in 1..(n - 1)
               PROVE  settled(k)
    BY <1>1, LogTyped DEF OrderKept, settled, GroupIInv, LogIInv
  <2>1. PICK m \in 1..Len(log) : m <= offset + 1 /\ log[m] = log[n]
    BY <1>2 DEF GroupIInv, LogIInv, HandledWasReached
  <2>2. m \notin 1..(n - 1)
    BY <2>1
  <2>3. offset \in 0..Len(log) /\ Len(log) \in Nat
    BY <1>2, LogTyped DEF GroupIInv, LogIInv
  <2>4. k \in 1..offset
    BY <2>1, <2>2, <2>3
  <2> QED
    BY <1>2, <2>4 DEF GroupIInv, LogIInv, SettledBehind
<1>3. ASSUME GroupIInv PROVE OneHandler
  <2> SUFFICES ASSUME NEW e \in EventNo
               PROVE  Cardinality({c \in Consumer : con[c].pc = "run" /\ event(c) = e}) <= 1 + expiries
    BY DEF OneHandler
  <2>1. counted(e) /\ expiries \in Nat
    BY <1>3, CountTyped DEF GroupIInv, OverdueCounted
  <2>2. {c \in Consumer : con[c].pc = "run" /\ event(c) = e} \subseteq Overdue(e) \cup {marker[e]}
    BY DEF Overdue
  <2> QED
    BY <2>1, <2>2, OneMore DEF counted
<1>4. ASSUME GroupIInv PROVE HandledOnce
  <2> SUFFICES ASSUME NEW e \in EventNo PROVE runs[e] <= 1 + failures + expiries
    BY DEF HandledOnce
  <2>1. counted(e)
    BY <1>4 DEF GroupIInv, OverdueCounted
  <2> QED
    BY <1>4, <2>1, CountTyped DEF counted, GroupIInv
<1>5. GroupIInv => GroupInv
  BY <1>1, <1>2, <1>3, <1>4 DEF GroupInv, GroupIInv, LogIInv
<1> QED
  BY <1>5, GroupInvariant, PTL

-----------------------------------------------------------------------------
(* The customer's notifications (Notifications) *)

\* An event told by the worker that has it, or by one that was done with it.
isTold(n) == receipt[n] = "processed" \/ \E w \in Worker : worker[w].pc = "mark" /\ worker[w].notice = n

\* A worker at work has a claimed event to itself.
ClaimsHeld ==
  /\ \A w \in Worker : worker[w].pc # "idle" => worker[w].notice \in Notice /\ receipt[worker[w].notice] = "claimed"
  /\ \A v, w \in Worker : worker[v].pc # "idle" /\ worker[w].pc # "idle" /\ worker[v].notice = worker[w].notice => v = w
  /\ \A n \in Notice : receipt[n] # "free" => notice[n].kind # "none"

RowsTheirOwn ==
  \A i \in DOMAIN inbox : /\ inbox[i].user = notice[inbox[i].notice].customer
                          /\ notifies(inbox[i].notice)

\* An event was told once, and once more for each handling lost after its insert.
RowsCounted ==
  \A n \in Notice :
    /\ notifies(n) => Cardinality(rowsOf(n)) = repeats[n] + (IF isTold(n) THEN 1 ELSE 0)
    /\ ~notifies(n) => repeats[n] = 0

InboxIInv == NotificationsTypeOK /\ ClaimsHeld /\ RowsTheirOwn /\ RowsCounted /\ ReadByItsOwn

LEMMA InboxTypes ==
  ASSUME InboxIInv
  PROVE  /\ inbox \in Seq(Row) /\ Len(inbox) \in Nat /\ DOMAIN inbox = 1..Len(inbox)
         /\ \A i \in DOMAIN inbox : inbox[i] \in Row /\ inbox[i].notice \in Notice /\ inbox[i].user \in Person
         /\ \A n \in Notice : /\ repeats[n] \in 0..MaxRepeats
                              /\ notice[n].customer \in Person \cup {NoPerson}
                              /\ notice[n].kind \in NoticeKind \cup {"none"}
<1>1. inbox \in Seq(Row) /\ Len(inbox) \in Nat /\ DOMAIN inbox = 1..Len(inbox)
  BY DEF InboxIInv, NotificationsTypeOK
<1>2. \A i \in DOMAIN inbox : inbox[i] \in Row
  BY <1>1
<1>3. \A i \in DOMAIN inbox : inbox[i].notice \in Notice /\ inbox[i].user \in Person
  BY <1>2 DEF Row
<1>4. \A n \in Notice : /\ repeats[n] \in 0..MaxRepeats
                        /\ notice[n].customer \in Person \cup {NoPerson}
                        /\ notice[n].kind \in NoticeKind \cup {"none"}
  BY DEF InboxIInv, NotificationsTypeOK
<1> QED
  BY <1>1, <1>2, <1>3, <1>4

LEMMA InboxStart == NotificationsInit => InboxIInv
<1> SUFFICES ASSUME NotificationsInit PROVE InboxIInv
  OBVIOUS
<1> USE NotificationsAssumption DEF NotificationsInit
<1>1. NoNotice.kind = "none" /\ NoNotice.customer = NoPerson
      /\ NoNotice \in [kind : NoticeKind \cup {"none"}, customer : Person \cup {NoPerson}]
  BY DEF NoNotice
<1>2. WorkerIdle.pc = "idle" /\ WorkerIdle \in [pc : {"idle", "handle", "mark"}, notice : Notice \cup {NoPerson}]
  BY DEF WorkerIdle
<1>3. inbox \in Seq(Row) /\ DOMAIN inbox = {}
  OBVIOUS
<1>4. NotificationsTypeOK
  BY <1>1, <1>2, <1>3 DEF NotificationsTypeOK
<1>5. ClaimsHeld
  BY <1>2 DEF ClaimsHeld
<1>6. RowsTheirOwn /\ ReadByItsOwn
  BY <1>3 DEF RowsTheirOwn, ReadByItsOwn
<1>7. RowsCounted
  <2>1. \A n \in Notice : ~notifies(n)
    BY <1>1 DEF notifies
  <2> QED
    BY <2>1 DEF RowsCounted
<1> QED
  BY <1>4, <1>5, <1>6, <1>7 DEF InboxIInv

-----------------------------------------------------------------------------
LEMMA PublishNoticeStep ==
  ASSUME InboxIInv, NEW n \in Notice, NEW kind \in NoticeKind, NEW c \in Person \cup {NoPerson},
         PublishNotice(n, kind, c)
  PROVE  InboxIInv'
<1>1. /\ notice[n] = NoNotice /\ UNCHANGED <<receipt, worker, inbox, repeats>>
      /\ notice' = [notice EXCEPT ![n] = [kind |-> kind, customer |-> c]]
  BY DEF PublishNotice
<1>2. /\ notice' \in [Notice -> [kind : NoticeKind \cup {"none"}, customer : Person \cup {NoPerson}]]
      /\ \A m \in Notice \ {n} : notice'[m] = notice[m]
      /\ notice'[n].kind = kind
  BY <1>1 DEF InboxIInv, NotificationsTypeOK
<1>3. notice[n].kind = "none" /\ kind # "none" /\ ~notifies(n)
  BY <1>1 DEF NoNotice, NoticeKind, notifies
<1>4. NotificationsTypeOK'
  BY <1>1, <1>2 DEF InboxIInv, NotificationsTypeOK
<1>5. ClaimsHeld'
  BY <1>1, <1>2, <1>3 DEF InboxIInv, ClaimsHeld
<1>6. \A i \in DOMAIN inbox : inbox[i].notice \in Notice \ {n}
  BY <1>3, InboxTypes DEF InboxIInv, RowsTheirOwn
<1>7. RowsTheirOwn' /\ ReadByItsOwn'
  BY <1>1, <1>2, <1>6 DEF InboxIInv, RowsTheirOwn, ReadByItsOwn, isRead, notifies
<1>8. ASSUME NEW m \in Notice PROVE (/\ notifies(m) => Cardinality(rowsOf(m)) = repeats[m] + (IF isTold(m) THEN 1 ELSE 0)
                                     /\ ~notifies(m) => repeats[m] = 0)'
  <2>1. CASE m # n
    BY <1>1, <1>2, <2>1 DEF InboxIInv, RowsCounted, notifies, rowsOf, isTold
  <2>2. CASE m = n
    <3>1. rowsOf(n)' = {} /\ Cardinality({}) = 0
      BY <1>1, <1>6, FS_EmptySet DEF rowsOf
    <3>2. repeats'[n] = 0
      BY <1>1, <1>3 DEF InboxIInv, RowsCounted
    <3>3. ~isTold(n)'
      <4>1. receipt[n] = "free"
        BY <1>3 DEF InboxIInv, ClaimsHeld
      <4> QED
        BY <1>1, <4>1 DEF InboxIInv, ClaimsHeld, isTold
    <3> QED
      BY <2>2, <3>1, <3>2, <3>3
  <2> QED
    BY <2>1, <2>2
<1> QED
  BY <1>4, <1>5, <1>7, <1>8 DEF InboxIInv, RowsCounted

LEMMA ClaimNoticeStep ==
  ASSUME InboxIInv, NEW w \in Worker, NEW n \in Notice, ClaimNotice(w, n)
  PROVE  InboxIInv'
<1>1. /\ worker[w].pc = "idle" /\ receipt[n] = "free" /\ notice[n].kind \in {"told", "ownCancellation"}
      /\ receipt' = [receipt EXCEPT ![n] = "claimed"]
      /\ worker' = [worker EXCEPT ![w] = [pc |-> "handle", notice |-> n]]
      /\ UNCHANGED <<notice, inbox, repeats>>
  BY DEF ClaimNotice, put, handling
<1>2. /\ receipt' \in [Notice -> {"free", "claimed", "processed", "dead"}] /\ receipt'[n] = "claimed"
      /\ \A m \in Notice \ {n} : receipt'[m] = receipt[m]
      /\ worker' \in [Worker -> [pc : {"idle", "handle", "mark"}, notice : Notice \cup {NoPerson}]]
      /\ worker'[w].pc = "handle" /\ worker'[w].notice = n
      /\ \A v \in Worker \ {w} : worker'[v] = worker[v]
  BY <1>1 DEF InboxIInv, NotificationsTypeOK
<1>3. \A v \in Worker : worker[v].pc # "idle" => worker[v].notice # n
  BY <1>1 DEF InboxIInv, ClaimsHeld
<1>4. NotificationsTypeOK'
  BY <1>1, <1>2 DEF InboxIInv, NotificationsTypeOK
<1>5. ClaimsHeld'
  BY <1>1, <1>2, <1>3 DEF InboxIInv, ClaimsHeld
<1>6. RowsTheirOwn' /\ ReadByItsOwn'
  BY <1>1 DEF InboxIInv, RowsTheirOwn, ReadByItsOwn, isRead, notifies
<1>7. \A m \in Notice : isTold(m)' = isTold(m)
  BY <1>1, <1>2, <1>3 DEF isTold
<1>8. RowsCounted'
  BY <1>1, <1>7 DEF InboxIInv, RowsCounted, notifies, rowsOf
<1> QED
  BY <1>4, <1>5, <1>6, <1>8 DEF InboxIInv

\* The row of one event is written: it is counted with that event's rows.
LEMMA RowWritten ==
  ASSUME InboxIInv, NEW n \in Notice, notifies(n), inbox' = Append(inbox, rowFor(n)), UNCHANGED notice
  PROVE  /\ inbox' \in Seq(Row) /\ RowsTheirOwn' /\ ReadByItsOwn'
         /\ Cardinality(rowsOf(n)') = Cardinality(rowsOf(n)) + 1
         /\ \A m \in Notice \ {n} : rowsOf(m)' = rowsOf(m)
<1> DEFINE k == Len(inbox) + 1
           r == rowFor(n)
<1>1. r \in Row /\ r.notice = n /\ r.user = notice[n].customer /\ r.read = NoPerson
  BY InboxTypes DEF notifies, rowFor, Row
<1> HIDE DEF r
<1>2. /\ inbox' \in Seq(Row) /\ DOMAIN inbox' = 1..k /\ inbox'[k] = r
      /\ \A i \in DOMAIN inbox : inbox'[i] = inbox[i]
      /\ DOMAIN inbox = 1..(k - 1) /\ k \in Nat
  BY <1>1, InboxTypes DEF r
<1>3. \A i \in DOMAIN inbox' : i \in DOMAIN inbox \/ i = k
  BY <1>2
<1>4. RowsTheirOwn'
  BY <1>1, <1>2, <1>3 DEF InboxIInv, RowsTheirOwn, notifies
<1>5. ReadByItsOwn'
  BY <1>1, <1>2, <1>3 DEF InboxIInv, ReadByItsOwn, isRead
<1>6. \A m \in Notice \ {n} : rowsOf(m)' = rowsOf(m)
  BY <1>1, <1>2, <1>3 DEF rowsOf
<1>7. rowsOf(n)' = rowsOf(n) \cup {k} /\ k \notin rowsOf(n)
  BY <1>1, <1>2, <1>3 DEF rowsOf
<1>8. IsFiniteSet(rowsOf(n))
  <2>1. rowsOf(n) \subseteq 1..Len(inbox) /\ IsFiniteSet(1..Len(inbox))
    BY <1>2, InboxTypes, FS_Interval DEF rowsOf
  <2> QED
    BY <2>1, FS_Subset
<1>9. Cardinality(rowsOf(n)') = Cardinality(rowsOf(n)) + 1
  BY <1>7, <1>8, FS_AddElement
<1> QED
  BY <1>2, <1>4, <1>5, <1>6, <1>9

LEMMA CreateNotificationStep ==
  ASSUME InboxIInv, NEW w \in Worker, CreateNotification(w)
  PROVE  InboxIInv'
<1>1. PICK n : n = worker[w].notice
  OBVIOUS
<1>2. /\ worker[w].pc = "handle" /\ n \in Notice /\ receipt[n] = "claimed"
      /\ worker' = [worker EXCEPT ![w] = [worker[w] EXCEPT !.pc = "mark"]]
      /\ UNCHANGED <<notice, receipt, repeats>>
      /\ inbox' = IF notifies(n) THEN Append(inbox, rowFor(n)) ELSE inbox
  BY <1>1 DEF CreateNotification, put, handling, InboxIInv, ClaimsHeld
<1>3. /\ worker' \in [Worker -> [pc : {"idle", "handle", "mark"}, notice : Notice \cup {NoPerson}]]
      /\ worker'[w].pc = "mark" /\ worker'[w].notice = n
      /\ \A v \in Worker \ {w} : worker'[v] = worker[v]
  BY <1>1, <1>2 DEF InboxIInv, NotificationsTypeOK
<1>4. ClaimsHeld'
  BY <1>1, <1>2, <1>3 DEF InboxIInv, ClaimsHeld
<1>5. ~isTold(n) /\ isTold(n)' /\ \A m \in Notice \ {n} : isTold(m)' = isTold(m)
  BY <1>1, <1>2, <1>3 DEF InboxIInv, ClaimsHeld, isTold
<1>6. CASE notifies(n)
  <2>1. /\ inbox' \in Seq(Row) /\ RowsTheirOwn' /\ ReadByItsOwn'
        /\ Cardinality(rowsOf(n)') = Cardinality(rowsOf(n)) + 1
        /\ \A m \in Notice \ {n} : rowsOf(m)' = rowsOf(m)
    BY <1>2, <1>6, RowWritten
  <2>2. NotificationsTypeOK'
    BY <1>2, <1>3, <2>1 DEF InboxIInv, NotificationsTypeOK
  <2>3. Cardinality(rowsOf(n)) = repeats[n] /\ repeats[n] \in Nat
    BY <1>2, <1>5, <1>6, InboxTypes DEF InboxIInv, RowsCounted
  <2>4. ASSUME NEW m \in Notice
        PROVE  /\ notifies(m)' => Cardinality(rowsOf(m)') = repeats'[m] + (IF isTold(m)' THEN 1 ELSE 0)
               /\ ~notifies(m)' => repeats'[m] = 0
    <3>1. CASE m = n
      BY <1>2, <1>5, <1>6, <2>1, <2>3, <3>1 DEF notifies
    <3>2. CASE m # n
      BY <1>2, <1>5, <2>1, <3>2 DEF InboxIInv, RowsCounted, notifies
    <3> QED
      BY <3>1, <3>2
  <2>5. RowsCounted'
    BY <2>4 DEF RowsCounted
  <2> QED
    BY <1>4, <2>1, <2>2, <2>5 DEF InboxIInv
<1>7. CASE ~notifies(n)
  <2>1. inbox' = inbox
    BY <1>2, <1>7
  <2>2. NotificationsTypeOK'
    BY <1>2, <1>3, <2>1 DEF InboxIInv, NotificationsTypeOK
  <2>3. RowsTheirOwn' /\ ReadByItsOwn'
    BY <1>2, <2>1 DEF InboxIInv, RowsTheirOwn, ReadByItsOwn, isRead, notifies
  <2>4. RowsCounted'
    BY <1>2, <1>5, <1>7, <2>1 DEF InboxIInv, RowsCounted, notifies, rowsOf
  <2> QED
    BY <1>4, <2>2, <2>3, <2>4 DEF InboxIInv
<1> QED
  BY <1>6, <1>7

\* A worker lets its event go.
LEMMA WorkerEnds ==
  ASSUME InboxIInv, NEW w \in Worker, worker[w].pc # "idle",
         NEW n, n = worker[w].notice, NEW after \in {"free", "dead", "processed"},
         receipt' = [receipt EXCEPT ![n] = after], worker' = [worker EXCEPT ![w] = WorkerIdle],
         UNCHANGED notice
  PROVE  /\ n \in Notice /\ notice[n].kind # "none"
         /\ receipt' \in [Notice -> {"free", "claimed", "processed", "dead"}]
         /\ worker' \in [Worker -> [pc : {"idle", "handle", "mark"}, notice : Notice \cup {NoPerson}]]
         /\ ClaimsHeld'
         /\ isTold(n) <=> worker[w].pc = "mark"
         /\ isTold(n)' <=> after = "processed"
         /\ \A m \in Notice \ {n} : isTold(m)' = isTold(m)
<1>1. n \in Notice /\ receipt[n] = "claimed" /\ notice[n].kind # "none"
  BY DEF InboxIInv, ClaimsHeld
<1>2. WorkerIdle.pc = "idle" /\ WorkerIdle \in [pc : {"idle", "handle", "mark"}, notice : Notice \cup {NoPerson}]
  BY DEF WorkerIdle
<1>3. /\ receipt' \in [Notice -> {"free", "claimed", "processed", "dead"}] /\ receipt'[n] = after
      /\ \A m \in Notice \ {n} : receipt'[m] = receipt[m]
      /\ worker' \in [Worker -> [pc : {"idle", "handle", "mark"}, notice : Notice \cup {NoPerson}]]
      /\ worker'[w].pc = "idle" /\ \A v \in Worker \ {w} : worker'[v] = worker[v]
  BY <1>1, <1>2 DEF InboxIInv, NotificationsTypeOK
<1>4. \A v \in Worker \ {w} : worker[v].pc # "idle" => worker[v].notice # n
  BY DEF InboxIInv, ClaimsHeld
<1>5. ClaimsHeld'
  BY <1>1, <1>3, <1>4 DEF InboxIInv, ClaimsHeld
<1>6. isTold(n) <=> worker[w].pc = "mark"
  BY <1>1, <1>4 DEF isTold
<1>7. isTold(n)' <=> after = "processed"
  BY <1>3, <1>4 DEF isTold
<1>8. \A m \in Notice \ {n} : isTold(m)' = isTold(m)
  BY <1>3 DEF isTold
<1> QED
  BY <1>1, <1>3, <1>5, <1>6, <1>7, <1>8

LEMMA MarkNoticeStep ==
  ASSUME InboxIInv, NEW w \in Worker, MarkNotice(w)
  PROVE  InboxIInv'
<1>1. PICK n : n = worker[w].notice
  OBVIOUS
<1>2. /\ worker[w].pc = "mark" /\ receipt' = [receipt EXCEPT ![n] = "processed"]
      /\ worker' = [worker EXCEPT ![w] = WorkerIdle] /\ UNCHANGED <<notice, inbox, repeats>>
  BY <1>1 DEF MarkNotice, put, handling
<1>3. /\ n \in Notice
      /\ receipt' \in [Notice -> {"free", "claimed", "processed", "dead"}]
      /\ worker' \in [Worker -> [pc : {"idle", "handle", "mark"}, notice : Notice \cup {NoPerson}]]
      /\ ClaimsHeld' /\ isTold(n) /\ isTold(n)'
      /\ \A m \in Notice \ {n} : isTold(m)' = isTold(m)
  BY <1>1, <1>2, WorkerEnds
<1>4. NotificationsTypeOK'
  BY <1>2, <1>3 DEF InboxIInv, NotificationsTypeOK
<1>5. RowsTheirOwn' /\ ReadByItsOwn'
  BY <1>2 DEF InboxIInv, RowsTheirOwn, ReadByItsOwn, isRead, notifies
<1>6. \A m \in Notice : isTold(m)' <=> isTold(m)
  BY <1>3
<1>7. RowsCounted'
  BY <1>2, <1>6 DEF InboxIInv, RowsCounted, notifies, rowsOf
<1> QED
  BY <1>3, <1>4, <1>5, <1>7 DEF InboxIInv

LEMMA LoseWorkerStep ==
  ASSUME InboxIInv, NEW w \in Worker, LoseWorker(w)
  PROVE  InboxIInv'
<1>1. PICK n : n = worker[w].notice
  OBVIOUS
<1>2. PICK inserted \in {worker[w].pc = "mark" /\ notifies(n), notifies(n)} :
        /\ inserted => repeats[n] < MaxRepeats
        /\ repeats' = IF inserted THEN [repeats EXCEPT ![n] = @ + 1] ELSE repeats
        /\ inbox' = IF inserted /\ worker[w].pc = "handle" THEN Append(inbox, rowFor(n)) ELSE inbox
  BY <1>1 DEF LoseWorker
<1>3. PICK after \in {"free", "dead"} : receipt' = [receipt EXCEPT ![n] = after]
  BY <1>1 DEF LoseWorker
<1>4. worker[w].pc \in {"handle", "mark"} /\ worker' = [worker EXCEPT ![w] = WorkerIdle] /\ UNCHANGED notice
  BY DEF LoseWorker, put, InboxIInv, NotificationsTypeOK
<1>5. /\ n \in Notice
      /\ receipt' \in [Notice -> {"free", "claimed", "processed", "dead"}]
      /\ worker' \in [Worker -> [pc : {"idle", "handle", "mark"}, notice : Notice \cup {NoPerson}]]
      /\ ClaimsHeld' /\ (isTold(n) <=> worker[w].pc = "mark") /\ ~isTold(n)'
      /\ \A m \in Notice \ {n} : isTold(m)' = isTold(m)
  <2>1. after \in {"free", "dead", "processed"} /\ after # "processed" /\ worker[w].pc # "idle"
    BY <1>3, <1>4
  <2> QED
    BY <1>1, <1>3, <1>4, <2>1, WorkerEnds
<1>6. \A m \in Notice : notifies(m)' = notifies(m)
  BY <1>4 DEF notifies
\* The rows of the event, and no other's, are as many more as it was repeated.
<1>7. /\ inbox' \in Seq(Row) /\ RowsTheirOwn' /\ ReadByItsOwn'
      /\ \A m \in Notice \ {n} : rowsOf(m)' = rowsOf(m)
      /\ ~inserted \/ worker[w].pc = "mark" => rowsOf(n)' = rowsOf(n)
      /\ inserted /\ worker[w].pc = "handle" => Cardinality(rowsOf(n)') = Cardinality(rowsOf(n)) + 1
  <2>1. CASE inserted /\ worker[w].pc = "handle"
    <3>1. notifies(n) /\ inbox' = Append(inbox, rowFor(n))
      BY <1>2, <2>1
    <3> QED
      BY <1>4, <1>5, <2>1, <3>1, RowWritten
  <2>2. CASE ~inserted \/ worker[w].pc = "mark"
    <3>1. inbox' = inbox
      BY <1>2, <2>2
    <3> QED
      BY <1>4, <1>6, <2>2, <3>1 DEF InboxIInv, NotificationsTypeOK, RowsTheirOwn, ReadByItsOwn, isRead, notifies, rowsOf
  <2> QED
    BY <1>4, <2>1, <2>2
<1>8. /\ repeats' \in [Notice -> 0..MaxRepeats] /\ \A m \in Notice \ {n} : repeats'[m] = repeats[m]
      /\ inserted => repeats'[n] = repeats[n] + 1
      /\ ~inserted => repeats'[n] = repeats[n]
  <2>1. CASE inserted
    <3>1. repeats' = [repeats EXCEPT ![n] = repeats[n] + 1] /\ repeats[n] + 1 \in 0..MaxRepeats
      BY <1>2, <1>5, <2>1, InboxTypes, NotificationsAssumption
    <3> QED
      BY <1>5, <2>1, <3>1 DEF InboxIInv, NotificationsTypeOK
  <2>2. CASE ~inserted
    BY <1>2, <2>2 DEF InboxIInv, NotificationsTypeOK
  <2> QED
    BY <2>1, <2>2
<1>9. NotificationsTypeOK'
  BY <1>4, <1>5, <1>7, <1>8 DEF InboxIInv, NotificationsTypeOK
<1>10. ASSUME NEW m \in Notice
       PROVE  /\ notifies(m)' => Cardinality(rowsOf(m)') = repeats'[m] + (IF isTold(m)' THEN 1 ELSE 0)
              /\ ~notifies(m)' => repeats'[m] = 0
  <2>1. CASE m # n
    BY <1>5, <1>6, <1>7, <1>8, <2>1 DEF InboxIInv, RowsCounted
  <2>2. CASE m = n /\ notifies(n)
    <3>1. Cardinality(rowsOf(n)) = repeats[n] + (IF isTold(n) THEN 1 ELSE 0) /\ repeats[n] \in Nat
      BY <1>5, <2>2, InboxTypes DEF InboxIInv, RowsCounted
    <3>2. PICK c, d : c = Cardinality(rowsOf(n)) /\ d = Cardinality(rowsOf(n)')
      OBVIOUS
    <3>3. c = repeats[n] + (IF worker[w].pc = "mark" THEN 1 ELSE 0)
      BY <1>5, <3>1, <3>2
    <3>4. d = repeats'[n]
      <4>1. CASE worker[w].pc = "mark"
        BY <1>2, <1>7, <1>8, <2>2, <3>1, <3>2, <3>3, <4>1
      <4>2. CASE worker[w].pc = "handle" /\ inserted
        <5>1. c = repeats[n] /\ d = c + 1 /\ repeats'[n] = repeats[n] + 1
          BY <1>7, <1>8, <3>1, <3>2, <3>3, <4>2
        <5> QED
          BY <5>1
      <4>3. CASE worker[w].pc = "handle" /\ ~inserted
        BY <1>7, <1>8, <3>1, <3>2, <3>3, <4>3
      <4> QED
        BY <1>4, <4>1, <4>2, <4>3
    <3>5. repeats'[n] = repeats'[n] + 0
      BY <1>5, <1>8
    <3>6. Cardinality(rowsOf(n)') = repeats'[n] + (IF isTold(n)' THEN 1 ELSE 0)
      BY <1>5, <3>2, <3>4, <3>5
    <3> QED
      BY <1>6, <2>2, <3>6
  <2>3. CASE m = n /\ ~notifies(n)
    <3>1. ~inserted /\ repeats[n] = 0
      BY <1>2, <1>5, <2>3 DEF InboxIInv, RowsCounted
    <3> QED
      BY <1>6, <1>8, <2>3, <3>1
  <2> QED
    BY <2>1, <2>2, <2>3
<1>11. RowsCounted'
  BY <1>10 DEF RowsCounted
<1> QED
  BY <1>5, <1>7, <1>9, <1>11 DEF InboxIInv

LEMMA MarkReadSteps ==
  ASSUME InboxIInv, NEW user \in Person,
         MarkAllAsRead(user) \/ \E i \in DOMAIN inbox : MarkAsRead(i, user)
  PROVE  InboxIInv'
<1>1. UNCHANGED <<notice, receipt, worker, repeats>>
  BY DEF MarkAllAsRead, MarkAsRead
<1>2. /\ DOMAIN inbox' = DOMAIN inbox /\ inbox' \in Seq(Row)
      /\ \A i \in DOMAIN inbox : /\ inbox'[i].notice = inbox[i].notice /\ inbox'[i].user = inbox[i].user
                                 /\ inbox'[i].read = inbox[i].read \/ inbox'[i].read = inbox[i].user
  <2>1. ASSUME NEW i \in DOMAIN inbox, MarkAsRead(i, user)
        PROVE  /\ DOMAIN inbox' = DOMAIN inbox /\ inbox' \in Seq(Row)
               /\ \A j \in DOMAIN inbox : /\ inbox'[j].notice = inbox[j].notice /\ inbox'[j].user = inbox[j].user
                                          /\ inbox'[j].read = inbox[j].read \/ inbox'[j].read = inbox[j].user
    <3> DEFINE r == [inbox[i] EXCEPT !.read = user]
    <3>1. inbox[i].user = user /\ inbox' = [inbox EXCEPT ![i] = r]
      BY <2>1 DEF MarkAsRead
    <3>2. r \in Row /\ r.notice = inbox[i].notice /\ r.user = inbox[i].user /\ r.read = user
      BY InboxTypes DEF Row
    <3> HIDE DEF r
    <3>3. /\ DOMAIN inbox' = DOMAIN inbox /\ inbox' \in Seq(Row)
          /\ inbox'[i] = r /\ \A j \in DOMAIN inbox \ {i} : inbox'[j] = inbox[j]
      BY <3>1, <3>2, InboxTypes
    <3> QED
      BY <3>1, <3>2, <3>3
  <2>2. ASSUME MarkAllAsRead(user)
        PROVE  /\ DOMAIN inbox' = DOMAIN inbox /\ inbox' \in Seq(Row)
               /\ \A j \in DOMAIN inbox : /\ inbox'[j].notice = inbox[j].notice /\ inbox'[j].user = inbox[j].user
                                          /\ inbox'[j].read = inbox[j].read \/ inbox'[j].read = inbox[j].user
    <3>1. /\ DOMAIN inbox' = DOMAIN inbox
          /\ \A j \in DOMAIN inbox : \/ inbox'[j] = inbox[j]
                                     \/ inbox[j].user = user /\ inbox'[j] = [inbox[j] EXCEPT !.read = user]
      BY <2>2 DEF MarkAllAsRead
    <3>2. ASSUME NEW j \in DOMAIN inbox
          PROVE  /\ inbox'[j] \in Row /\ inbox'[j].notice = inbox[j].notice /\ inbox'[j].user = inbox[j].user
                 /\ inbox'[j].read = inbox[j].read \/ inbox'[j].read = inbox[j].user
      BY <3>1, InboxTypes DEF Row
    <3>3. inbox' = [j \in 1..Len(inbox) |-> inbox'[j]]
      BY <2>2, InboxTypes DEF MarkAllAsRead
    <3>4. inbox' \in Seq(Row)
      BY <3>2, <3>3, InboxTypes
    <3> QED
      BY <3>1, <3>2, <3>4
  <2> QED
    BY <2>1, <2>2
<1>3. NotificationsTypeOK'
  BY <1>1, <1>2 DEF InboxIInv, NotificationsTypeOK
<1>4. ClaimsHeld'
  BY <1>1 DEF InboxIInv, ClaimsHeld
<1>5. RowsTheirOwn' /\ ReadByItsOwn'
  BY <1>1, <1>2 DEF InboxIInv, RowsTheirOwn, ReadByItsOwn, isRead, notifies
<1>6. \A n \in Notice : rowsOf(n)' = rowsOf(n) /\ isTold(n)' = isTold(n)
  BY <1>1, <1>2 DEF rowsOf, isTold
<1>7. RowsCounted'
  BY <1>1, <1>6 DEF InboxIInv, RowsCounted, notifies
<1> QED
  BY <1>3, <1>4, <1>5, <1>7 DEF InboxIInv

-----------------------------------------------------------------------------
LEMMA InboxTells == InboxIInv => InboxKept
<1> SUFFICES ASSUME InboxIInv PROVE InboxKept
  OBVIOUS
<1>1. ASSUME NEW n \in Notice
      PROVE  /\ \A i \in rowsOf(n) : inbox[i].user = notice[n].customer
             /\ receipt[n] = "processed" /\ notifies(n) => rowsOf(n) # {}
             /\ ~notifies(n) => rowsOf(n) = {}
             /\ Cardinality(rowsOf(n)) <= 1 + repeats[n]
  <2>1. (\A i \in rowsOf(n) : inbox[i].user = notice[n].customer) /\ (~notifies(n) => rowsOf(n) = {})
    BY DEF InboxIInv, RowsTheirOwn, rowsOf
  <2>2. repeats[n] \in Nat /\ Cardinality({}) = 0
    BY InboxTypes, FS_EmptySet
  <2>3. notifies(n) => Cardinality(rowsOf(n)) = repeats[n] + (IF isTold(n) THEN 1 ELSE 0)
    BY DEF InboxIInv, RowsCounted
  <2>4. receipt[n] = "processed" => isTold(n)
    BY DEF isTold
  <2>5. CASE notifies(n)
    BY <2>1, <2>2, <2>3, <2>4, <2>5
  <2>6. CASE ~notifies(n)
    BY <2>1, <2>2, <2>6
  <2> QED
    BY <2>5, <2>6
<1> QED
  BY <1>1 DEF InboxIInv, InboxKept, ToldOnceToItsOwn

\* A customer is told of every event the service is done with, and once more only
\* for a handling lost after its insert; nobody else is told, and nobody marks
\* another's row as read - whichever workers race for an event and die with it
\* (NotificationsService.notifyCustomer, createNotification, markAsReadForUser).
THEOREM InboxCorrect == NotificationsSpec => []InboxKept
<1>1. NotificationsInit => InboxIInv
  BY InboxStart
<1>2. InboxIInv /\ [NotificationsNext]_notificationsVars => InboxIInv'
  <2> SUFFICES ASSUME InboxIInv, [NotificationsNext]_notificationsVars PROVE InboxIInv'
    OBVIOUS
  <2>1. ASSUME NEW n \in Notice, NEW kind \in NoticeKind, NEW c \in Person \cup {NoPerson}, PublishNotice(n, kind, c)
        PROVE  InboxIInv'
    BY <2>1, PublishNoticeStep
  <2>2. ASSUME NEW w \in Worker, CreateNotification(w) \/ MarkNotice(w) \/ LoseWorker(w) PROVE InboxIInv'
    BY <2>2, CreateNotificationStep, MarkNoticeStep, LoseWorkerStep
  <2>3. ASSUME NEW w \in Worker, NEW n \in Notice, ClaimNotice(w, n) PROVE InboxIInv'
    BY <2>3, ClaimNoticeStep
  <2>4. ASSUME NEW user \in Person, MarkAllAsRead(user) \/ \E i \in DOMAIN inbox : MarkAsRead(i, user)
        PROVE  InboxIInv'
    BY <2>4, MarkReadSteps
  <2>5. CASE UNCHANGED notificationsVars
    BY <2>5 DEF notificationsVars, InboxIInv, NotificationsTypeOK, ClaimsHeld, RowsTheirOwn, RowsCounted,
                ReadByItsOwn, isRead, notifies, rowsOf, isTold
  <2> QED
    BY <2>1, <2>2, <2>3, <2>4, <2>5 DEF NotificationsNext
<1>3. InboxIInv => InboxKept
  BY InboxTells
<1> QED
  BY <1>1, <1>2, <1>3, PTL DEF NotificationsSpec

-----------------------------------------------------------------------------
(* An order behind its delivery (OrderSync) *)

OnPath == {"READY_FOR_PICKUP", "DRIVER_ASSIGNED", "PICKED_UP", "DELIVERED"}

\* The legs of a delivery that is not cancelled, in their order.
legOf(s) ==
  CASE s = "CREATED" -> 1 [] s = "DRIVER_ASSIGNED" -> 2 [] s = "PICKED_UP" -> 3
    [] s = "IN_TRANSIT" -> 4 [] s = "DELIVERED" -> 5 [] OTHER -> 0

\* The events are the legs from the first one on, and a cancellation ends them.
ToldInOrder ==
  /\ \A i \in DOMAIN told : told[i] # "CANCELLED" => legOf(told[i]) = i
  /\ \A i \in DOMAIN told : told[i] = "CANCELLED" => i = Len(told)
  /\ trip = IF Len(told) = 0 THEN "NONE" ELSE told[Len(told)]

\* Each event handled has moved the order there, or found it there or further.
HeardMoved ==
  placed # "CANCELLED" =>
    \A k \in 1..heard : told[k] # "CANCELLED" => PathIndex(counterpart(told[k])) <= PathIndex(placed)

\* A request that moves the order does so for an event of the delivery.
TrekHolds(x) ==
  /\ x.pc = "move" => isTransitionAllowed(DELIVERY_TRANSITIONS, x.read, x.target)
  /\ x.pc \in {"look", "patch"} => \E i \in DOMAIN told : told[i] = x.target
  /\ x.pc = "look" => x.target # "CANCELLED"
  /\ x.pc = "patch" /\ x.target # "CANCELLED" => x.step \in 2..PathIndex(counterpart(x.target))

OrderSyncIInv ==
  /\ OrderSyncTypeOK /\ placed \in OnPath \cup {"CANCELLED"}
  /\ ToldInOrder /\ HeardMoved /\ NeverAhead /\ AnswerHolds
  /\ \A s \in SyncSlot : TrekHolds(trek[s])

LEMMA PathIndices ==
  /\ PathIndex("READY_FOR_PICKUP") = 1 /\ PathIndex("DRIVER_ASSIGNED") = 2
  /\ PathIndex("PICKED_UP") = 3 /\ PathIndex("DELIVERED") = 4 /\ PathIndex("CANCELLED") = 0
  /\ \A i \in 1..4 : ORDER_DELIVERY_PATH[i] \in OnPath /\ PathIndex(ORDER_DELIVERY_PATH[i]) = i
<1> DEFINE P == ORDER_DELIVERY_PATH
<1>1. /\ P[1] = "READY_FOR_PICKUP" /\ P[2] = "DRIVER_ASSIGNED" /\ P[3] = "PICKED_UP" /\ P[4] = "DELIVERED"
      /\ DOMAIN P = 1..4
  BY DEF ORDER_DELIVERY_PATH
<1>2. \A i \in 1..4 : i = 1 \/ i = 2 \/ i = 3 \/ i = 4
  OBVIOUS
<1> HIDE DEF P
<1>3. ToSet(P) = OnPath
  BY <1>1, <1>2 DEF ToSet, OnPath
<1>4. \A i, j \in 1..4 : P[i] = P[j] => i = j
  BY <1>1, <1>2
<1>5. ASSUME NEW i \in 1..4 PROVE (CHOOSE j \in 1..4 : P[j] = P[i]) = i
  BY <1>4
<1>6. ASSUME NEW i \in 1..4 PROVE P[i] \in OnPath /\ PathIndex(P[i]) = i
  <2>1. P[i] \in OnPath
    BY <1>1, <1>2 DEF OnPath
  <2> QED
    BY <1>3, <1>5, <2>1 DEF PathIndex, P
<1>7. PathIndex("CANCELLED") = 0
  BY <1>3 DEF PathIndex, P, OnPath
<1>8. PathIndex(P[1]) = 1 /\ PathIndex(P[2]) = 2 /\ PathIndex(P[3]) = 3 /\ PathIndex(P[4]) = 4
  BY <1>6
<1> QED
  BY <1>1, <1>6, <1>7, <1>8 DEF P

LEMMA Legs ==
  /\ \A s \in DeliveryStatus \ {"CANCELLED"} :
       /\ counterpart(s) \in OnPath /\ legOf(s) \in 1..5 /\ PathIndex(counterpart(s)) \in 1..4
       /\ s \in subscribed => counterpart(s) = s
  /\ \A s, t \in DeliveryStatus \ {"CANCELLED"} :
       /\ legOf(s) = legOf(t) => s = t
       /\ legOf(s) <= legOf(t) => PathIndex(counterpart(s)) <= PathIndex(counterpart(t))
       /\ legOf(t) = legOf(s) + 1 =>
            IF t \in subscribed THEN PathIndex(t) = PathIndex(counterpart(s)) + 1
                                ELSE PathIndex(counterpart(t)) = PathIndex(counterpart(s))
<1> USE PathIndices DEF DeliveryStatus, counterpart, legOf, OnPath, subscribed
<1>1. \A s \in DeliveryStatus \ {"CANCELLED"} :
       /\ counterpart(s) \in OnPath /\ legOf(s) \in 1..5 /\ PathIndex(counterpart(s)) \in 1..4
       /\ s \in subscribed => counterpart(s) = s
  OBVIOUS
<1>2. \A s, t \in DeliveryStatus \ {"CANCELLED"} :
       /\ legOf(s) = legOf(t) => s = t
       /\ legOf(s) <= legOf(t) => PathIndex(counterpart(s)) <= PathIndex(counterpart(t))
       /\ legOf(t) = legOf(s) + 1 =>
            IF t \in subscribed THEN PathIndex(t) = PathIndex(counterpart(s)) + 1
                                ELSE PathIndex(counterpart(t)) = PathIndex(counterpart(s))
  OBVIOUS
<1> QED
  BY <1>1, <1>2

LEMMA NextLeg ==
  ASSUME NEW s, NEW t, isTransitionAllowed(DELIVERY_TRANSITIONS, s, t)
  PROVE  /\ s \in DeliveryStatus \ {"CANCELLED"} /\ t \in DeliveryStatus \ {"CREATED"}
         /\ t # "CANCELLED" => legOf(t) = legOf(s) + 1
BY DEF isTransitionAllowed, DELIVERY_TRANSITIONS, DeliveryStatus, legOf

LEMMA PathSteps ==
  /\ \A p, q \in OnPath : PathIndex(p) \in 1..4 /\ (PathIndex(p) = PathIndex(q) => p = q)
  /\ \A p, q \in OnPath : isTransitionAllowed(ORDER_TRANSITIONS, p, q) <=> PathIndex(q) = PathIndex(p) + 1
  /\ \A q : ~isTransitionAllowed(ORDER_TRANSITIONS, "CANCELLED", q)
  /\ "CANCELLED" \notin OnPath /\ OnPath \cup {"CANCELLED"} \subseteq OrderStatus
<1> USE PathIndices DEF OnPath
<1>1. \A p, q \in OnPath : PathIndex(p) \in 1..4 /\ (PathIndex(p) = PathIndex(q) => p = q)
  OBVIOUS
<1>2. \A p, q \in OnPath : isTransitionAllowed(ORDER_TRANSITIONS, p, q) <=> PathIndex(q) = PathIndex(p) + 1
  BY DEF isTransitionAllowed, ORDER_TRANSITIONS
<1>3. \A q : ~isTransitionAllowed(ORDER_TRANSITIONS, "CANCELLED", q)
  BY DEF isTransitionAllowed, ORDER_TRANSITIONS
<1>4. "CANCELLED" \notin OnPath /\ OnPath \cup {"CANCELLED"} \subseteq OrderStatus
  BY DEF OrderStatus
<1> QED
  BY <1>1, <1>2, <1>3, <1>4

LEMMA IdleTrek == TrekIdle \in Trek /\ TrekIdle.pc = "idle"
BY DEF TrekIdle, Trek, DeliveryStatus

LEMMA SyncStart == OrderSyncInit => OrderSyncIInv
<1> SUFFICES ASSUME OrderSyncInit PROVE OrderSyncIInv
  OBVIOUS
<1> USE DEF OrderSyncInit
<1>1. Len(told) = 0 /\ DOMAIN told = {} /\ told \in Seq(DeliveryStatus) /\ 1..heard = {}
  OBVIOUS
<1>2. OrderSyncTypeOK /\ placed \in OnPath \cup {"CANCELLED"}
  BY <1>1, IdleTrek, PathSteps DEF OrderSyncTypeOK, OnPath
<1>3. ToldInOrder /\ HeardMoved
  BY <1>1 DEF ToldInOrder, HeardMoved
<1>4. NeverAhead /\ AnswerHolds
  BY PathIndices DEF NeverAhead, AnswerHolds
<1>5. \A s \in SyncSlot : TrekHolds(trek[s])
  BY IdleTrek DEF TrekHolds
<1> QED
  BY <1>2, <1>3, <1>4, <1>5 DEF OrderSyncIInv

-----------------------------------------------------------------------------
LEMMA TrekTyped ==
  ASSUME OrderSyncIInv, NEW s \in SyncSlot
  PROVE  /\ trek[s] \in Trek /\ TrekHolds(trek[s])
         /\ Len(told) \in Nat /\ DOMAIN told = 1..Len(told) /\ told \in Seq(DeliveryStatus)
         /\ \A i \in DOMAIN told : told[i] \in DeliveryStatus
         /\ heard \in 0..Len(told)
BY DEF OrderSyncIInv, OrderSyncTypeOK

\* A step of a request that changes neither row.
LEMMA TrekMoves ==
  ASSUME OrderSyncIInv, NEW s \in SyncSlot, NEW x \in Trek, trek' = [trek EXCEPT ![s] = x], TrekHolds(x),
         UNCHANGED <<trip, told, heard, placed>>, sworn' \subseteq DeliveryStatus, AnswerHolds'
  PROVE  OrderSyncIInv'
<1>1. /\ trek' \in [SyncSlot -> Trek] /\ trek'[s] = x
      /\ \A u \in SyncSlot \ {s} : trek'[u] = trek[u]
  BY DEF OrderSyncIInv, OrderSyncTypeOK
<1>2. OrderSyncTypeOK'
  BY <1>1 DEF OrderSyncIInv, OrderSyncTypeOK
<1>3. \A u \in SyncSlot : TrekHolds(trek[u])'
  BY <1>1 DEF OrderSyncIInv, TrekHolds
<1>4. ToldInOrder' /\ HeardMoved' /\ NeverAhead'
  BY DEF OrderSyncIInv, ToldInOrder, HeardMoved, NeverAhead
<1> QED
  BY <1>2, <1>3, <1>4 DEF OrderSyncIInv

\* The order goes forward along the path, to a status the delivery has made, or off it.
LEMMA OrderMoves ==
  ASSUME OrderSyncIInv, UNCHANGED <<trip, told>>, heard' \in 0..Len(told),
         \/ placed' = placed
         \/ placed' = "CANCELLED"
         \/ /\ placed' \in OnPath /\ placed \in OnPath /\ PathIndex(placed') = PathIndex(placed) + 1
            /\ \E i \in DOMAIN told : counterpart(told[i]) = placed',
         HeardMoved', trek' \in [SyncSlot -> Trek], \A s \in SyncSlot : TrekHolds(trek'[s]),
         sworn' \subseteq DeliveryStatus,
         \A t \in sworn' \ sworn : placed' = "CANCELLED"
            \/ (t # "CANCELLED" /\ PathIndex(placed') >= PathIndex(counterpart(t)))
  PROVE  OrderSyncIInv'
<1>1. OrderSyncTypeOK' /\ placed' \in OnPath \cup {"CANCELLED"}
  BY PathSteps DEF OrderSyncIInv, OrderSyncTypeOK
<1>2. ToldInOrder'
  BY DEF OrderSyncIInv, ToldInOrder
<1>3. NeverAhead'
  BY PathIndices DEF OrderSyncIInv, NeverAhead
<1>4. AnswerHolds'
  <2> SUFFICES ASSUME NEW t \in sworn', placed' # "CANCELLED"
               PROVE  t # "CANCELLED" /\ PathIndex(placed') >= PathIndex(counterpart(t))
    BY DEF AnswerHolds
  <2>1. CASE t \notin sworn
    BY <2>1
  <2>2. CASE t \in sworn
    <3>1. CASE placed' = placed
      BY <2>2, <3>1 DEF OrderSyncIInv, AnswerHolds
    <3>2. CASE placed' # placed
      <4>1. placed \in OnPath /\ PathIndex(placed') = PathIndex(placed) + 1 /\ PathIndex(placed) \in 1..4
        BY <3>2, PathSteps
      <4>2. t # "CANCELLED" /\ PathIndex(placed) >= PathIndex(counterpart(t))
        BY <2>2, <4>1, PathSteps DEF OrderSyncIInv, AnswerHolds
      <4>3. PathIndex(counterpart(t)) \in 1..4
        BY <2>2, <4>2, Legs DEF OrderSyncIInv, OrderSyncTypeOK
      <4> QED
        BY <4>1, <4>2, <4>3
    <3> QED
      BY <3>1, <3>2
  <2> QED
    BY <2>1, <2>2
<1>5. \A s \in SyncSlot : TrekHolds(trek[s])'
  BY DEF TrekHolds
<1> QED
  BY <1>1, <1>2, <1>3, <1>4, <1>5 DEF OrderSyncIInv

\* The delivery makes its next leg, or is cancelled, and tells.
LEMMA DeliveryTells ==
  ASSUME OrderSyncIInv, NEW t \in DeliveryStatus, told' = Append(told, t), trip' = t,
         t = "CANCELLED" \/ legOf(t) = Len(told) + 1, trip # "CANCELLED",
         UNCHANGED <<heard, placed, sworn>>,
         NEW s \in SyncSlot, NEW x \in Trek, trek' = [trek EXCEPT ![s] = x],
         x.pc \notin {"move", "patch"} \/ x.target = t,
         x.pc # "move", x.pc = "look" => x.target = t /\ t # "CANCELLED",
         x.pc = "patch" => t = "CANCELLED"
  PROVE  OrderSyncIInv'
<1> DEFINE n == Len(told)
<1>1. n \in Nat /\ DOMAIN told = 1..n /\ told \in Seq(DeliveryStatus)
  BY TrekTyped
<1>2. /\ told' \in Seq(DeliveryStatus) /\ Len(told') = n + 1 /\ DOMAIN told' = 1..(n + 1)
      /\ told'[n + 1] = t /\ \A i \in DOMAIN told : told'[i] = told[i]
  BY <1>1
<1>3. \A i \in DOMAIN told : told[i] # "CANCELLED"
  <2>1. n > 0 => told[n] # "CANCELLED"
    BY <1>1 DEF OrderSyncIInv, ToldInOrder
  <2> QED
    BY <1>1, <2>1 DEF OrderSyncIInv, ToldInOrder
<1>4. /\ trek' \in [SyncSlot -> Trek] /\ trek'[s] = x
      /\ \A u \in SyncSlot \ {s} : trek'[u] = trek[u]
  BY DEF OrderSyncIInv, OrderSyncTypeOK
<1>5. OrderSyncTypeOK'
  BY <1>1, <1>2, <1>4 DEF OrderSyncIInv, OrderSyncTypeOK
<1>6. ToldInOrder'
  BY <1>1, <1>2, <1>3 DEF OrderSyncIInv, ToldInOrder
<1>7. HeardMoved'
  <2>1. heard \in 0..n
    BY TrekTyped
  <2> QED
    BY <1>1, <1>2, <2>1 DEF OrderSyncIInv, HeardMoved
<1>8. NeverAhead' /\ AnswerHolds'
  BY <1>1, <1>2 DEF OrderSyncIInv, NeverAhead, AnswerHolds
<1>9. \A u \in SyncSlot : TrekHolds(trek[u])'
  <2>1. ASSUME NEW u \in SyncSlot \ {s} PROVE TrekHolds(trek[u])'
    BY <1>1, <1>2, <1>4 DEF OrderSyncIInv, TrekHolds
  <2>2. n + 1 \in DOMAIN told' /\ told'[n + 1] = t
    BY <1>1, <1>2
  <2>3. TrekHolds(trek[s])'
    BY <1>4, <2>2 DEF TrekHolds
  <2> QED
    BY <2>1, <2>3
<1> QED
  BY <1>5, <1>6, <1>7, <1>8, <1>9 DEF OrderSyncIInv

-----------------------------------------------------------------------------
LEMMA CreateTripSteps ==
  ASSUME OrderSyncIInv, NEW s \in SyncSlot, CreateTrip(s) \/ InsertTrip(s) \/ SyncDies(s) \/ PatchRefused(s)
  PROVE  OrderSyncIInv'
<1>1. TrekHolds(TrekIdle) /\ UNCHANGED sworn
  BY IdleTrek DEF TrekHolds, CreateTrip, InsertTrip, SyncDies, PatchRefused
<1>2. AnswerHolds' \/ placed' # placed
  BY <1>1 DEF AnswerHolds, OrderSyncIInv
<1>3. CASE CreateTrip(s)
  <2> DEFINE x == [trek[s] EXCEPT !.pc = "insert"]
  <2>1. x \in Trek /\ x.pc = "insert"
    BY TrekTyped DEF Trek
  <2>2. trek' = [trek EXCEPT ![s] = x] /\ UNCHANGED <<trip, told, heard, placed>>
    BY <1>3 DEF CreateTrip, goes
  <2> HIDE DEF x
  <2>3. TrekHolds(x)
    BY <2>1 DEF TrekHolds
  <2> QED
    BY <1>1, <1>2, <2>1, <2>2, <2>3, TrekMoves DEF OrderSyncIInv, OrderSyncTypeOK
<1>4. CASE (SyncDies(s) \/ PatchRefused(s)) \/ (InsertTrip(s) /\ trip # "NONE")
  <2>1. trek' = [trek EXCEPT ![s] = TrekIdle] /\ UNCHANGED <<trip, told, heard, placed>>
    BY <1>4 DEF SyncDies, PatchRefused, InsertTrip, ends
  <2> QED
    BY <1>1, <1>2, <2>1, IdleTrek, TrekMoves DEF OrderSyncIInv, OrderSyncTypeOK
<1>5. CASE InsertTrip(s) /\ trip = "NONE"
  <2>1. Len(told) = 0 /\ told \in Seq(DeliveryStatus)
    BY <1>5, TrekTyped DEF OrderSyncIInv, ToldInOrder, DeliveryStatus
  <2>2. told' = Append(told, "CREATED") /\ trip' = "CREATED" /\ UNCHANGED <<heard, placed, sworn>>
        /\ trek' = [trek EXCEPT ![s] = TrekIdle]
    BY <1>5, <2>1 DEF InsertTrip, ends
  <2>3. "CREATED" \in DeliveryStatus /\ legOf("CREATED") = 1
    BY DEF DeliveryStatus, legOf
  <2>4. legOf("CREATED") = Len(told) + 1 /\ trip # "CANCELLED"
    BY <1>5, <2>1, <2>3
  <2>5. TrekIdle \in Trek /\ TrekIdle.pc \notin {"move", "patch", "look"}
    BY IdleTrek
  <2>6. PICK c : c = "CREATED"
    OBVIOUS
  <2>7. /\ c \in DeliveryStatus /\ told' = Append(told, c) /\ trip' = c
        /\ c = "CANCELLED" \/ legOf(c) = Len(told) + 1
    BY <2>2, <2>3, <2>4, <2>6
  <2> QED
    BY <2>2, <2>4, <2>5, <2>7, DeliveryTells
<1> QED
  BY <1>3, <1>4, <1>5

LEMMA AskMoveStep ==
  ASSUME OrderSyncIInv, NEW s \in SyncSlot, NEW t \in DeliveryStatus \ {"CREATED"}, AskMove(s, t)
  PROVE  OrderSyncIInv'
<1>1. UNCHANGED <<trip, told, heard, placed, sworn>>
  BY DEF AskMove
<1>2. AnswerHolds'
  BY <1>1 DEF AnswerHolds, OrderSyncIInv
<1>3. CASE trip = t /\ trek' = [trek EXCEPT ![s] = [TrekIdle EXCEPT !.pc = effects(t), !.target = t]]
  <2> DEFINE x == [TrekIdle EXCEPT !.pc = effects(t), !.target = t]
  <2>1. x \in Trek /\ x.pc = effects(t) /\ x.target = t
    <3>1. effects(t) \in {"look", "patch"}
      BY DEF effects
    <3> QED
      BY <3>1, IdleTrek DEF Trek
  <2> HIDE DEF x
  <2>2. Len(told) \in DOMAIN told /\ told[Len(told)] = t
    BY <1>3, TrekTyped DEF OrderSyncIInv, ToldInOrder, DeliveryStatus
  <2>3. TrekHolds(x)
    BY <2>1, <2>2 DEF TrekHolds, effects
  <2> QED
    BY <1>1, <1>2, <1>3, <2>1, <2>3, TrekMoves DEF OrderSyncIInv, OrderSyncTypeOK, x
<1>4. CASE /\ isTransitionAllowed(DELIVERY_TRANSITIONS, trip, t)
           /\ trek' = [trek EXCEPT ![s] = [TrekIdle EXCEPT !.pc = "move", !.target = t, !.read = trip]]
  <2> DEFINE x == [TrekIdle EXCEPT !.pc = "move", !.target = t, !.read = trip]
  <2>1. x \in Trek /\ x.pc = "move" /\ x.target = t /\ x.read = trip
    <3>1. trip \in DeliveryStatus \cup {"NONE"}
      BY DEF OrderSyncIInv, OrderSyncTypeOK
    <3> QED
      BY <3>1, IdleTrek DEF Trek
  <2>2. TrekHolds(x)
    <3> HIDE DEF x
    <3> QED
      BY <1>4, <2>1 DEF TrekHolds
  <2> QED
    BY <1>1, <1>2, <1>4, <2>1, <2>2, TrekMoves DEF OrderSyncIInv, OrderSyncTypeOK
<1> QED
  BY <1>3, <1>4 DEF AskMove

\* The event is staged with the move, before anything is done to the order.
LEMMA CommitMoveSteps ==
  ASSUME OrderSyncIInv, NEW s \in SyncSlot, CommitMove(s) \/ LoseMove(s)
  PROVE  OrderSyncIInv'
<1>1. PICK t : t = trek[s].target
  OBVIOUS
<1> DEFINE x == [trek[s] EXCEPT !.pc = effects(t)]
<1>2. /\ trek[s].pc = "move" /\ isTransitionAllowed(DELIVERY_TRANSITIONS, trek[s].read, t)
      /\ UNCHANGED <<heard, placed, sworn>>
  BY <1>1, TrekTyped DEF CommitMove, LoseMove, TrekHolds
<1>3. x \in Trek /\ x.pc = effects(t) /\ x.target = t
  BY <1>1, TrekTyped DEF Trek, effects
<1>4. AnswerHolds'
  BY <1>2 DEF AnswerHolds, OrderSyncIInv
<1>5. CASE CommitMove(s)
  <2>1. told' = Append(told, t) /\ trip' = t /\ trip = trek[s].read /\ trek' = [trek EXCEPT ![s] = x]
    BY <1>1, <1>5 DEF CommitMove, goes
  <2>2. t \in DeliveryStatus /\ trip \in DeliveryStatus \ {"CANCELLED"} /\ (t # "CANCELLED" => legOf(t) = legOf(trip) + 1)
    BY <1>2, <2>1, NextLeg
  <2>3. legOf(trip) = Len(told)
    BY <2>2, TrekTyped DEF OrderSyncIInv, ToldInOrder, DeliveryStatus
  <2> HIDE DEF x
  <2> QED
    BY <1>2, <1>3, <2>1, <2>2, <2>3, DeliveryTells DEF effects
<1>6. CASE LoseMove(s)
  <2>1. UNCHANGED <<trip, told>> /\ \/ trip = t /\ trek' = [trek EXCEPT ![s] = x]
                                    \/ trek' = [trek EXCEPT ![s] = TrekIdle]
    BY <1>1, <1>6 DEF LoseMove, goes, ends
  <2> HIDE DEF x
  <2>2. TrekHolds(TrekIdle)
    BY IdleTrek DEF TrekHolds
  <2>3. CASE trip = t /\ trek' = [trek EXCEPT ![s] = x]
    <3>1. Len(told) \in DOMAIN told /\ told[Len(told)] = t
      BY <1>2, <2>3, NextLeg, TrekTyped DEF OrderSyncIInv, ToldInOrder, DeliveryStatus
    <3>2. TrekHolds(x)
      BY <1>3, <3>1 DEF TrekHolds, effects
    <3> QED
      BY <1>2, <1>3, <1>4, <2>1, <2>3, <3>2, TrekMoves DEF OrderSyncIInv, OrderSyncTypeOK
  <2> QED
    BY <1>2, <1>4, <2>1, <2>2, <2>3, IdleTrek, TrekMoves DEF OrderSyncIInv, OrderSyncTypeOK
<1> QED
  BY <1>5, <1>6
-----------------------------------------------------------------------------
\* Every step of the path up to an event's was an event before it.
LEMMA StepsTold ==
  ASSUME OrderSyncIInv, NEW i \in DOMAIN told, told[i] # "CANCELLED",
         NEW k \in 2..PathIndex(counterpart(told[i]))
  PROVE  k \in 2..4 /\ \E j \in DOMAIN told : counterpart(told[j]) = ORDER_DELIVERY_PATH[k]
<1> DEFINE n == Len(told)
<1>1. n \in Nat /\ DOMAIN told = 1..n /\ \A m \in 1..n : told[m] \in DeliveryStatus
  <2>1. told \in Seq(DeliveryStatus)
    BY DEF OrderSyncIInv, OrderSyncTypeOK
  <2> QED
    BY <2>1
<1>2. legOf(told[i]) = i /\ i \in 1..n
  BY <1>1 DEF OrderSyncIInv, ToldInOrder
<1>3. told[i] \in DeliveryStatus \ {"CANCELLED"}
  BY <1>1, <1>2
<1>4. k \in 2..4
  BY <1>3, Legs
<1>5. (k = 4 => i = 5) /\ k <= i
  BY <1>2, <1>3, <1>4, PathIndices DEF DeliveryStatus, counterpart, legOf
<1>6. PICK j : j = IF k = 4 THEN 5 ELSE k
  OBVIOUS
<1>7. j \in 1..n /\ j <= i
  BY <1>2, <1>4, <1>5, <1>6
<1>8. told[j] # "CANCELLED"
  BY <1>1, <1>2, <1>3, <1>7 DEF OrderSyncIInv, ToldInOrder
<1>9. legOf(told[j]) = j /\ told[j] \in DeliveryStatus
  BY <1>1, <1>7, <1>8 DEF OrderSyncIInv, ToldInOrder
<1>10. \A t \in DeliveryStatus : /\ legOf(t) = 2 => t = "DRIVER_ASSIGNED"
                                 /\ legOf(t) = 3 => t = "PICKED_UP"
                                 /\ legOf(t) = 5 => t = "DELIVERED"
  BY DEF legOf, DeliveryStatus
<1>11. \/ k = 2 /\ j = 2
       \/ k = 3 /\ j = 3
       \/ k = 4 /\ j = 5
  BY <1>4, <1>6
<1>12. counterpart(told[j]) = ORDER_DELIVERY_PATH[k]
  <2>1. PICK t : t = told[j]
    OBVIOUS
  <2>2. \/ k = 2 /\ t = "DRIVER_ASSIGNED"
        \/ k = 3 /\ t = "PICKED_UP"
        \/ k = 4 /\ t = "DELIVERED"
    BY <1>9, <1>10, <1>11, <2>1
  <2>3. counterpart(t) = ORDER_DELIVERY_PATH[k]
    BY <2>2 DEF counterpart, ORDER_DELIVERY_PATH
  <2> QED
    BY <2>1, <2>3
<1> QED
  BY <1>1, <1>4, <1>7, <1>12

LEMMA LookAtOrderStep ==
  ASSUME OrderSyncIInv, NEW s \in SyncSlot, LookAtOrder(s)
  PROVE  OrderSyncIInv'
<1>1. PICK t, from, to : /\ t = trek[s].target /\ from = PathIndex(placed)
                         /\ to = PathIndex(counterpart(t))
  OBVIOUS
<1>2. /\ t \in DeliveryStatus \ {"CANCELLED"} /\ \E i \in DOMAIN told : told[i] = t
      /\ trek[s] \in Trek /\ trek[s].pc = "look"
  BY <1>1, TrekTyped DEF LookAtOrder, TrekHolds, Trek
<1>3. to \in 1..4 /\ from \in 0..4 /\ (from = 0 => placed = "CANCELLED")
  BY <1>1, <1>2, Legs, PathIndices DEF OrderSyncIInv, OnPath
<1>4. UNCHANGED <<trip, told, heard, placed>>
  BY DEF LookAtOrder
<1>5. CASE from = 0 \/ from >= to
  <2>1. sworn' = sworn \cup {t} /\ trek' = [trek EXCEPT ![s] = TrekIdle]
    BY <1>1, <1>5 DEF LookAtOrder, swears, ends
  <2>2. sworn' \subseteq DeliveryStatus
    BY <1>2, <2>1 DEF OrderSyncIInv, OrderSyncTypeOK
  <2>3. AnswerHolds'
    BY <1>1, <1>2, <1>3, <1>4, <1>5, <2>1 DEF OrderSyncIInv, AnswerHolds
  <2>4. TrekHolds(TrekIdle)
    BY IdleTrek DEF TrekHolds
  <2> QED
    BY <1>4, <2>1, <2>2, <2>3, <2>4, IdleTrek, TrekMoves
<1>6. CASE ~(from = 0 \/ from >= to)
  <2>1. PICK k : k = from + 1
    OBVIOUS
  <2>2. k \in 2..to /\ k \in 0..4
    BY <1>3, <1>6, <2>1
  <2> DEFINE x == [trek[s] EXCEPT !.pc = "patch", !.step = k]
  <2>3. trek' = [trek EXCEPT ![s] = x] /\ UNCHANGED sworn
    BY <1>1, <1>6, <2>1 DEF LookAtOrder
  <2>4. x \in Trek /\ x.pc = "patch" /\ x.target = t /\ x.step = k
    BY <1>1, <1>2, <2>2 DEF Trek
  <2> HIDE DEF x
  <2>5. TrekHolds(x)
    BY <1>1, <1>2, <2>2, <2>4 DEF TrekHolds
  <2>6. AnswerHolds' /\ sworn' \subseteq DeliveryStatus
    BY <1>4, <2>3 DEF OrderSyncIInv, AnswerHolds, OrderSyncTypeOK
  <2> QED
    BY <1>4, <2>3, <2>4, <2>5, <2>6, TrekMoves
<1> QED
  BY <1>5, <1>6

\* A step forward keeps what the events have moved.
LEMMA HeardKept ==
  ASSUME OrderSyncIInv, UNCHANGED <<told, heard>>,
         \/ placed' = placed
         \/ placed' = "CANCELLED"
         \/ placed' \in OnPath /\ placed \in OnPath /\ PathIndex(placed') = PathIndex(placed) + 1
  PROVE  HeardMoved'
<1> SUFFICES ASSUME placed' # "CANCELLED", NEW k \in 1..heard', told[k] # "CANCELLED"
             PROVE  PathIndex(counterpart(told[k])) <= PathIndex(placed')
  BY DEF HeardMoved
<1>1. k \in DOMAIN told /\ told[k] \in DeliveryStatus \ {"CANCELLED"} /\ k \in 1..heard
  BY DEF OrderSyncIInv, OrderSyncTypeOK
<1>2. PathIndex(counterpart(told[k])) \in 1..4
  BY <1>1, Legs
<1>3. CASE placed' = placed
  BY <1>1, <1>3 DEF OrderSyncIInv, HeardMoved
<1>4. CASE placed' \in OnPath /\ placed \in OnPath /\ PathIndex(placed') = PathIndex(placed) + 1
  <2>1. PathIndex(placed) \in 1..4 /\ placed # "CANCELLED"
    BY <1>4, PathSteps
  <2>2. PathIndex(counterpart(told[k])) <= PathIndex(placed)
    BY <1>1, <2>1 DEF OrderSyncIInv, HeardMoved
  <2> QED
    BY <1>2, <1>4, <2>1, <2>2
<1> QED
  BY <1>3, <1>4

LEMMA PatchOrderStep ==
  ASSUME OrderSyncIInv, NEW s \in SyncSlot, PatchOrder(s)
  PROVE  OrderSyncIInv'
<1>1. PICK t, k, to : /\ t = trek[s].target /\ k = trek[s].step
                      /\ to = PathIndex(counterpart(t))
  OBVIOUS
<1>2. /\ t \in DeliveryStatus /\ \E i \in DOMAIN told : told[i] = t
      /\ trek[s] \in Trek /\ trek[s].pc = "patch" /\ (t # "CANCELLED" => k \in 2..to)
      /\ heard \in 0..Len(told) /\ trek \in [SyncSlot -> Trek]
  BY <1>1, TrekTyped DEF PatchOrder, TrekHolds, Trek, OrderSyncIInv, OrderSyncTypeOK
<1>3. UNCHANGED <<trip, told, heard>> /\ placed' = patched(s) /\ takes(placed')
  BY DEF PatchOrder
<1>4. TrekHolds(TrekIdle) /\ \A u \in SyncSlot : TrekHolds(trek[u])
  BY IdleTrek DEF TrekHolds, OrderSyncIInv
<1>5. ASSUME swears(s)
      PROVE  /\ trek' \in [SyncSlot -> Trek] /\ \A u \in SyncSlot : TrekHolds(trek'[u])
             /\ sworn' = sworn \cup {t} /\ sworn' \subseteq DeliveryStatus
  <2>1. trek' = [trek EXCEPT ![s] = TrekIdle] /\ sworn' = sworn \cup {t}
    BY <1>1, <1>5 DEF swears, ends
  <2>2. trek' \in [SyncSlot -> Trek] /\ \A u \in SyncSlot : trek'[u] = IF u = s THEN TrekIdle ELSE trek[u]
    BY <1>2, <2>1, IdleTrek
  <2> QED
    BY <1>2, <1>4, <2>1, <2>2 DEF OrderSyncIInv, OrderSyncTypeOK
<1>6. CASE t = "CANCELLED"
  <2>1. placed' = "CANCELLED" /\ swears(s)
    BY <1>1, <1>6 DEF PatchOrder, patched, isLastStep
  <2>2. HeardMoved'
    BY <2>1 DEF HeardMoved
  <2> QED
    BY <1>2, <1>3, <1>5, <2>1, <2>2, OrderMoves
<1>7. CASE t # "CANCELLED"
  <2>1. /\ k \in 2..to /\ to \in 1..4 /\ placed' = ORDER_DELIVERY_PATH[k]
        /\ \E j \in DOMAIN told : counterpart(told[j]) = placed'
    <3>1. placed' = ORDER_DELIVERY_PATH[k]
      BY <1>1, <1>3, <1>7 DEF patched
    <3>2. PICK i \in DOMAIN told : told[i] = t
      BY <1>2
    <3>3. \E j \in DOMAIN told : counterpart(told[j]) = ORDER_DELIVERY_PATH[k]
      BY <1>1, <1>2, <1>7, <3>2, StepsTold
    <3> QED
      BY <1>1, <1>2, <1>7, <3>1, <3>3, Legs
  <2>2. placed' \in OnPath /\ PathIndex(placed') = k
    BY <2>1, PathIndices
  <2>3. \/ placed' = placed
        \/ placed \in OnPath /\ PathIndex(placed') = PathIndex(placed) + 1
    BY <1>3, <2>2, PathSteps DEF takes, OrderSyncIInv
  <2>4. HeardMoved'
    BY <1>3, <2>2, <2>3, HeardKept
  <2>5. CASE isLastStep(s)
    <3>1. swears(s) /\ k = to
      BY <1>1, <1>7, <2>5 DEF PatchOrder, isLastStep
    <3>2. \A u \in sworn' \ sworn : u # "CANCELLED" /\ PathIndex(placed') >= PathIndex(counterpart(u))
      BY <1>1, <1>5, <1>7, <2>1, <2>2, <3>1
    <3> QED
      BY <1>2, <1>3, <1>5, <2>1, <2>2, <2>3, <2>4, <3>1, <3>2, OrderMoves
  <2>6. CASE ~isLastStep(s)
    <3>1. PICK j : j = k + 1
      OBVIOUS
    <3>2. j \in 2..to /\ j \in 0..4
      BY <1>1, <1>7, <2>1, <2>6, <3>1 DEF isLastStep
    <3> DEFINE x == [trek[s] EXCEPT !.step = j]
    <3>3. trek' = [trek EXCEPT ![s] = x] /\ UNCHANGED sworn
      BY <1>1, <2>6, <3>1 DEF PatchOrder
    <3>4. x \in Trek /\ x.pc = "patch" /\ x.target = t /\ x.step = j
      BY <1>1, <1>2, <3>2 DEF Trek
    <3> HIDE DEF x
    <3>5. TrekHolds(x)
      BY <1>1, <1>2, <1>7, <3>2, <3>4 DEF TrekHolds
    <3>6. trek' \in [SyncSlot -> Trek] /\ \A u \in SyncSlot : trek'[u] = IF u = s THEN x ELSE trek[u]
      BY <1>2, <3>3, <3>4
    <3>7. \A u \in SyncSlot : TrekHolds(trek'[u])
      BY <1>4, <3>5, <3>6
    <3>8. sworn' \subseteq DeliveryStatus /\ sworn' \ sworn = {}
      BY <3>3 DEF OrderSyncIInv, OrderSyncTypeOK
    <3> QED
      BY <1>2, <1>3, <2>1, <2>2, <2>3, <2>4, <3>6, <3>7, <3>8, OrderMoves
  <2> QED
    BY <2>5, <2>6
<1> QED
  BY <1>6, <1>7
-----------------------------------------------------------------------------
\* An event takes the order where it stands for, or finds it there or further:
\* the one before it was handled.
LEMMA HearEventStep ==
  ASSUME OrderSyncIInv, NEW k \in DOMAIN told, HearEvent(k)
  PROVE  OrderSyncIInv'
<1> DEFINE n == Len(told)
<1>1. n \in Nat /\ DOMAIN told = 1..n /\ told \in Seq(DeliveryStatus) /\ heard \in 0..n
      /\ \A i \in 1..n : told[i] \in DeliveryStatus
  BY DEF OrderSyncIInv, OrderSyncTypeOK
<1>2. PICK e : e = told[k]
  OBVIOUS
<1>3. k \in 1..n /\ k <= heard + 1 /\ heard' = (IF k > heard THEN k ELSE heard)
      /\ UNCHANGED <<trip, told, trek, sworn>>
  BY <1>1 DEF HearEvent
<1>4. heard' \in 0..n /\ \A i \in 1..heard' : i \in 1..n /\ (i \in 1..heard \/ i = k)
  BY <1>1, <1>3
<1>5. /\ e \in DeliveryStatus
      /\ e \in subscribed => /\ e # "CANCELLED" /\ counterpart(e) = e /\ e \in OnPath
                             /\ PathIndex(e) \in 1..4
  BY <1>1, <1>2, <1>3, PathIndices DEF subscribed, counterpart, OnPath
<1>6. \/ placed' = placed
      \/ /\ placed' \in OnPath /\ placed \in OnPath /\ PathIndex(placed') = PathIndex(placed) + 1
         /\ placed' = e /\ e \in subscribed
  <2>1. CASE e \in subscribed /\ takes(e) /\ placed # e
    <3>1. isTransitionAllowed(ORDER_TRANSITIONS, placed, e) /\ placed' = e
      BY <1>2, <2>1 DEF HearEvent, takes
    <3> QED
      BY <1>5, <2>1, <3>1, PathSteps DEF OrderSyncIInv
  <2>2. CASE ~(e \in subscribed /\ takes(e)) \/ placed = e
    BY <1>2, <2>2 DEF HearEvent
  <2> QED
    BY <2>1, <2>2
<1>7. (\E i \in DOMAIN told : counterpart(told[i]) = placed') \/ placed' = placed
  BY <1>2, <1>5, <1>6
\* What the earlier events moved stays moved, and this one's is or was done.
<1>8. ASSUME placed' # "CANCELLED" PROVE PathIndex(placed) \in 1..4 /\ PathIndex(placed') \in 1..4
                                         /\ PathIndex(placed) <= PathIndex(placed')
                                         /\ placed \in OnPath
  BY <1>6, <1>8, PathSteps DEF OrderSyncIInv
<1>9. ASSUME placed' # "CANCELLED", NEW i \in 1..heard, told[i] # "CANCELLED"
      PROVE  PathIndex(counterpart(told[i])) <= PathIndex(placed')
  <2>1. placed # "CANCELLED"
    BY <1>8, <1>9, PathSteps
  <2>2. PathIndex(counterpart(told[i])) <= PathIndex(placed)
    BY <1>9, <2>1 DEF OrderSyncIInv, HeardMoved
  <2>3. i \in 1..n
    BY <1>1
  <2>4. PathIndex(counterpart(told[i])) \in 1..4
    BY <1>1, <1>9, <2>3, Legs
  <2> QED
    BY <1>8, <1>9, <2>2, <2>4
<1>10. ASSUME placed' # "CANCELLED", e # "CANCELLED", k = heard + 1
       PROVE  PathIndex(counterpart(e)) <= PathIndex(placed')
  <2>1. legOf(e) = k /\ e \in DeliveryStatus \ {"CANCELLED"} /\ PathIndex(counterpart(e)) \in 1..4
    BY <1>1, <1>2, <1>3, <1>10, Legs DEF OrderSyncIInv, ToldInOrder
  <2>2. CASE k = 1
    <3>1. e = "CREATED"
      BY <2>1, <2>2 DEF legOf, DeliveryStatus
    <3>2. PathIndex(counterpart(e)) = 1
      BY <3>1, PathIndices DEF counterpart
    <3> QED
      BY <1>8, <1>10, <3>2
  <2>3. CASE k > 1
    <3>1. PICK h : h = heard
      OBVIOUS
    <3>2. h \in 1..heard /\ h \in 1..n /\ h < n /\ k = h + 1
      BY <1>1, <1>3, <1>10, <2>3, <3>1
    <3>3. told[h] # "CANCELLED"
      BY <1>1, <3>2 DEF OrderSyncIInv, ToldInOrder
    <3>4. told[h] \in DeliveryStatus \ {"CANCELLED"} /\ legOf(told[h]) = h
      BY <1>1, <3>2, <3>3 DEF OrderSyncIInv, ToldInOrder
    <3>5. legOf(e) = legOf(told[h]) + 1
      BY <2>1, <3>2, <3>4
    <3>6. PathIndex(counterpart(told[h])) \in 1..4 /\ PathIndex(counterpart(told[h])) <= PathIndex(placed)
      <4>1. placed # "CANCELLED"
        BY <1>8, <1>10, PathSteps
      <4> QED
        BY <3>2, <3>3, <3>4, <4>1, Legs DEF OrderSyncIInv, HeardMoved
    <3>7. CASE e \notin subscribed
      <4>1. PathIndex(counterpart(e)) = PathIndex(counterpart(told[h]))
        BY <2>1, <3>4, <3>5, <3>7, Legs
      <4> QED
        BY <1>8, <1>10, <3>6, <4>1
    <3>8. CASE e \in subscribed
      <4>1. PathIndex(e) = PathIndex(counterpart(told[h])) + 1 /\ counterpart(e) = e
        BY <1>5, <2>1, <3>4, <3>5, <3>8, Legs
      <4>2. CASE takes(e)
        <5>1. placed' = e
          BY <1>2, <3>8, <4>2 DEF HearEvent
        <5> QED
          BY <2>1, <4>1, <5>1
      <4>3. CASE ~takes(e)
        <5>1. /\ PathIndex(e) # PathIndex(placed) + 1 /\ e # placed
              /\ PathIndex(placed) \in 1..4 /\ PathIndex(placed) <= PathIndex(placed')
              /\ PathIndex(placed') \in 1..4 /\ PathIndex(e) \in 1..4
          BY <1>5, <1>8, <1>10, <3>8, <4>3, PathSteps DEF takes
        <5> QED
          BY <3>6, <4>1, <5>1
      <4> QED
        BY <4>2, <4>3
    <3> QED
      BY <3>7, <3>8
  <2> QED
    BY <1>3, <2>2, <2>3
<1>11. HeardMoved'
  <2> SUFFICES ASSUME placed' # "CANCELLED", NEW i \in 1..heard', told[i] # "CANCELLED"
               PROVE  PathIndex(counterpart(told[i])) <= PathIndex(placed')
    BY <1>3 DEF HeardMoved
  <2>1. CASE i \in 1..heard
    BY <1>9, <2>1
  <2>2. CASE i \notin 1..heard
    <3>1. i = k /\ k = heard + 1
      BY <1>1, <1>3, <1>4, <2>2
    <3> QED
      BY <1>2, <1>10, <3>1
  <2> QED
    BY <2>1, <2>2
<1>12. trek' \in [SyncSlot -> Trek] /\ sworn' \subseteq DeliveryStatus /\ sworn' \ sworn = {}
       /\ \A s \in SyncSlot : TrekHolds(trek'[s])
  BY <1>3 DEF OrderSyncIInv, OrderSyncTypeOK
<1> QED
  BY <1>3, <1>4, <1>6, <1>7, <1>11, <1>12, OrderMoves

LEMMA CancelOrderStep ==
  ASSUME OrderSyncIInv, CancelOrder
  PROVE  OrderSyncIInv'
<1>1. placed' = "CANCELLED" /\ UNCHANGED <<trip, told, heard, trek, sworn>>
  BY DEF CancelOrder
<1>2. /\ heard' \in 0..Len(told) /\ HeardMoved' /\ trek' \in [SyncSlot -> Trek]
      /\ sworn' \subseteq DeliveryStatus /\ sworn' \ sworn = {}
      /\ \A s \in SyncSlot : TrekHolds(trek'[s])
  BY <1>1 DEF OrderSyncIInv, OrderSyncTypeOK, HeardMoved
<1> QED
  BY <1>1, <1>2, OrderMoves

LEMMA EventsBringItThere == OrderSyncIInv => EventsConverge
<1> SUFFICES ASSUME OrderSyncIInv, heard = Len(told), trip \notin {"NONE", "CANCELLED"}, placed # "CANCELLED"
             PROVE  placed = counterpart(trip)
  BY DEF EventsConverge, Quiet
<1> DEFINE n == Len(told)
<1>1. n \in Nat /\ DOMAIN told = 1..n /\ \A i \in 1..n : told[i] \in DeliveryStatus
  <2>1. told \in Seq(DeliveryStatus)
    BY DEF OrderSyncIInv, OrderSyncTypeOK
  <2> QED
    BY <2>1
<1>2. n \in 1..n /\ told[n] = trip
  BY <1>1 DEF OrderSyncIInv, ToldInOrder
<1>3. trip \in DeliveryStatus \ {"CANCELLED"} /\ legOf(trip) = n
  BY <1>1, <1>2 DEF OrderSyncIInv, ToldInOrder
<1>4. /\ placed \in OnPath /\ PathIndex(placed) \in 1..4
      /\ counterpart(trip) \in OnPath /\ PathIndex(counterpart(trip)) \in 1..4
  BY <1>3, Legs, PathSteps DEF OrderSyncIInv
<1>5. PathIndex(counterpart(trip)) <= PathIndex(placed)
  BY <1>2, <1>3 DEF OrderSyncIInv, HeardMoved
<1>6. PathIndex(placed) > 1 => PathIndex(placed) <= PathIndex(counterpart(trip))
  <2> SUFFICES ASSUME PathIndex(placed) > 1 PROVE PathIndex(placed) <= PathIndex(counterpart(trip))
    OBVIOUS
  <2>1. PICK i \in 1..n : counterpart(told[i]) = placed
    BY <1>1 DEF OrderSyncIInv, NeverAhead
  <2>2. told[i] \in DeliveryStatus \ {"CANCELLED"}
    <3>1. counterpart("CANCELLED") = "CANCELLED"
      BY DEF counterpart
    <3> QED
      BY <1>1, <2>1, <3>1
  <2>3. legOf(told[i]) = i /\ i <= n
    BY <1>1, <2>2 DEF OrderSyncIInv, ToldInOrder
  <2> QED
    BY <1>3, <2>1, <2>2, <2>3, Legs
<1>7. PathIndex(placed) = PathIndex(counterpart(trip))
  BY <1>4, <1>5, <1>6
<1> QED
  BY <1>4, <1>7, PathSteps

-----------------------------------------------------------------------------
\* The order never shows a leg its delivery has not made, a request answered
\* without an error left the order there or further or found it cancelled, and
\* once the events are handled the order is where its delivery is
\* (DeliveriesService.advance, syncOrderAlongDelivery, OrdersService.syncStatusFromEvent):
\* whatever requests and events race, whichever calls fail and whoever dies.
THEOREM OrderFollowsDelivery == OrderSyncSpec => []OrderFollows
<1>1. OrderSyncInit => OrderSyncIInv
  BY SyncStart
<1>2. OrderSyncIInv /\ [OrderSyncNext]_syncVars => OrderSyncIInv'
  <2> SUFFICES ASSUME OrderSyncIInv, [OrderSyncNext]_syncVars PROVE OrderSyncIInv'
    OBVIOUS
  <2>1. ASSUME NEW s \in SyncSlot, OrderSyncStep(s) PROVE OrderSyncIInv'
    BY <2>1, CreateTripSteps, CommitMoveSteps, LookAtOrderStep, PatchOrderStep DEF OrderSyncStep
  <2>2. ASSUME NEW s \in SyncSlot, NEW t \in DeliveryStatus \ {"CREATED"}, AskMove(s, t) PROVE OrderSyncIInv'
    BY <2>2, AskMoveStep
  <2>3. ASSUME NEW k \in DOMAIN told, HearEvent(k) PROVE OrderSyncIInv'
    BY <2>3, HearEventStep
  <2>4. CASE CancelOrder
    BY <2>4, CancelOrderStep
  <2>5. CASE UNCHANGED syncVars
    BY <2>5 DEF syncVars, OrderSyncIInv, OrderSyncTypeOK, ToldInOrder, HeardMoved, NeverAhead,
                AnswerHolds, TrekHolds
  <2> QED
    BY <2>1, <2>2, <2>3, <2>4, <2>5 DEF OrderSyncNext
<1>3. OrderSyncIInv => OrderFollows
  BY EventsBringItThere DEF OrderSyncIInv, OrderFollows
<1> QED
  BY <1>1, <1>2, <1>3, PTL DEF OrderSyncSpec
=============================================================================
