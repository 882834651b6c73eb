------------------------------ MODULE Settlement ------------------------------
(***************************************************************************)
(* What a driver has from finished deliveries (delivery-service): an entry *)
(* of the earnings ledger for each, settled after a while, and the rating  *)
(* its customer may give once, counted in a running summary.               *)
(*                                                                         *)
(* The entry is appended in the transaction of the completion, the summary *)
(* changed in the transaction of the rating.  A customer's requests race   *)
(* and are repeated after a lost answer; a read of the earnings is three   *)
(* queries, and entries fall due and are settled in between.               *)
(***************************************************************************)
EXTENDS Naturals, FiniteSets, FiniteSetsExt

CONSTANTS
  Finished,  \* the driver's deliveries
  Score,     \* what a customer may say
  NotRated,  \* no rating
  Asker      \* slots for requests at work

ASSUME SettlementAssumption ==
  IsFiniteSet(Finished) /\ Score \subseteq Nat /\ NotRated \notin Score

VARIABLES
  ledger,   \* the entry of each delivery: "none", "PENDING" or "AVAILABLE"
  due,      \* deliveries whose availableAt has come
  rating,   \* the stored rating of each delivery
  summary,  \* the driver's ratingCount and ratingSum
  closed,   \* deliveries whose rating window has ended
  asker     \* what each slot is doing

settlementVars == <<ledger, due, rating, summary, closed, asker>>

AskerIdle == [pc |-> "idle", delivery |-> NotRated, score |-> NotRated,
              now |-> {}, pending |-> {}, available |-> {}]
Outcome == {"created", "replayed", "conflict", "refused"}

SettlementTypeOK ==
  /\ ledger \in [Finished -> {"none", "PENDING", "AVAILABLE"}]
  /\ due \subseteq {d \in Finished : ledger[d] # "none"}
  /\ rating \in [Finished -> Score \cup {NotRated}]
  /\ summary \in [count : 0..Cardinality(Finished), sum : Nat]
  /\ closed \subseteq {d \in Finished : ledger[d] # "none"}
  /\ \A a \in Asker :
       /\ asker[a].pc \in Outcome \cup {"idle", "find", "insert", "recover",
                                        "settle", "totals", "answered"}
       /\ asker[a].delivery \in Finished \cup {NotRated}
       /\ asker[a].score \in Score \cup {NotRated}
       /\ asker[a].now \cup asker[a].pending \cup asker[a].available \subseteq Finished

SettlementInit ==
  /\ ledger = [d \in Finished |-> "none"] /\ due = {}
  /\ rating = [d \in Finished |-> NotRated] /\ summary = [count |-> 0, sum |-> 0]
  /\ closed = {} /\ asker = [a \in Asker |-> AskerIdle]

ledgerVars == <<ledger, due>>
ratingVars == <<rating, summary, closed>>
resting == Outcome \cup {"idle", "answered"}

-----------------------------------------------------------------------------
(* Deliveries and time *)

\* The entry is appended with the delivery's last status, once.
AppendOnce(d) ==
  /\ ledger[d] = "none"
  /\ ledger' = [ledger EXCEPT ![d] = "PENDING"]
  /\ UNCHANGED <<due, ratingVars, asker>>

FallDue(d) ==
  /\ ledger[d] = "PENDING"
  /\ due' = due \cup {d}
  /\ UNCHANGED <<ledger, ratingVars, asker>>

CloseWindow(d) ==
  /\ ledger[d] # "none"
  /\ closed' = closed \cup {d}
  /\ UNCHANGED <<ledgerVars, rating, summary, asker>>

-----------------------------------------------------------------------------
(* Earnings *)
settled(now) == [d \in Finished |-> IF d \in now /\ ledger[d] = "PENDING" THEN "AVAILABLE" ELSE ledger[d]]

Sweep ==
  /\ \E d \in due : ledger[d] = "PENDING"
  /\ ledger' = settled(due)
  /\ UNCHANGED <<due, ratingVars, asker>>

GetEarnings(a) ==
  /\ asker[a].pc \in resting
  /\ asker' = [asker EXCEPT ![a] = [AskerIdle EXCEPT !.pc = "settle", !.now = due]]
  /\ UNCHANGED <<ledgerVars, ratingVars>>

SettleOwn_NotAwaited(a) ==
  /\ asker[a].pc = "settle"
  /\ asker' = [asker EXCEPT ![a].pc = "totals"]
  /\ UNCHANGED <<ledgerVars, ratingVars>>

SettleOwn(a) ==
  /\ asker[a].pc = "settle"
  /\ ledger' = settled(asker[a].now)
  /\ asker' = [asker EXCEPT ![a].pc = "totals"]
  /\ UNCHANGED <<due, ratingVars>>

Totals(a) ==
  /\ asker[a].pc = "totals"
  /\ asker' = [asker EXCEPT ![a].pc = "answered",
                            ![a].pending = {d \in Finished : ledger[d] = "PENDING"},
                            ![a].available = {d \in Finished : ledger[d] = "AVAILABLE"}]
  /\ UNCHANGED <<ledgerVars, ratingVars>>

-----------------------------------------------------------------------------
(* Ratings *)
Rate(a, d, score) ==
  /\ asker[a].pc \in resting
  /\ asker' = [asker EXCEPT ![a] = [AskerIdle EXCEPT !.pc = "find", !.delivery = d, !.score = score]]
  /\ UNCHANGED <<ledgerVars, ratingVars>>

\* The rating already there answers an identical request and refuses another.
replayOrConflict(a) ==
  asker' = [asker EXCEPT ![a].pc =
    IF rating[asker[a].delivery] = asker[a].score THEN "replayed" ELSE "conflict"]

ineligible(d) == ledger[d] = "none" \/ d \in closed

FindRating(a) ==
  LET d == asker[a].delivery IN
  /\ asker[a].pc = "find"
  /\ CASE rating[d] # NotRated -> replayOrConflict(a)
       [] rating[d] = NotRated /\ ineligible(d) -> asker' = [asker EXCEPT ![a].pc = "refused"]
       [] OTHER -> asker' = [asker EXCEPT ![a].pc = "insert"]
  /\ UNCHANGED <<ledgerVars, ratingVars>>

CreateRating(a) ==
  /\ asker[a].pc = "insert" /\ rating[asker[a].delivery] = NotRated
  /\ rating' = [rating EXCEPT ![asker[a].delivery] = asker[a].score]
  /\ summary' = [summary EXCEPT !.count = @ + 1, !.sum = @ + asker[a].score]
  /\ asker' = [asker EXCEPT ![a].pc = "created"]
  /\ UNCHANGED <<ledgerVars, closed>>

\* The unique index on deliveryId: the transaction rolls back.
UniqueViolation(a) ==
  /\ asker[a].pc = "insert" /\ rating[asker[a].delivery] # NotRated
  /\ asker' = [asker EXCEPT ![a].pc = "recover"]
  /\ UNCHANGED <<ledgerVars, ratingVars>>

RecoverRating(a) ==
  /\ asker[a].pc = "recover"
  /\ replayOrConflict(a)
  /\ UNCHANGED <<ledgerVars, ratingVars>>

\* The process dies, or the answer is lost; the customer may ask again.
LoseRequest(a) ==
  /\ asker[a].pc # "idle"
  /\ asker' = [asker EXCEPT ![a] = AskerIdle]
  /\ UNCHANGED <<ledgerVars, ratingVars>>

-----------------------------------------------------------------------------
SettlementNext ==
  \/ \E d \in Finished : AppendOnce(d) \/ FallDue(d) \/ CloseWindow(d)
  \/ Sweep
  \/ \E a \in Asker :
       \/ GetEarnings(a) \/ SettleOwn(a) \/ Totals(a)
       \/ \E d \in Finished, score \in Score : Rate(a, d, score)
       \/ FindRating(a) \/ CreateRating(a) \/ UniqueViolation(a) \/ RecoverRating(a)
       \/ LoseRequest(a)

SettlementSpec == SettlementInit /\ [][SettlementNext]_settlementVars

-----------------------------------------------------------------------------
(* What it promises *)

\* Earnings are exact even between sweeps: everything due when they were asked
\* for is available in the answer, and nothing is available that is not due
\* (EarningsService.getForDriver settles before it sums).
EarningsExact ==
  \A a \in Asker : asker[a].pc = "answered" =>
    /\ asker[a].now \subseteq asker[a].available
    /\ asker[a].available \subseteq due /\ asker[a].pending \cap asker[a].now = {}

\* The summary never misses or double-counts a rating, however many requests for
\* one delivery race (RatingsRepository.create).
SummaryCannotDrift ==
  LET rated == {d \in Finished : rating[d] # NotRated} IN
  /\ summary.count = Cardinality(rated)
  /\ summary.sum = MapThenSumSet(LAMBDA d : rating[d], rated)

\* Whoever is told that a rating is stored gave that rating, and a conflict is
\* told only to who gave another one: a repeated request gets its own rating back
\* even when it raced with itself (RatingsService.rate, replayOrConflict).
RetryIsReplayed ==
  \A a \in Asker :
    LET stored == rating[asker[a].delivery] IN
    /\ asker[a].pc \in {"created", "replayed"} => stored = asker[a].score
    /\ asker[a].pc = "conflict" => stored \notin {asker[a].score, NotRated}

\* All of these at once, with sweeps, ratings and their retries crossing
\* (EarningsService, RatingsService).
SettlementInv == SettlementTypeOK /\ EarningsExact /\ SummaryCannotDrift /\ RetryIsReplayed
=============================================================================
