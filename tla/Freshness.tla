------------------------------ MODULE Freshness ------------------------------
(***************************************************************************)
(* When a driver's position and an ETA still count (tracking-service):     *)
(* the age of a position, the timer that recomputes a stream when the      *)
(* position it shows turns stale, and how long an estimate is valid.       *)
(*                                                                         *)
(* Time is counted in ticks, several to the second, since the code rounds  *)
(* ages down to seconds in one place and compares milliseconds in another. *)
(* A position may be stamped by a server whose clock is ahead; the timer   *)
(* fires when it is due.                                                   *)
(***************************************************************************)
EXTENDS Integers, FiniteSetsExt

CONSTANTS
  Second,      \* ticks to the second
  staleAfter,  \* locationStaleAfterSeconds
  MaxSkew,     \* bound: ticks a server's clock may be ahead
  MaxTick      \* bound: the last tick

ASSUME FreshnessAssumption ==
  Second \in Nat \ {0} /\ staleAfter \in Nat \ {0} /\ MaxSkew \in Nat /\ MaxTick \in Nat

VARIABLES
  clock,   \* the time
  errand,  \* the delivery: "waiting" for a driver, "assigned" or "ended"
  fix,     \* when the driver's last position was received, Never without one
  shown,   \* the snapshot the customer was last sent
  staleAt  \* when the stale timer fires, Never without one

freshVars == <<clock, errand, fix, shown, staleAt>>

Never == -1
Tick == 0..MaxTick
Shown == [tracking : {"nothing", "NO_DRIVER", "AWAITING_LOCATION", "LIVE", "STALE", "ENDED"},
          basedOn : -1..(MaxTick + MaxSkew), at : Tick, estimated : BOOLEAN]

FreshnessTypeOK ==
  /\ clock \in Tick /\ errand \in {"waiting", "assigned", "ended"}
  /\ fix \in -1..(MaxTick + MaxSkew)
  /\ shown \in Shown
  /\ staleAt \in -1..(MaxTick + (staleAfter + 1) * Second)

FreshnessInit ==
  /\ clock = 0 /\ errand = "waiting" /\ fix = Never /\ staleAt = Never
  /\ shown = [tracking |-> "nothing", basedOn |-> Never, at |-> 0, estimated |-> FALSE]

\* locationAgeSeconds: whole seconds, and 0 for a stamp from the future.
locationAge(received) == Max({0, (clock - received) \div Second})

resolved(job, received) ==
  CASE job = "ended" -> "ENDED"
    [] job = "waiting" -> "NO_DRIVER"
    [] job = "assigned" /\ received = Never -> "AWAITING_LOCATION"
    [] job = "assigned" /\ received # Never ->
         IF locationAge(received) > staleAfter THEN "STALE" ELSE "LIVE"

\* deriveEta gates the estimator, which may decline; isEtaValid judges the
\* estimate a client holds.
validUntil(s) == s.basedOn + staleAfter * Second
isEtaValid(s) == s.estimated /\ errand = "assigned" /\ clock <= validUntil(s)

-----------------------------------------------------------------------------
Tock ==
  /\ clock < MaxTick /\ clock # staleAt
  /\ clock' = clock + 1
  /\ UNCHANGED <<errand, fix, shown, staleAt>>

ErrandMoves ==
  /\ \/ errand = "waiting" /\ errand' = "assigned"
     \/ errand # "ended" /\ errand' = "ended"
  /\ UNCHANGED <<clock, fix, shown, staleAt>>

ReceiveReport(skew) ==
  /\ errand = "assigned"
  /\ fix' = clock + skew
  /\ UNCHANGED <<clock, errand, shown, staleAt>>

\* locationTtlSeconds pass.
FixExpires ==
  /\ fix # Never /\ locationAge(fix) > staleAfter
  /\ fix' = Never
  /\ UNCHANGED <<clock, errand, shown, staleAt>>

\* armStaleTimer
staleDelay_OneShort(received) == Max({(staleAfter - locationAge(received)) * Second, Second})
staleDelay(received) == Max({(staleAfter - locationAge(received) + 1) * Second, Second})

\* A trigger, a resync or the timer made the stream recompute.
EmitSnapshot ==
  LET tracking == resolved(errand, fix) IN
  /\ \E estimated \in {FALSE, tracking = "LIVE"} :
       shown' = [tracking |-> tracking, basedOn |-> fix, at |-> clock, estimated |-> estimated]
  /\ staleAt' = IF tracking = "LIVE" THEN clock + staleDelay(fix) ELSE Never
  /\ UNCHANGED <<clock, errand, fix>>

FreshnessNext ==
  \/ Tock \/ ErrandMoves \/ FixExpires \/ EmitSnapshot
  \/ \E skew \in 0..MaxSkew : ReceiveReport(skew)

FreshnessSpec == FreshnessInit /\ [][FreshnessNext]_freshVars

-----------------------------------------------------------------------------
(* What the customer may rely on *)

\* A position is shown as live for less than a second after it turned stale: by
\* then the timer fires, and a position that has not changed is stale at that
\* moment however its age was rounded when the timer was armed; only one stamped
\* in the future takes another round (armStaleTimer, resolveTracking).
LiveTurnsStale ==
  shown.tracking = "LIVE" =>
    /\ staleAt # Never /\ clock <= staleAt
    /\ clock < staleAt => clock - shown.basedOn < (staleAfter + 2) * Second
    /\ clock = staleAt /\ shown.basedOn <= shown.at => locationAge(shown.basedOn) > staleAfter

\* An estimate a client may still show is one for a delivery under way and a
\* position that has not turned stale, though validity is compared to the
\* millisecond and staleness to the second (deriveEta, isEtaValid).
EtaInTime == isEtaValid(shown) => resolved(errand, shown.basedOn) = "LIVE"

\* Both at once, for every clock, rounding and skew (resolveTracking, armStaleTimer,
\* deriveEta).
FreshnessKept == FreshnessTypeOK /\ LiveTurnsStale /\ EtaInTime
=============================================================================
