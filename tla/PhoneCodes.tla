----------------------------- MODULE PhoneCodes -----------------------------
(***************************************************************************)
(* user-service's one-time phone codes for one user: start, verify and the *)
(* profile update that may cross them.                                     *)
(*                                                                         *)
(* Codes are rows in the order they were created, decided and inserted     *)
(* under the user's advisory lock.  A code's age tells what still applies: *)
(* 0 while the resend cooldown runs, 1 while it can be used, 2 after       *)
(* ttlSeconds.  Typed codes are right or wrong.                            *)
(***************************************************************************)
EXTENDS Naturals, Sequences, FiniteSets

CONSTANTS
  Number,          \* phone numbers
  PhoneSlot,       \* requests at work
  otpMaxAttempts,  \* PHONE_OTP_POLICY.maxAttempts
  maxSendsPerHour, \* the hour in which codes are counted does not end
  MaxCodes         \* bound: codes created, deleted ones included

ASSUME PhoneCodesAssumption ==
  /\ Number # {} /\ otpMaxAttempts \in Nat \ {0} /\ maxSendsPerHour \in Nat \ {0}
  /\ "none" \notin Number /\ MaxCodes \in Nat

VARIABLES
  profile,   \* phone, phoneVerifiedAt
  codes,     \* phone_verifications; a deleted row is `gone`
  asked,     \* the request in each slot
  confirmed, \* numbers a code was confirmed for
  crossed    \* a save that kept the number it read overwrote another one

phoneVars == <<profile, codes, asked, confirmed, crossed>>

AskedIdle == [pc |-> "idle", number |-> "none", changed |-> FALSE, code |-> 0]
Code == [number : Number, attempts : 0..otpMaxAttempts, compared : Nat, used : Nat,
         age : 0..2, gone : BOOLEAN]
Asked == [pc : {"idle", "save", "create", "send", "count", "compare", "consume"},
          number : Number \cup {"none"}, changed : BOOLEAN, code : Nat]

PhoneTypeOK ==
  /\ profile \in [phone : Number \cup {"none"}, verified : BOOLEAN]
  /\ codes \in Seq(Code)
  /\ asked \in [PhoneSlot -> Asked] /\ \A s \in PhoneSlot : asked[s].code <= Len(codes)
  /\ confirmed \subseteq Number /\ crossed \in BOOLEAN
  /\ \A i \in DOMAIN codes : codes[i].used <= 1 /\ codes[i].compared <= codes[i].attempts

PhoneInit ==
  /\ profile = [phone |-> "none", verified |-> FALSE]
  /\ codes = <<>> /\ confirmed = {} /\ crossed = FALSE
  /\ asked = [s \in PhoneSlot |-> AskedIdle]

isAt(s, pc) == asked[s].pc = pc
sets(s, a) == asked' = [asked EXCEPT ![s] = a]
done(s) == sets(s, AskedIdle)
kept == {i \in DOMAIN codes : ~codes[i].gone}
latestOf(S) == CHOOSE i \in S : \A k \in S : k <= i

-----------------------------------------------------------------------------
(* PATCH users/me: read, then update what was given *)
ReadProfile(s, n) ==
  /\ isAt(s, "idle")
  /\ sets(s, [AskedIdle EXCEPT !.pc = "save", !.number = n, !.changed = n # profile.phone])
  /\ UNCHANGED <<profile, codes, confirmed, crossed>>

UpdateOwnProfile(s) ==
  /\ isAt(s, "save")
  /\ profile' = [phone |-> asked[s].number, verified |-> profile.verified /\ ~asked[s].changed]
  /\ crossed' = (crossed \/ (~asked[s].changed /\ profile.phone # asked[s].number))
  /\ done(s)
  /\ UNCHANGED <<codes, confirmed>>

-----------------------------------------------------------------------------
(* start *)
Start(s, n) ==
  /\ isAt(s, "idle")
  /\ ~(n = profile.phone /\ profile.verified)
  /\ sets(s, [AskedIdle EXCEPT !.pc = "create", !.number = n])
  /\ UNCHANGED <<profile, codes, confirmed, crossed>>

underLimits == Cardinality(kept) < maxSendsPerHour /\ (\A i \in kept : codes[i].age > 0)

CreateUnderLimits(s) ==
  /\ isAt(s, "create") /\ underLimits /\ Len(codes) < MaxCodes
  /\ codes' = Append(codes, [number |-> asked[s].number, attempts |-> 0, compared |-> 0,
                             used |-> 0, age |-> 0, gone |-> FALSE])
  /\ sets(s, [AskedIdle EXCEPT !.pc = "send", !.code = Len(codes) + 1])
  /\ UNCHANGED <<profile, confirmed, crossed>>

OverLimits(s) ==
  /\ isAt(s, "create") /\ ~underLimits
  /\ done(s)
  /\ UNCHANGED <<profile, codes, confirmed, crossed>>

SmsSent(s) ==
  /\ isAt(s, "send")
  /\ done(s)
  /\ UNCHANGED <<profile, codes, confirmed, crossed>>

SmsFails(s) ==
  /\ isAt(s, "send")
  /\ codes' = [codes EXCEPT ![asked[s].code].gone = TRUE]
  /\ done(s)
  /\ UNCHANGED <<profile, confirmed, crossed>>

-----------------------------------------------------------------------------
(* verify: the latest code, an attempt, the comparison, the use *)
Verify(s) ==
  /\ isAt(s, "idle") /\ kept # {}
  /\ LET i == latestOf(kept) IN
     /\ codes[i].used = 0 /\ codes[i].age < 2
     /\ sets(s, [AskedIdle EXCEPT !.pc = "count", !.code = i])
  /\ UNCHANGED <<profile, codes, confirmed, crossed>>

registerAttempt_Uncounted(c) == {c}
registerAttempt(c) ==
  IF ~c.gone /\ c.attempts < otpMaxAttempts /\ c.used = 0 THEN {[c EXCEPT !.attempts = @ + 1]} ELSE {}

RegisterAttempt(s) ==
  /\ isAt(s, "count")
  /\ LET counted == registerAttempt(codes[asked[s].code]) IN
     IF counted = {} THEN done(s) /\ UNCHANGED codes
     ELSE /\ \E c \in counted : codes' = [codes EXCEPT ![asked[s].code] = c]
          /\ sets(s, [asked[s] EXCEPT !.pc = "compare"])
  /\ UNCHANGED <<profile, confirmed, crossed>>

Compare(s, right) ==
  /\ isAt(s, "compare")
  /\ codes' = [codes EXCEPT ![asked[s].code].compared = @ + 1]
  /\ IF right THEN sets(s, [asked[s] EXCEPT !.pc = "consume"]) ELSE done(s)
  /\ UNCHANGED <<profile, confirmed, crossed>>

consume(s, c) ==
  /\ codes' = [codes EXCEPT ![asked[s].code].used = @ + 1]
  /\ profile' = [phone |-> c.number, verified |-> TRUE]
  /\ confirmed' = confirmed \cup {c.number}
  /\ done(s)
  /\ UNCHANGED crossed

ConsumeAndVerify(s) ==
  /\ isAt(s, "consume") /\ ~codes[asked[s].code].gone /\ codes[asked[s].code].used = 0
  /\ consume(s, codes[asked[s].code])

UsedAlready(s) ==
  /\ isAt(s, "consume") /\ (codes[asked[s].code].gone \/ codes[asked[s].code].used > 0)
  /\ done(s)
  /\ UNCHANGED <<profile, codes, confirmed, crossed>>

\* The request dies; the transactions leave nothing half done.
AskedDies(s) ==
  /\ ~isAt(s, "idle")
  /\ done(s)
  /\ UNCHANGED <<profile, codes, confirmed, crossed>>

\* Older codes are further on.
Age(i) ==
  /\ codes[i].age < 2 /\ \A k \in 1..(i - 1) : codes[k].age = 2 \/ codes[k].age > codes[i].age
  /\ codes' = [codes EXCEPT ![i].age = @ + 1]
  /\ UNCHANGED <<profile, asked, confirmed, crossed>>

-----------------------------------------------------------------------------
PhoneNext ==
  \/ \E s \in PhoneSlot :
       \/ \E n \in Number : ReadProfile(s, n) \/ Start(s, n)
       \/ UpdateOwnProfile(s)
       \/ CreateUnderLimits(s) \/ OverLimits(s) \/ SmsSent(s) \/ SmsFails(s)
       \/ Verify(s) \/ RegisterAttempt(s)
       \/ \E right \in BOOLEAN : Compare(s, right)
       \/ ConsumeAndVerify(s) \/ UsedAlready(s)
       \/ AskedDies(s)
  \/ \E i \in DOMAIN codes : Age(i)

PhoneSpec == PhoneInit /\ [][PhoneNext]_phoneVars

-----------------------------------------------------------------------------
(* What a verified phone means *)

\* No code is compared with more guesses than it allows, however many requests
\* guess at once (registerAttempt).
GuessesBounded == \A i \in DOMAIN codes : codes[i].compared <= otpMaxAttempts

\* One code a cooldown, and never more than the hour allows, also when requests
\* for a code cross or an earlier message failed (createUnderLimits).
SendsBounded ==
  /\ Cardinality({i \in kept : codes[i].age = 0}) <= 1
  /\ Cardinality(kept) <= maxSendsPerHour

\* docs/services/user-service.md: only a confirmed one-time code makes a phone
\* verified (consumeAndVerify, updateOwnProfile).
VerifiedWasConfirmed == profile.verified => profile.phone \in confirmed

\* The same, as long as no update that kept the number it had read overwrote one
\* confirmed meanwhile (updateOwnProfile).
VerifiedUnlessCrossed == ~crossed => VerifiedWasConfirmed

\* All of these at once, and no code used twice, with guesses, codes and profile
\* updates crossing (PhoneVerificationService, UsersService.updateOwnProfile).
PhoneInv == PhoneTypeOK /\ GuessesBounded /\ SendsBounded /\ VerifiedUnlessCrossed
=============================================================================
