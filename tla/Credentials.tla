----------------------------- MODULE Credentials -----------------------------
(***************************************************************************)
(* auth-service's rows for one email and user-service's profiles of them:  *)
(* registration with its compensating delete, and login with its lockout.  *)
(*                                                                         *)
(* Every repository call is a step.  The password is right or wrong; the   *)
(* call that creates the profile may fail before or after it took effect.  *)
(***************************************************************************)
EXTENDS Naturals, FiniteSets

CONSTANTS
  AccountId,      \* uuids registrations may be given
  NoAccount,      \* no row
  Visitor,        \* slots for requests at work
  maxFailedLoginAttempts,
  MaxFailedLogins \* bound: failed logins counted

ASSUME CredentialsAssumption ==
  /\ NoAccount \notin AccountId
  /\ maxFailedLoginAttempts \in Nat \ {0} /\ MaxFailedLogins \in Nat

VARIABLES
  credentials, \* ids of the rows with this email
  profiles,    \* ids that have a profile
  failed,      \* failedLoginCount
  lockedUntil, \* "none", or a time "ahead" or "past"
  visit,       \* what each slot is doing
  died         \* logins that died between counting a failure and locking

credentialsVars == <<credentials, profiles, failed, lockedUntil, visit, died>>

VisitIdle == [pc |-> "idle", id |-> NoAccount, count |-> 0]
Visit == [pc : {"idle", "create", "profile", "undo", "registered",
                "unlock", "compare", "count", "reset", "lock"},
          id : AccountId \cup {NoAccount}, count : 0..MaxFailedLogins]

\* Registrations of one email that cross leave one row at most.
CredentialsTypeOK ==
  /\ credentials \subseteq AccountId /\ profiles \subseteq AccountId
  /\ Cardinality(credentials) <= 1
  /\ failed \in 0..MaxFailedLogins /\ died \in 0..MaxFailedLogins
  /\ lockedUntil \in {"none", "ahead", "past"}
  /\ visit \in [Visitor -> Visit]

CredentialsInit ==
  /\ credentials = {} /\ profiles = {} /\ failed = 0 /\ lockedUntil = "none"
  /\ visit = [v \in Visitor |-> VisitIdle] /\ died = 0

doing(v, pc) == visit[v].pc = pc
moves(v, pc) == visit' = [visit EXCEPT ![v].pc = pc]
leaves(v) == visit' = [visit EXCEPT ![v] = VisitIdle]
stored(id) == id \in credentials

-----------------------------------------------------------------------------
(* register *)
Register(v) ==
  /\ visit[v].pc \in {"idle", "registered"} /\ credentials = {}
  /\ visit' = [visit EXCEPT ![v] = [VisitIdle EXCEPT !.pc = "create"]]
  /\ UNCHANGED <<credentials, profiles, failed, lockedUntil, died>>

\* The unique index on email refuses whoever comes second.
CreateCredential(v) ==
  /\ doing(v, "create") /\ credentials = {}
  /\ \E id \in AccountId \ (credentials \cup profiles) :
       /\ \A u \in Visitor : visit[u].id # id
       /\ credentials' = credentials \cup {id}
       /\ visit' = [visit EXCEPT ![v].pc = "profile", ![v].id = id]
  /\ UNCHANGED <<profiles, failed, lockedUntil, died>>

CreateRefused(v) ==
  /\ doing(v, "create") /\ credentials # {}
  /\ leaves(v)
  /\ UNCHANGED <<credentials, profiles, failed, lockedUntil, died>>

CreateProfile(v) ==
  /\ doing(v, "profile")
  /\ profiles' = profiles \cup {visit[v].id}
  /\ moves(v, "registered")
  /\ UNCHANGED <<credentials, failed, lockedUntil, died>>

CreateProfileFails(v) ==
  /\ doing(v, "profile")
  /\ profiles' \in {profiles, profiles \cup {visit[v].id}}
  /\ moves(v, "undo")
  /\ UNCHANGED <<credentials, failed, lockedUntil, died>>

\* The row goes, and its failures and lock with it.
deletes(v, ids) ==
  /\ doing(v, "undo")
  /\ credentials' = credentials \ ids
  /\ IF credentials' = {} THEN failed' = 0 /\ lockedUntil' = "none" ELSE UNCHANGED <<failed, lockedUntil>>
  /\ leaves(v)
  /\ UNCHANGED <<profiles, died>>

UndoCredential(v) == deletes(v, {visit[v].id})

-----------------------------------------------------------------------------
(* login: refused at once while locked *)
Login(v) ==
  /\ visit[v].pc \in {"idle", "registered"} /\ lockedUntil # "ahead"
  /\ \E id \in credentials :
       visit' = [visit EXCEPT ![v] = [id |-> id, count |-> failed,
                   pc |-> IF lockedUntil = "past" THEN "unlock" ELSE "compare"]]
  /\ UNCHANGED <<credentials, profiles, failed, lockedUntil, died>>

\* resetFailureState, when the lock is over and when the password is right.
ResetFailureState(v) ==
  /\ visit[v].pc \in {"unlock", "reset"}
  /\ IF stored(visit[v].id) THEN failed' = 0 /\ lockedUntil' = "none" ELSE UNCHANGED <<failed, lockedUntil>>
  /\ IF doing(v, "unlock") THEN moves(v, "compare") ELSE leaves(v)
  /\ UNCHANGED <<credentials, profiles, died>>

RightPassword(v) ==
  /\ doing(v, "compare")
  /\ moves(v, "reset")
  /\ UNCHANGED <<credentials, profiles, failed, lockedUntil, died>>

\* emailVerificationRequired refuses a right password without a change.
Unverified(v) ==
  /\ doing(v, "compare")
  /\ leaves(v)
  /\ UNCHANGED <<credentials, profiles, failed, lockedUntil, died>>

RecordFailedLogin(v) ==
  /\ doing(v, "compare") /\ failed < MaxFailedLogins
  /\ CASE ~stored(visit[v].id) -> UNCHANGED <<failed, lockedUntil>>
       [] stored(visit[v].id) /\ lockedUntil = "past" -> failed' = 1 /\ lockedUntil' = "none"
       [] stored(visit[v].id) /\ lockedUntil # "past" -> failed' = failed + 1 /\ UNCHANGED lockedUntil
  /\ moves(v, "count")
  /\ UNCHANGED <<credentials, profiles, died>>

readBack(v, count) ==
  /\ doing(v, "count")
  /\ IF count >= maxFailedLoginAttempts THEN moves(v, "lock") ELSE leaves(v)
  /\ UNCHANGED <<credentials, profiles, failed, lockedUntil, died>>

\* The count is read again after the update: one read before it misses the
\* failures of others.
ReadBack_Stale(v) == readBack(v, visit[v].count + 1)
ReadBack(v) == readBack(v, IF stored(visit[v].id) THEN failed ELSE 1)

Lock(v) ==
  /\ doing(v, "lock")
  /\ lockedUntil' = IF stored(visit[v].id) THEN "ahead" ELSE lockedUntil
  /\ leaves(v)
  /\ UNCHANGED <<credentials, profiles, failed, died>>

\* The process dies, or the database fails, wherever it is.
VisitDies(v) ==
  /\ visit[v].pc \notin {"idle", "registered"} /\ died < MaxFailedLogins
  /\ died' = IF visit[v].pc \in {"count", "lock"} THEN died + 1 ELSE died
  /\ leaves(v)
  /\ UNCHANGED <<credentials, profiles, failed, lockedUntil>>

LockPasses ==
  /\ lockedUntil = "ahead" /\ lockedUntil' = "past"
  /\ UNCHANGED <<credentials, profiles, failed, visit, died>>

-----------------------------------------------------------------------------
CredentialsNext ==
  \/ \E v \in Visitor :
       \/ Register(v) \/ CreateCredential(v) \/ CreateRefused(v)
       \/ CreateProfile(v) \/ CreateProfileFails(v) \/ UndoCredential(v)
       \/ Login(v) \/ ResetFailureState(v) \/ RightPassword(v) \/ Unverified(v)
       \/ RecordFailedLogin(v) \/ ReadBack(v) \/ Lock(v)
       \/ VisitDies(v)
  \/ LockPasses

CredentialsSpec == CredentialsInit /\ [][CredentialsNext]_credentialsVars

-----------------------------------------------------------------------------
(* What an account holder relies on *)

\* Who was told that registration succeeded has a credential and a profile, and
\* no other registration's compensation takes them away (register, deleteById).
RegisteredIsWhole ==
  \A v \in Visitor : doing(v, "registered") => visit[v].id \in credentials \cap profiles

\* With no login under way, an account with the failures that lock it is locked,
\* or was, however its failures, expiries and resets crossed; each login that
\* died before locking lets one more failure in (recordFailedLogin, login).
LockFollowsCount ==
  (\A v \in Visitor : visit[v].pc \in {"idle", "registered"})
    => (failed >= maxFailedLoginAttempts + died => lockedUntil # "none")

\* Both at once, and one account an email, with registrations and logins crossing
\* and dying (AuthService.register, login).
CredentialsInv == CredentialsTypeOK /\ RegisteredIsWhole /\ LockFollowsCount
=============================================================================
