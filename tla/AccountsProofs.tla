--------------------------- MODULE AccountsProofs ---------------------------
(***************************************************************************)
(* Proofs about one person's account, work and pay: registration and the     *)
(* lockout (Credentials), phone codes (PhoneCodes), a driver's row (Shift)   *)
(* and a driver's earnings and ratings (Settlement), for any number of       *)
(* requests.                                                                 *)
(*                                                                           *)
(* A failed login beyond the limit is one that a login has yet to judge, or  *)
(* that died before judging; a counted guess at a code is compared, or still *)
(* may be.  A slot that is about to write a driver's row carries a move its  *)
(* *read* status allows, by a role that may make it, and the compare-and-set *)
(* makes the read status the current one.  What a settlement's slot read can *)
(* only have grown, and the sums follow by induction over finite sets.       *)
(***************************************************************************)
EXTENDS Credentials, PhoneCodes, Shift, Settlement, SetProofs, SequenceTheorems

-----------------------------------------------------------------------------
(* Accounts: registration and the lockout (Credentials) *)

\* A registration holds its row until it is answered or undone.
Registering == {"profile", "undo", "registered"}

\* Logins that counted a failure of the row and have yet to judge the count.
Counting == {v \in Visitor : visit[v].pc \in {"count", "lock"} /\ stored(visit[v].id)}

AccountsTyped ==
  /\ credentials \subseteq AccountId /\ profiles \subseteq AccountId
  /\ failed \in 0..MaxFailedLogins /\ died \in 0..MaxFailedLogins
  /\ lockedUntil \in {"none", "ahead", "past"}
  /\ visit \in [Visitor -> Visit]

OneAccount == \A a, b \in credentials : a = b

OwnRow ==
  \A v \in Visitor : visit[v].pc \in Registering =>
    /\ visit[v].id \in credentials
    /\ \A u \in Visitor \ {v} : visit[u].pc \in Registering => visit[u].id # visit[v].id

\* Each failure beyond the limit of an account that is not locked is one a login
\* still has to judge, or died before it did.
FailuresJudged ==
  /\ credentials = {} => failed = 0
  /\ IsFiniteSet(Counting)
  /\ lockedUntil = "none" => failed < maxFailedLoginAttempts + died + Cardinality(Counting)

CredentialsIInv == AccountsTyped /\ OneAccount /\ OwnRow /\ RegisteredIsWhole /\ FailuresJudged

LEMMA AccountsStart == CredentialsInit => CredentialsIInv
<1> SUFFICES ASSUME CredentialsInit PROVE CredentialsIInv
  OBVIOUS
<1> USE CredentialsAssumption DEF CredentialsInit
<1>1. VisitIdle \in Visit /\ VisitIdle.pc = "idle"
  BY DEF VisitIdle, Visit
<1>2. Counting = {}
  BY <1>1 DEF Counting
<1>3. IsFiniteSet(Counting) /\ Cardinality(Counting) = 0
  BY <1>2, FS_EmptySet
<1>4. AccountsTyped /\ OneAccount /\ OwnRow /\ RegisteredIsWhole
  BY <1>1 DEF AccountsTyped, OneAccount, OwnRow, Registering, RegisteredIsWhole, doing
<1> QED
  BY <1>3, <1>4 DEF CredentialsIInv, FailuresJudged

\* A request that goes on, or ends, without taking or giving up a row.
LEMMA VisitGoesOn ==
  ASSUME CredentialsIInv, NEW v \in Visitor, NEW x \in Visit, visit' = [visit EXCEPT ![v] = x],
         x.pc \in Registering => visit[v].pc \in Registering /\ x.id = visit[v].id,
         credentials' = credentials, profiles \subseteq profiles', profiles' \subseteq AccountId,
         x.pc = "registered" => x.id \in profiles',
         failed' \in 0..MaxFailedLogins, died' \in 0..MaxFailedLogins,
         lockedUntil' \in {"none", "ahead", "past"}, FailuresJudged'
  PROVE  CredentialsIInv'
<1> USE DEF CredentialsIInv
<1>1. /\ visit' \in [Visitor -> Visit] /\ visit'[v] = x
      /\ \A u \in Visitor \ {v} : visit'[u] = visit[u]
  BY DEF AccountsTyped
<1>2. AccountsTyped' /\ OneAccount'
  BY <1>1 DEF AccountsTyped, OneAccount
<1>3. OwnRow'
  BY <1>1 DEF OwnRow
<1>4. RegisteredIsWhole'
  BY <1>1 DEF OwnRow, RegisteredIsWhole, doing, Registering
<1> QED
  BY <1>2, <1>3, <1>4

LEMMA CountingChange ==
  ASSUME CredentialsIInv, NEW v \in Visitor, NEW x \in Visit, visit' = [visit EXCEPT ![v] = x],
         credentials' = credentials
  PROVE  Counting' = IF x.pc \in {"count", "lock"} /\ stored(x.id) THEN Counting \cup {v} ELSE Counting \ {v}
BY DEF CredentialsIInv, AccountsTyped, Counting, stored

LEMMA CountingSize ==
  ASSUME CredentialsIInv, NEW v \in Visitor
  PROVE  /\ Cardinality(Counting) \in Nat
         /\ IsFiniteSet(Counting \cup {v}) /\ IsFiniteSet(Counting \ {v})
         /\ v \in Counting => Cardinality(Counting \cup {v}) = Cardinality(Counting)
                              /\ Cardinality(Counting \ {v}) = Cardinality(Counting) - 1
         /\ v \notin Counting => Cardinality(Counting \cup {v}) = Cardinality(Counting) + 1
                                 /\ Cardinality(Counting \ {v}) = Cardinality(Counting)
<1>1. IsFiniteSet(Counting)
  BY DEF CredentialsIInv, FailuresJudged
<1> QED
  BY <1>1, FS_CardinalityType, FS_AddElement, FS_RemoveElement

\* A step of one request that is not about the failures counted.
LEMMA ElsewhereGoesOn ==
  ASSUME CredentialsIInv, NEW v \in Visitor, NEW x \in Visit, visit' = [visit EXCEPT ![v] = x],
         visit[v].pc \notin {"count", "lock"}, x.pc \notin {"count", "lock"},
         UNCHANGED <<credentials, failed, lockedUntil, died>>
  PROVE  FailuresJudged'
<1>1. Counting' = Counting
  BY CountingChange DEF Counting
<1> QED
  BY <1>1 DEF CredentialsIInv, FailuresJudged

LEMMA IdleVisit == VisitIdle \in Visit /\ VisitIdle.pc = "idle"
BY CredentialsAssumption DEF VisitIdle, Visit

LEMMA MovedTo ==
  ASSUME CredentialsIInv, NEW v \in Visitor,
         NEW pc \in {"idle", "create", "profile", "undo", "registered", "unlock", "compare", "count", "reset", "lock"}
  PROVE  LET x == [visit[v] EXCEPT !.pc = pc] IN x \in Visit /\ x.pc = pc /\ x.id = visit[v].id
BY DEF CredentialsIInv, AccountsTyped, Visit

-----------------------------------------------------------------------------
LEMMA RegisterStep ==
  ASSUME CredentialsIInv, NEW v \in Visitor, Register(v) \/ CreateRefused(v)
  PROVE  CredentialsIInv'
<1>1. \E x \in Visit : x.pc \in {"create", "idle"} /\ visit' = [visit EXCEPT ![v] = x]
  <2> DEFINE x == [VisitIdle EXCEPT !.pc = "create"]
  <2>1. x \in Visit /\ x.pc = "create"
    BY CredentialsAssumption DEF VisitIdle, Visit
  <2>2. Register(v) => visit' = [visit EXCEPT ![v] = x]
    BY DEF Register
  <2> HIDE DEF x
  <2> QED
    BY <2>1, <2>2, IdleVisit DEF CreateRefused, leaves
<1>2. visit[v].pc \notin {"count", "lock"} /\ UNCHANGED <<credentials, profiles, failed, lockedUntil, died>>
  BY DEF Register, CreateRefused, doing
<1> QED
  BY <1>1, <1>2, VisitGoesOn, ElsewhereGoesOn DEF CredentialsIInv, AccountsTyped, Registering

\* The only step that takes a row: there was none, and its id is fresh.
LEMMA CreateCredentialStep ==
  ASSUME CredentialsIInv, NEW v \in Visitor, CreateCredential(v)
  PROVE  CredentialsIInv'
<1>1. PICK id \in AccountId \ (credentials \cup profiles) :
        /\ \A u \in Visitor : visit[u].id # id
        /\ credentials' = credentials \cup {id}
        /\ visit' = [visit EXCEPT ![v].pc = "profile", ![v].id = id]
  BY DEF CreateCredential
<1>2. credentials = {} /\ UNCHANGED <<profiles, failed, lockedUntil, died>>
  BY DEF CreateCredential
<1> DEFINE x == [visit[v] EXCEPT !.pc = "profile", !.id = id]
<1>3. x \in Visit /\ x.pc = "profile" /\ x.id = id
  BY DEF CredentialsIInv, AccountsTyped, Visit
<1>4. visit' = [visit EXCEPT ![v] = x]
  BY <1>1
<1> HIDE DEF x
<1>5. /\ visit' \in [Visitor -> Visit] /\ visit'[v] = x
      /\ \A u \in Visitor \ {v} : visit'[u] = visit[u] /\ visit[u].id # id
  BY <1>1, <1>3, <1>4 DEF CredentialsIInv, AccountsTyped
<1>6. AccountsTyped' /\ OneAccount'
  BY <1>1, <1>2, <1>5 DEF CredentialsIInv, AccountsTyped, OneAccount
<1>7. \A u \in Visitor : visit[u].pc \notin Registering
  BY <1>2 DEF CredentialsIInv, OwnRow
<1>8. OwnRow' /\ RegisteredIsWhole'
  BY <1>1, <1>3, <1>5, <1>7 DEF OwnRow, RegisteredIsWhole, Registering, doing
<1>9. FailuresJudged'
  <2>1. Counting' = {} /\ Counting = {}
    BY <1>1, <1>2, <1>3, <1>5 DEF Counting, stored
  <2> QED
    BY <1>1, <1>2, <2>1 DEF CredentialsIInv, FailuresJudged
<1> QED
  BY <1>6, <1>8, <1>9 DEF CredentialsIInv

LEMMA CreateProfileSteps ==
  ASSUME CredentialsIInv, NEW v \in Visitor, CreateProfile(v) \/ CreateProfileFails(v)
  PROVE  CredentialsIInv'
<1>1. /\ visit[v].pc = "profile" /\ UNCHANGED <<credentials, failed, lockedUntil, died>>
      /\ profiles' \in {profiles, profiles \cup {visit[v].id}}
      /\ CreateProfile(v) => profiles' = profiles \cup {visit[v].id}
  BY DEF CreateProfile, CreateProfileFails, doing
<1>2. visit[v].id \in AccountId
  BY <1>1 DEF CredentialsIInv, AccountsTyped, OwnRow, Registering
<1>3. PICK pc \in {"registered", "undo"} :
        /\ visit' = [visit EXCEPT ![v].pc = pc]
        /\ pc = "registered" => profiles' = profiles \cup {visit[v].id}
  BY <1>1 DEF CreateProfile, CreateProfileFails, moves
<1> DEFINE x == [visit[v] EXCEPT !.pc = pc]
<1>4. x \in Visit /\ x.pc = pc /\ x.id = visit[v].id
  <2>1. pc \in {"idle", "create", "profile", "undo", "registered", "unlock", "compare", "count", "reset", "lock"}
    OBVIOUS
  <2> QED
    BY <2>1, MovedTo
<1>5. visit' = [visit EXCEPT ![v] = x]
  BY <1>3
<1> HIDE DEF x
<1>6. FailuresJudged'
  BY <1>1, <1>4, <1>5, ElsewhereGoesOn
<1> QED
  BY <1>1, <1>2, <1>3, <1>4, <1>5, <1>6, VisitGoesOn, ZenonT(30) DEF CredentialsIInv, AccountsTyped, Registering

\* The compensation takes away the row of its own registration, and only that.
LEMMA UndoStep ==
  ASSUME CredentialsIInv, NEW v \in Visitor, UndoCredential(v)
  PROVE  CredentialsIInv'
<1>1. /\ visit[v].pc = "undo" /\ visit[v].id \in credentials
      /\ credentials' = credentials \ {visit[v].id}
      /\ visit' = [visit EXCEPT ![v] = VisitIdle] /\ UNCHANGED <<profiles, died>>
  BY DEF UndoCredential, deletes, doing, leaves, CredentialsIInv, OwnRow, Registering
<1>2. credentials' = {} /\ failed' = 0 /\ lockedUntil' = "none"
  BY <1>1 DEF UndoCredential, deletes, CredentialsIInv, OneAccount
<1>3. /\ visit' \in [Visitor -> Visit] /\ visit'[v] = VisitIdle
      /\ \A u \in Visitor \ {v} : visit'[u] = visit[u]
  BY <1>1, IdleVisit DEF CredentialsIInv, AccountsTyped
<1>4. AccountsTyped' /\ OneAccount'
  BY <1>1, <1>2, <1>3, CredentialsAssumption DEF CredentialsIInv, AccountsTyped, OneAccount
<1>5. \A u \in Visitor : visit'[u].pc \notin Registering
  BY <1>1, <1>3, IdleVisit DEF CredentialsIInv, OwnRow, OneAccount, Registering
<1>6. OwnRow' /\ RegisteredIsWhole'
  BY <1>5 DEF OwnRow, RegisteredIsWhole, Registering, doing
<1>7. FailuresJudged'
  <2>1. Counting' = {}
    BY <1>2 DEF Counting, stored
  <2>2. IsFiniteSet(Counting') /\ Cardinality(Counting') = 0
    BY <2>1, FS_EmptySet
  <2> QED
    BY <1>1, <1>2, <2>2, CredentialsAssumption DEF FailuresJudged, CredentialsIInv, AccountsTyped
<1> QED
  BY <1>4, <1>6, <1>7 DEF CredentialsIInv

-----------------------------------------------------------------------------
LEMMA LoginStep ==
  ASSUME CredentialsIInv, NEW v \in Visitor, Login(v)
  PROVE  CredentialsIInv'
<1>1. PICK id \in credentials :
        visit' = [visit EXCEPT ![v] = [id |-> id, count |-> failed,
                    pc |-> IF lockedUntil = "past" THEN "unlock" ELSE "compare"]]
  BY DEF Login
<1> DEFINE x == [id |-> id, count |-> failed, pc |-> IF lockedUntil = "past" THEN "unlock" ELSE "compare"]
<1>2. x \in Visit /\ x.pc \in {"unlock", "compare"}
  BY DEF CredentialsIInv, AccountsTyped, Visit
<1>3. visit' = [visit EXCEPT ![v] = x]
  BY <1>1
<1> HIDE DEF x
<1>4. visit[v].pc \notin {"count", "lock"} /\ UNCHANGED <<credentials, profiles, failed, lockedUntil, died>>
  BY DEF Login
<1>5. FailuresJudged'
  BY <1>2, <1>3, <1>4, ElsewhereGoesOn
<1> QED
  BY <1>2, <1>3, <1>4, <1>5, VisitGoesOn DEF CredentialsIInv, AccountsTyped, Registering

LEMMA PasswordSteps ==
  ASSUME CredentialsIInv, NEW v \in Visitor, RightPassword(v) \/ Unverified(v)
  PROVE  CredentialsIInv'
<1> DEFINE x == [visit[v] EXCEPT !.pc = "reset"]
<1>1. x \in Visit /\ x.pc = "reset"
  BY MovedTo
<1>2. visit' = [visit EXCEPT ![v] = x] \/ visit' = [visit EXCEPT ![v] = VisitIdle]
  BY DEF RightPassword, Unverified, moves, leaves
<1> HIDE DEF x
<1>3. visit[v].pc \notin {"count", "lock"} /\ UNCHANGED <<credentials, profiles, failed, lockedUntil, died>>
  BY DEF RightPassword, Unverified, doing
<1>4. FailuresJudged'
  BY <1>1, <1>2, <1>3, IdleVisit, ElsewhereGoesOn
<1> QED
  BY <1>1, <1>2, <1>3, <1>4, IdleVisit, VisitGoesOn DEF CredentialsIInv, AccountsTyped, Registering

LEMMA ResetStep ==
  ASSUME CredentialsIInv, NEW v \in Visitor, ResetFailureState(v)
  PROVE  CredentialsIInv'
<1> DEFINE x == [visit[v] EXCEPT !.pc = "compare"]
<1>1. x \in Visit /\ x.pc = "compare"
  BY MovedTo
<1>2. visit' = [visit EXCEPT ![v] = x] \/ visit' = [visit EXCEPT ![v] = VisitIdle]
  BY DEF ResetFailureState, moves, leaves
<1> HIDE DEF x
<1>3. visit[v].pc \notin {"count", "lock"} /\ UNCHANGED <<credentials, profiles, died>>
      /\ (UNCHANGED <<failed, lockedUntil>> \/ (failed' = 0 /\ lockedUntil' = "none"))
  BY DEF ResetFailureState
<1>4. Counting' = Counting
  BY <1>1, <1>2, <1>3, IdleVisit, CountingChange DEF Counting
<1>5. FailuresJudged'
  BY <1>3, <1>4, FS_CardinalityType, CredentialsAssumption DEF CredentialsIInv, AccountsTyped, FailuresJudged
<1> QED
  BY <1>1, <1>2, <1>3, <1>5, IdleVisit, VisitGoesOn, CredentialsAssumption
  DEF CredentialsIInv, AccountsTyped, Registering

\* A failure and the login that has to judge it come together.
LEMMA RecordFailedLoginStep ==
  ASSUME CredentialsIInv, NEW v \in Visitor, RecordFailedLogin(v)
  PROVE  CredentialsIInv'
<1> DEFINE x == [visit[v] EXCEPT !.pc = "count"]
<1>1. x \in Visit /\ x.pc = "count" /\ x.id = visit[v].id
  BY MovedTo
<1>2. visit' = [visit EXCEPT ![v] = x]
  BY DEF RecordFailedLogin, moves
<1> HIDE DEF x
<1>3. /\ visit[v].pc = "compare" /\ failed < MaxFailedLogins /\ UNCHANGED <<credentials, profiles, died>>
      /\ ~stored(visit[v].id) => UNCHANGED <<failed, lockedUntil>>
      /\ stored(visit[v].id) =>
           (lockedUntil' = "none" /\ failed' = 1) \/ (lockedUntil' = lockedUntil /\ failed' = failed + 1)
  BY DEF RecordFailedLogin, doing
<1>4. failed' \in 0..MaxFailedLogins /\ lockedUntil' \in {"none", "ahead", "past"}
  BY <1>3, CredentialsAssumption DEF CredentialsIInv, AccountsTyped
<1>5. v \notin Counting
  BY <1>3 DEF Counting
<1>6. /\ Cardinality(Counting) \in Nat
      /\ IsFiniteSet(Counting \cup {v}) /\ Cardinality(Counting \cup {v}) = Cardinality(Counting) + 1
  BY <1>5, CountingSize
<1>7. FailuresJudged'
  <2>1. CASE ~stored(visit[v].id)
    <3>1. Counting' = Counting
      BY <1>1, <1>2, <1>3, <1>5, <2>1, CountingChange
    <3> QED
      BY <1>3, <2>1, <3>1 DEF CredentialsIInv, FailuresJudged
  <2>2. CASE stored(visit[v].id)
    <3>1. Counting' = Counting \cup {v}
      BY <1>1, <1>2, <1>3, <2>2, CountingChange
    <3>2. credentials # {}
      BY <2>2 DEF stored
    <3> QED
      BY <1>3, <1>6, <2>2, <3>1, <3>2, CredentialsAssumption DEF CredentialsIInv, AccountsTyped, FailuresJudged
  <2> QED
    BY <2>1, <2>2
<1> QED
  BY <1>1, <1>2, <1>3, <1>4, <1>7, VisitGoesOn DEF CredentialsIInv, AccountsTyped, Registering

\* Who finds the limit reached locks; who leaves found fewer failures.
LEMMA ReadBackStep ==
  ASSUME CredentialsIInv, NEW v \in Visitor, ReadBack(v)
  PROVE  CredentialsIInv'
<1> DEFINE x == [visit[v] EXCEPT !.pc = "lock"]
<1>1. x \in Visit /\ x.pc = "lock" /\ x.id = visit[v].id
  BY MovedTo
<1>2. /\ visit[v].pc = "count" /\ UNCHANGED <<credentials, profiles, failed, lockedUntil, died>>
      /\ \/ visit' = [visit EXCEPT ![v] = x]
         \/ /\ visit' = [visit EXCEPT ![v] = VisitIdle]
            /\ stored(visit[v].id) => ~(failed >= maxFailedLoginAttempts)
  BY DEF ReadBack, readBack, doing, moves, leaves
<1> HIDE DEF x
<1>3. Cardinality(Counting) \in Nat /\ IsFiniteSet(Counting \ {v})
  BY CountingSize
<1>4. FailuresJudged'
  <2>1. CASE visit' = [visit EXCEPT ![v] = x]
    <3>1. v \in Counting <=> stored(visit[v].id)
      BY <1>2 DEF Counting
    <3>2. Counting' = IF stored(visit[v].id) THEN Counting \cup {v} ELSE Counting \ {v}
      BY <1>1, <1>2, <2>1, CountingChange
    <3>3. Counting' = Counting
      BY <3>1, <3>2
    <3> QED
      BY <1>2, <3>3 DEF CredentialsIInv, FailuresJudged
  <2>2. CASE visit' = [visit EXCEPT ![v] = VisitIdle] /\ ~stored(visit[v].id)
    <3>1. Counting' = Counting
      BY <1>2, <2>2, IdleVisit, CountingChange DEF Counting
    <3> QED
      BY <1>2, <3>1 DEF CredentialsIInv, FailuresJudged
  <2>3. CASE visit' = [visit EXCEPT ![v] = VisitIdle] /\ ~(failed >= maxFailedLoginAttempts)
    <3>1. Counting' = Counting \ {v}
      BY <1>2, <2>3, IdleVisit, CountingChange
    <3>2. Cardinality(Counting') \in Nat /\ IsFiniteSet(Counting')
      BY <1>3, <3>1, FS_CardinalityType
    <3> QED
      BY <1>2, <2>3, <3>2, CredentialsAssumption DEF CredentialsIInv, AccountsTyped, FailuresJudged
  <2> QED
    BY <1>2, <2>1, <2>2, <2>3
<1> QED
  BY <1>1, <1>2, <1>4, IdleVisit, VisitGoesOn DEF CredentialsIInv, AccountsTyped, Registering

LEMMA LockStep ==
  ASSUME CredentialsIInv, NEW v \in Visitor, Lock(v)
  PROVE  CredentialsIInv'
<1>1. /\ visit[v].pc = "lock" /\ UNCHANGED <<credentials, profiles, failed, died>>
      /\ visit' = [visit EXCEPT ![v] = VisitIdle]
      /\ lockedUntil' = IF stored(visit[v].id) THEN "ahead" ELSE lockedUntil
  BY DEF Lock, doing, leaves
<1>2. Counting' = Counting \ {v} /\ IsFiniteSet(Counting \ {v})
  BY <1>1, IdleVisit, CountingChange, CountingSize
<1>3. FailuresJudged'
  <2>1. CASE stored(visit[v].id)
    BY <1>1, <1>2, <2>1 DEF CredentialsIInv, FailuresJudged
  <2>2. CASE ~stored(visit[v].id)
    <3>1. Counting' = Counting
      BY <1>2, <2>2 DEF Counting
    <3> QED
      BY <1>1, <2>2, <3>1 DEF CredentialsIInv, FailuresJudged
  <2> QED
    BY <2>1, <2>2
<1> QED
  BY <1>1, <1>3, IdleVisit, VisitGoesOn DEF CredentialsIInv, AccountsTyped, Registering

\* A login that dies before locking lets one more failure in.
LEMMA VisitDiesStep ==
  ASSUME CredentialsIInv, NEW v \in Visitor, VisitDies(v)
  PROVE  CredentialsIInv'
<1>1. /\ UNCHANGED <<credentials, profiles, failed, lockedUntil>>
      /\ visit' = [visit EXCEPT ![v] = VisitIdle] /\ died < MaxFailedLogins
      /\ died' = IF visit[v].pc \in {"count", "lock"} THEN died + 1 ELSE died
  BY DEF VisitDies, leaves
<1>2. died' \in 0..MaxFailedLogins
  BY <1>1, CredentialsAssumption DEF CredentialsIInv, AccountsTyped
<1>3. Counting' = Counting \ {v}
  BY <1>1, IdleVisit, CountingChange
<1>4. v \in Counting => visit[v].pc \in {"count", "lock"}
  BY DEF Counting
<1>5. IsFiniteSet(Counting')
  BY <1>3, CountingSize
<1>6. Cardinality(Counting) \in Nat /\ Cardinality(Counting') \in Nat /\ died \in Nat
  <2>1. Cardinality(Counting') \in Nat
    BY <1>5, FS_CardinalityType
  <2>2. died \in Nat
    BY CredentialsAssumption DEF CredentialsIInv, AccountsTyped
  <2> QED
    BY <2>1, <2>2, CountingSize
<1>7. Cardinality(Counting) + died <= Cardinality(Counting') + died'
  <2>1. CASE v \in Counting
    <3>1. Cardinality(Counting') = Cardinality(Counting) - 1
      BY <1>3, <2>1, CountingSize
    <3>2. died' = died + 1
      BY <1>1, <1>4, <2>1
    <3> QED
      BY <1>6, <3>1, <3>2
  <2>2. CASE v \notin Counting
    <3>1. Counting' = Counting
      BY <1>3, <2>2
    <3>2. died' \in {died, died + 1}
      BY <1>1
    <3> QED
      BY <1>6, <3>1, <3>2
  <2> QED
    BY <2>1, <2>2
<1>8. FailuresJudged'
  BY <1>1, <1>2, <1>5, <1>6, <1>7, CredentialsAssumption DEF CredentialsIInv, AccountsTyped, FailuresJudged
<1> QED
  BY <1>1, <1>2, <1>8, IdleVisit, VisitGoesOn DEF CredentialsIInv, AccountsTyped, Registering

LEMMA LockPassesStep ==
  ASSUME CredentialsIInv, LockPasses \/ UNCHANGED credentialsVars
  PROVE  CredentialsIInv'
<1>1. /\ UNCHANGED <<credentials, profiles, failed, visit, died>>
      /\ lockedUntil' = lockedUntil \/ lockedUntil' = "past"
  BY DEF LockPasses, credentialsVars
<1>2. Counting' = Counting
  BY <1>1 DEF Counting, stored
<1> QED
  BY <1>1, <1>2 DEF CredentialsIInv, AccountsTyped, OneAccount, OwnRow, RegisteredIsWhole, FailuresJudged, doing

\* However registrations and logins of an email cross and die: it has one account
\* at most, who was told of a registration has it whole, and an account with the
\* failures that lock it is locked (AuthService.register, login).
THEOREM CredentialsCorrect == CredentialsSpec => []CredentialsInv
<1>1. CredentialsIInv /\ [CredentialsNext]_credentialsVars => CredentialsIInv'
  <2> SUFFICES ASSUME CredentialsIInv, [CredentialsNext]_credentialsVars PROVE CredentialsIInv'
    OBVIOUS
  <2> QED
    BY RegisterStep, CreateCredentialStep, CreateProfileSteps, UndoStep, LoginStep, ResetStep, PasswordSteps,
       RecordFailedLoginStep, ReadBackStep, LockStep, VisitDiesStep, LockPassesStep DEF CredentialsNext
<1>2. CredentialsIInv => CredentialsInv
  <2> SUFFICES ASSUME CredentialsIInv PROVE CredentialsInv
    OBVIOUS
  <2>1. Cardinality(credentials) <= 1
    <3>1. CASE credentials = {}
      BY <3>1, FS_EmptySet
    <3>2. ASSUME NEW id \in credentials PROVE Cardinality(credentials) <= 1
      <4>1. credentials = {id}
        BY DEF CredentialsIInv, OneAccount
      <4> QED
        BY <4>1, FS_Singleton
    <3> QED
      BY <3>1, <3>2
  <2>2. LockFollowsCount
    <3> SUFFICES ASSUME \A v \in Visitor : visit[v].pc \in {"idle", "registered"}, lockedUntil = "none"
                 PROVE  ~(failed >= maxFailedLoginAttempts + died)
      BY DEF LockFollowsCount
    <3>1. Counting = {}
      BY DEF Counting
    <3>2. Cardinality(Counting) = 0
      BY <3>1, FS_EmptySet
    <3> QED
      BY <3>2, CredentialsAssumption DEF CredentialsIInv, AccountsTyped, FailuresJudged
  <2> QED
    BY <2>1, <2>2 DEF CredentialsIInv, AccountsTyped, CredentialsTypeOK, CredentialsInv
<1> QED
  BY <1>1, <1>2, AccountsStart, PTL DEF CredentialsSpec

-----------------------------------------------------------------------------
(* Phone numbers: one-time codes (PhoneCodes) *)

\* Requests whose guess at code i is counted and not yet compared.
Guessing(i) == {s \in PhoneSlot : asked[s].pc = "compare" /\ asked[s].code = i}

\* Every counted guess is one compared, or one that still may be.
GuessesCovered ==
  \A i \in DOMAIN codes :
    IsFiniteSet(Guessing(i)) /\ codes[i].compared + Cardinality(Guessing(i)) <= codes[i].attempts

PointsAtRow(a) ==
  /\ a.pc \in {"send", "count", "compare", "consume"} => a.code \in DOMAIN codes
  /\ a.pc \in {"save", "create"} => a.number \in Number
  /\ a.code <= Len(codes)

RecentOnce == \A i, k \in kept : codes[i].age = 0 /\ codes[k].age = 0 => i = k

PhoneIInv ==
  /\ PhoneTypeOK /\ GuessesCovered /\ RecentOnce /\ VerifiedUnlessCrossed
  /\ \A s \in PhoneSlot : PointsAtRow(asked[s])
  /\ Cardinality(kept) <= maxSendsPerHour

LEMMA KeptFinite ==
  ASSUME PhoneIInv
  PROVE  kept \subseteq 1..Len(codes) /\ IsFiniteSet(kept) /\ Cardinality(kept) \in Nat
<1>1. Len(codes) \in Nat /\ DOMAIN codes = 1..Len(codes)
  BY DEF PhoneIInv, PhoneTypeOK
<1>2. kept \subseteq 1..Len(codes)
  BY <1>1 DEF kept
<1>3. IsFiniteSet(kept)
  <2>1. IsFiniteSet(1..Len(codes))
    BY <1>1, FS_Interval
  <2> QED
    BY <1>2, <2>1, FS_Subset
<1> QED
  BY <1>2, <1>3, FS_CardinalityType

LEMMA RowTyped ==
  ASSUME PhoneIInv, NEW i \in DOMAIN codes
  PROVE  /\ codes[i] \in Code /\ codes[i].compared \in Nat /\ codes[i].used \in Nat
         /\ codes[i].attempts \in 0..otpMaxAttempts /\ codes[i].age \in 0..2 /\ codes[i].number \in Number
<1>1. codes[i] \in Code
  BY DEF PhoneIInv, PhoneTypeOK
<1> QED
  BY <1>1 DEF Code

LEMMA LatestIsKept ==
  ASSUME PhoneIInv, kept # {}
  PROVE  latestOf(kept) \in kept
<1>1. kept \in SUBSET Nat /\ IsFiniteSet(kept)
  BY KeptFinite DEF PhoneIInv, PhoneTypeOK
<1>2. \E m \in kept : \A n \in kept : n <= m
  BY <1>1, GreatestExists
<1> QED
  BY <1>2 DEF latestOf

LEMMA GuessingChange ==
  ASSUME PhoneIInv, NEW s \in PhoneSlot, NEW a \in Asked, sets(s, a), NEW i
  PROVE  Guessing(i)' = IF a.pc = "compare" /\ a.code = i THEN Guessing(i) \cup {s} ELSE Guessing(i) \ {s}
BY DEF PhoneIInv, PhoneTypeOK, Guessing, sets

LEMMA SlotMoves ==
  ASSUME PhoneIInv, NEW s \in PhoneSlot, NEW a \in Asked, sets(s, a),
         NEW n \in Nat, a.code <= n, \A t \in PhoneSlot : asked[t].code <= n
  PROVE  /\ asked' \in [PhoneSlot -> Asked] /\ asked'[s] = a
         /\ \A t \in PhoneSlot \ {s} : asked'[t] = asked[t]
         /\ \A t \in PhoneSlot : asked'[t].code <= n
BY DEF PhoneIInv, PhoneTypeOK, sets

LEMMA IdleAsked == AskedIdle \in Asked /\ AskedIdle.pc = "idle" /\ AskedIdle.code = 0
BY DEF AskedIdle, Asked

-----------------------------------------------------------------------------
LEMMA PhoneStart == PhoneInit => PhoneIInv
<1> SUFFICES ASSUME PhoneInit PROVE PhoneIInv
  OBVIOUS
<1> USE PhoneCodesAssumption DEF PhoneInit
<1>1. Len(codes) = 0 /\ DOMAIN codes = {} /\ codes \in Seq(Code)
  OBVIOUS
<1>2. PhoneTypeOK
  <2>1. profile \in [phone : Number \cup {"none"}, verified : BOOLEAN]
    OBVIOUS
  <2>2. \A s \in PhoneSlot : asked[s].code <= Len(codes)
    BY <1>1, IdleAsked
  <2> QED
    BY <1>1, <2>1, <2>2, IdleAsked DEF PhoneTypeOK
<1>3. GuessesCovered /\ RecentOnce /\ VerifiedUnlessCrossed
  BY <1>1 DEF GuessesCovered, RecentOnce, kept, VerifiedUnlessCrossed, VerifiedWasConfirmed
<1>4. \A s \in PhoneSlot : PointsAtRow(asked[s])
  BY <1>1, IdleAsked DEF PointsAtRow
<1>5. kept = {}
  BY <1>1 DEF kept
<1>6. Cardinality(kept) = 0
  BY <1>5, FS_EmptySet
<1> QED
  BY <1>2, <1>3, <1>4, <1>6 DEF PhoneIInv

\* A request that goes on or ends without touching a code.
LEMMA CodesStay ==
  ASSUME PhoneIInv, NEW s \in PhoneSlot, NEW a \in Asked, sets(s, a), UNCHANGED codes,
         a.pc # "compare", PointsAtRow(a),
         profile' \in [phone : Number \cup {"none"}, verified : BOOLEAN],
         confirmed' \subseteq Number, crossed' \in BOOLEAN, VerifiedUnlessCrossed'
  PROVE  PhoneIInv'
<1>1. Len(codes) \in Nat
  BY DEF PhoneIInv, PhoneTypeOK
<1>2. /\ asked' \in [PhoneSlot -> Asked] /\ asked'[s] = a
      /\ \A t \in PhoneSlot \ {s} : asked'[t] = asked[t]
      /\ \A t \in PhoneSlot : asked'[t].code <= Len(codes)
  BY <1>1, SlotMoves DEF PointsAtRow, PhoneIInv, PhoneTypeOK
<1>3. PhoneTypeOK'
  BY <1>2 DEF PhoneIInv, PhoneTypeOK
<1>4. GuessesCovered'
  <2> SUFFICES ASSUME NEW i \in DOMAIN codes
               PROVE  IsFiniteSet(Guessing(i)') /\ codes[i].compared + Cardinality(Guessing(i)') <= codes[i].attempts
    BY DEF GuessesCovered
  <2>1. Guessing(i)' = Guessing(i) \ {s}
    BY GuessingChange
  <2>2. IsFiniteSet(Guessing(i)) /\ codes[i].compared + Cardinality(Guessing(i)) <= codes[i].attempts
    BY DEF PhoneIInv, GuessesCovered
  <2>3. IsFiniteSet(Guessing(i)') /\ Cardinality(Guessing(i)') <= Cardinality(Guessing(i))
    BY <2>1, <2>2, FS_Subset
  <2>4. Cardinality(Guessing(i)) \in Nat /\ Cardinality(Guessing(i)') \in Nat
    BY <2>2, <2>3, FS_CardinalityType
  <2>5. codes[i].compared \in Nat /\ codes[i].attempts \in Nat
    BY RowTyped, PhoneCodesAssumption
  <2> QED
    BY <2>2, <2>3, <2>4, <2>5
<1>5. kept' = kept /\ RecentOnce'
  BY DEF kept, RecentOnce, PhoneIInv
<1>6. \A t \in PhoneSlot : PointsAtRow(asked[t])'
  BY <1>2 DEF PointsAtRow, PhoneIInv
<1> QED
  BY <1>3, <1>4, <1>5, <1>6 DEF PhoneIInv

\* A code that is guessed at, used, deleted or ages.
LEMMA CodeChanges ==
  ASSUME PhoneIInv, NEW k \in DOMAIN codes, NEW c \in Code, codes' = [codes EXCEPT ![k] = c],
         c.used <= 1, c.compared <= c.attempts, codes[k].gone => c.gone, codes[k].age <= c.age,
         asked' \in [PhoneSlot -> Asked], \A t \in PhoneSlot : PointsAtRow(asked'[t]), GuessesCovered',
         profile' \in [phone : Number \cup {"none"}, verified : BOOLEAN],
         confirmed' \subseteq Number, crossed' \in BOOLEAN, VerifiedUnlessCrossed'
  PROVE  PhoneIInv'
<1>1. /\ codes' \in Seq(Code) /\ Len(codes') = Len(codes) /\ DOMAIN codes' = DOMAIN codes
      /\ codes'[k] = c /\ \A i \in DOMAIN codes \ {k} : codes'[i] = codes[i]
  BY DEF PhoneIInv, PhoneTypeOK
<1>2. PhoneTypeOK'
  BY <1>1 DEF PhoneIInv, PhoneTypeOK, PointsAtRow
<1>3. kept' \subseteq kept
  BY <1>1 DEF kept
<1>4. Cardinality(kept') <= maxSendsPerHour
  <2>1. IsFiniteSet(kept) /\ Cardinality(kept) \in Nat
    BY KeptFinite
  <2>2. Cardinality(kept') <= Cardinality(kept) /\ IsFiniteSet(kept')
    BY <1>3, <2>1, FS_Subset
  <2>3. Cardinality(kept') \in Nat
    BY <2>2, FS_CardinalityType
  <2> QED
    BY <2>1, <2>2, <2>3, PhoneCodesAssumption DEF PhoneIInv
<1>5. \A i \in DOMAIN codes : codes'[i].age = 0 => codes[i].age = 0
  BY <1>1, RowTyped DEF Code
<1>6. RecentOnce'
  BY <1>1, <1>3, <1>5 DEF RecentOnce, PhoneIInv, kept
<1>7. \A t \in PhoneSlot : PointsAtRow(asked[t])'
  BY <1>1 DEF PointsAtRow
<1> QED
  BY <1>2, <1>4, <1>6, <1>7 DEF PhoneIInv

\* Codes whose guesses are counted elsewhere keep them.
LEMMA GuessesElsewhere ==
  ASSUME PhoneIInv, NEW s \in PhoneSlot, NEW a \in Asked, sets(s, a),
         asked[s].pc # "compare", a.pc # "compare",
         NEW k \in DOMAIN codes, NEW c \in Code, codes' = [codes EXCEPT ![k] = c],
         c.compared = codes[k].compared, c.attempts = codes[k].attempts
  PROVE  GuessesCovered'
<1>1. \A i : Guessing(i)' = Guessing(i)
  BY GuessingChange DEF Guessing
<1>2. /\ DOMAIN codes' = DOMAIN codes /\ codes'[k] = c
      /\ \A i \in DOMAIN codes \ {k} : codes'[i] = codes[i]
  BY DEF PhoneIInv, PhoneTypeOK
<1> QED
  BY <1>1, <1>2 DEF GuessesCovered, PhoneIInv

-----------------------------------------------------------------------------
LEMMA SlotTyped ==
  ASSUME PhoneIInv, NEW s \in PhoneSlot
  PROVE  asked[s] \in Asked /\ PointsAtRow(asked[s])
BY DEF PhoneIInv, PhoneTypeOK

LEMMA AskedFrom ==
  ASSUME PhoneIInv, NEW pc \in {"idle", "save", "create", "send", "count", "compare", "consume"},
         NEW n \in Number \cup {"none"}, NEW changed \in BOOLEAN, NEW i \in Nat
  PROVE  LET a == [pc |-> pc, number |-> n, changed |-> changed, code |-> i] IN
         a \in Asked /\ a.pc = pc /\ a.number = n /\ a.code = i
BY DEF Asked

\* Asking for anything, and every end that leaves the codes alone.
LEMMA AskSteps ==
  ASSUME PhoneIInv, NEW s \in PhoneSlot,
         \/ \E n \in Number : ReadProfile(s, n) \/ Start(s, n)
         \/ OverLimits(s) \/ SmsSent(s) \/ Verify(s) \/ UsedAlready(s) \/ AskedDies(s)
  PROVE  PhoneIInv'
<1>1. \E a \in Asked : a.pc # "compare" /\ PointsAtRow(a) /\ sets(s, a)
  <2>1. ASSUME done(s) PROVE \E a \in Asked : a.pc # "compare" /\ PointsAtRow(a) /\ sets(s, a)
    <3>1. PointsAtRow(AskedIdle)
      BY IdleAsked DEF PointsAtRow, PhoneIInv, PhoneTypeOK
    <3> QED
      BY <2>1, <3>1, IdleAsked DEF done
  <2>2. ASSUME NEW n \in Number, ReadProfile(s, n) \/ Start(s, n)
        PROVE  \E a \in Asked : a.pc # "compare" /\ PointsAtRow(a) /\ sets(s, a)
    <3> DEFINE a == [AskedIdle EXCEPT !.pc = "save", !.number = n, !.changed = n # profile.phone]
               b == [AskedIdle EXCEPT !.pc = "create", !.number = n]
    <3>1. sets(s, a) \/ sets(s, b)
      BY <2>2 DEF ReadProfile, Start
    <3>2. /\ a \in Asked /\ a.pc = "save" /\ a.number = n /\ a.code = 0
          /\ b \in Asked /\ b.pc = "create" /\ b.number = n /\ b.code = 0
      BY DEF AskedIdle, Asked
    <3> HIDE DEF a, b
    <3>3. PointsAtRow(a) /\ PointsAtRow(b)
      BY <3>2 DEF PointsAtRow, PhoneIInv, PhoneTypeOK
    <3> QED
      BY <3>1, <3>2, <3>3
  <2>3. ASSUME Verify(s) PROVE \E a \in Asked : a.pc # "compare" /\ PointsAtRow(a) /\ sets(s, a)
    <3> DEFINE i == latestOf(kept)
               a == [AskedIdle EXCEPT !.pc = "count", !.code = i]
    <3>1. i \in 1..Len(codes) /\ Len(codes) \in Nat /\ i \in DOMAIN codes
      <4>1. i \in kept
        BY <2>3, LatestIsKept DEF Verify
      <4> QED
        BY <4>1, KeptFinite DEF kept, PhoneIInv, PhoneTypeOK
    <3>2. sets(s, a)
      BY <2>3 DEF Verify
    <3> HIDE DEF i
    <3>0. i \in Nat
      BY <3>1
    <3>3. a \in Asked /\ a.pc = "count" /\ a.code = i
      BY <3>0 DEF AskedIdle, Asked
    <3> HIDE DEF a
    <3>4. PointsAtRow(a)
      BY <3>1, <3>3 DEF PointsAtRow
    <3> QED
      BY <3>2, <3>3, <3>4
  <2> QED
    BY <2>1, <2>2, <2>3 DEF OverLimits, SmsSent, UsedAlready, AskedDies
<1>2. UNCHANGED <<profile, codes, confirmed, crossed>>
  BY DEF ReadProfile, Start, OverLimits, SmsSent, Verify, UsedAlready, AskedDies
<1>3. VerifiedUnlessCrossed'
  BY <1>2 DEF PhoneIInv, VerifiedUnlessCrossed, VerifiedWasConfirmed
<1> QED
  BY <1>1, <1>2, <1>3, CodesStay DEF PhoneIInv, PhoneTypeOK

\* A save overwrites a confirmed number only with the one it had read.
LEMMA UpdateStep ==
  ASSUME PhoneIInv, NEW s \in PhoneSlot, UpdateOwnProfile(s)
  PROVE  PhoneIInv'
<1>1. /\ asked[s].pc = "save" /\ sets(s, AskedIdle) /\ UNCHANGED <<codes, confirmed>>
      /\ profile' = [phone |-> asked[s].number, verified |-> profile.verified /\ ~asked[s].changed]
      /\ crossed' = (crossed \/ (~asked[s].changed /\ profile.phone # asked[s].number))
  BY DEF UpdateOwnProfile, isAt, done
<1>2. asked[s].number \in Number /\ PointsAtRow(AskedIdle)
  BY <1>1, SlotTyped, IdleAsked DEF PointsAtRow, PhoneIInv, PhoneTypeOK
<1>3. profile'.phone = asked[s].number /\ profile'.verified = (profile.verified /\ ~asked[s].changed)
  BY <1>1
<1>4. profile' \in [phone : Number \cup {"none"}, verified : BOOLEAN] /\ crossed' \in BOOLEAN
  <2>1. (profile.verified /\ ~asked[s].changed) \in BOOLEAN
    OBVIOUS
  <2> QED
    BY <1>1, <1>2, <2>1
<1>5. VerifiedUnlessCrossed'
  <2> SUFFICES ASSUME ~crossed', profile'.verified PROVE profile'.phone \in confirmed'
    BY DEF VerifiedUnlessCrossed, VerifiedWasConfirmed
  <2>1. ~crossed /\ profile.verified /\ profile.phone = asked[s].number
    BY <1>1, <1>3
  <2> QED
    BY <1>1, <1>3, <2>1 DEF PhoneIInv, VerifiedUnlessCrossed, VerifiedWasConfirmed
<1> QED
  BY <1>1, <1>2, <1>4, <1>5, IdleAsked, CodesStay DEF PhoneIInv, PhoneTypeOK

-----------------------------------------------------------------------------
\* The only step that adds a code: no other is recent, and the hour allows one more.
LEMMA CreateCodeStep ==
  ASSUME PhoneIInv, NEW s \in PhoneSlot, CreateUnderLimits(s)
  PROVE  PhoneIInv'
<1> DEFINE n == Len(codes) + 1
           c == [number |-> asked[s].number, attempts |-> 0, compared |-> 0,
                 used |-> 0, age |-> 0, gone |-> FALSE]
           a == [AskedIdle EXCEPT !.pc = "send", !.code = n]
<1>1. /\ asked[s].pc = "create" /\ codes' = Append(codes, c) /\ sets(s, a)
      /\ UNCHANGED <<profile, confirmed, crossed>>
      /\ Cardinality(kept) < maxSendsPerHour /\ \A i \in kept : codes[i].age > 0
  BY DEF CreateUnderLimits, isAt, underLimits
<1>2. Len(codes) \in Nat /\ DOMAIN codes = 1..Len(codes) /\ codes \in Seq(Code)
  BY DEF PhoneIInv, PhoneTypeOK
<1>3. /\ c \in Code /\ c.used = 0 /\ c.compared = 0 /\ c.attempts = 0 /\ c.age = 0 /\ c.gone = FALSE
  BY <1>1, SlotTyped, PhoneCodesAssumption DEF Code, PointsAtRow
<1>4. a \in Asked /\ a.pc = "send" /\ a.code = n
  <2>1. n \in Nat
    BY <1>2
  <2> HIDE DEF n
  <2> QED
    BY <2>1 DEF AskedIdle, Asked
<1> HIDE DEF c, a
<1>5. /\ codes' \in Seq(Code) /\ Len(codes') = n /\ DOMAIN codes' = 1..n
      /\ codes'[n] = c /\ \A i \in DOMAIN codes : codes'[i] = codes[i]
  BY <1>1, <1>2, <1>3
<1>6. /\ asked' \in [PhoneSlot -> Asked] /\ asked'[s] = a
      /\ \A t \in PhoneSlot \ {s} : asked'[t] = asked[t]
      /\ \A t \in PhoneSlot : asked'[t].code <= n
  <2>1. n \in Nat /\ \A t \in PhoneSlot : asked[t].code <= n
    BY <1>2, SlotTyped DEF PointsAtRow, Asked
  <2> QED
    BY <1>1, <1>4, <2>1, SlotMoves
<1>7. PhoneTypeOK'
  <2>1. \A i \in DOMAIN codes' : codes'[i].used <= 1 /\ codes'[i].compared <= codes'[i].attempts
    BY <1>2, <1>3, <1>5 DEF PhoneIInv, PhoneTypeOK
  <2> QED
    BY <1>1, <1>5, <1>6, <2>1 DEF PhoneIInv, PhoneTypeOK
<1>8. GuessesCovered'
  <2>1. ASSUME NEW i PROVE Guessing(i)' = Guessing(i)
    <3>1. s \notin Guessing(i)
      BY <1>1 DEF Guessing
    <3>2. Guessing(i)' = Guessing(i) \ {s}
      BY <1>1, <1>4, GuessingChange
    <3> QED
      BY <3>1, <3>2
  <2>2. Guessing(n) = {}
    BY <1>2, SlotTyped DEF Guessing, PointsAtRow, Asked
  <2>3. IsFiniteSet(Guessing(n)) /\ Cardinality(Guessing(n)) = 0
    BY <2>2, FS_EmptySet
  <2> QED
    BY <1>2, <1>3, <1>5, <2>1, <2>3 DEF PhoneIInv, GuessesCovered
<1>9. kept' = kept \cup {n}
  BY <1>2, <1>3, <1>5 DEF kept
<1>10. Cardinality(kept') <= maxSendsPerHour
  <2>1. Cardinality(kept') \in {Cardinality(kept), Cardinality(kept) + 1} /\ Cardinality(kept) \in Nat
    BY <1>9, KeptFinite, FS_AddElement
  <2> QED
    BY <1>1, <2>1, PhoneCodesAssumption
<1>11. RecentOnce'
  <2>1. \A i \in kept' : codes'[i].age = 0 => i = n
    BY <1>1, <1>2, <1>5, <1>9 DEF kept
  <2> QED
    BY <2>1 DEF RecentOnce
<1>12. \A t \in PhoneSlot : PointsAtRow(asked[t])'
  BY <1>2, <1>4, <1>5, <1>6, SlotTyped DEF PointsAtRow
<1>13. VerifiedUnlessCrossed'
  BY <1>1 DEF PhoneIInv, VerifiedUnlessCrossed, VerifiedWasConfirmed
<1> QED
  BY <1>7, <1>8, <1>10, <1>11, <1>12, <1>13 DEF PhoneIInv

-----------------------------------------------------------------------------
\* A guess counted and a request that will compare it come together.
LEMMA RegisterAttemptStep ==
  ASSUME PhoneIInv, NEW s \in PhoneSlot, RegisterAttempt(s)
  PROVE  PhoneIInv'
<1>0. PICK k : k = asked[s].code
  OBVIOUS
<1> DEFINE c == [codes[k] EXCEPT !.attempts = @ + 1]
           a == [asked[s] EXCEPT !.pc = "compare"]
<1>1. asked[s].pc = "count" /\ UNCHANGED <<profile, confirmed, crossed>> /\ k \in DOMAIN codes
  BY <1>0, SlotTyped DEF RegisterAttempt, isAt, PointsAtRow
<1>2. VerifiedUnlessCrossed'
  <2>1. CASE codes' = codes
    BY <1>1 DEF PhoneIInv, VerifiedUnlessCrossed, VerifiedWasConfirmed
  <2> QED
    BY <1>1 DEF PhoneIInv, VerifiedUnlessCrossed, VerifiedWasConfirmed
<1>3. CASE done(s) /\ UNCHANGED codes
  <2>1. PointsAtRow(AskedIdle)
    BY IdleAsked DEF PointsAtRow, PhoneIInv, PhoneTypeOK
  <2> QED
    BY <1>1, <1>2, <1>3, <2>1, IdleAsked, CodesStay DEF done, PhoneIInv, PhoneTypeOK
<1>4. CASE ~(done(s) /\ UNCHANGED codes)
  <2>1. codes' = [codes EXCEPT ![k] = c] /\ sets(s, a) /\ codes[k].attempts < otpMaxAttempts
    BY <1>0, <1>4 DEF RegisterAttempt, registerAttempt
  <2>2. /\ c \in Code /\ c.attempts = codes[k].attempts + 1 /\ c.compared = codes[k].compared
        /\ c.used = codes[k].used /\ c.age = codes[k].age /\ c.gone = codes[k].gone
    <3>1. codes[k].attempts + 1 \in 0..otpMaxAttempts
      BY <1>1, <2>1, RowTyped, PhoneCodesAssumption
    <3> QED
      BY <1>1, <3>1, RowTyped DEF Code
  <2>3. a \in Asked /\ a.pc = "compare" /\ a.code = k /\ PointsAtRow(a)
    <3>1. a \in Asked /\ a.pc = "compare" /\ a.code = k
      BY <1>0, SlotTyped DEF Asked
    <3> HIDE DEF a
    <3> QED
      BY <1>1, <3>1, SlotTyped DEF PointsAtRow
  <2> HIDE DEF a, c
  <2>4. /\ asked' \in [PhoneSlot -> Asked] /\ asked'[s] = a
        /\ \A t \in PhoneSlot \ {s} : asked'[t] = asked[t]
    BY <2>1, <2>3 DEF PhoneIInv, PhoneTypeOK, sets
  <2>5. \A t \in PhoneSlot : PointsAtRow(asked'[t])
    BY <2>3, <2>4, SlotTyped
  <2>6. /\ DOMAIN codes' = DOMAIN codes /\ codes'[k] = c
        /\ \A i \in DOMAIN codes \ {k} : codes'[i] = codes[i]
    BY <1>1, <2>1 DEF PhoneIInv, PhoneTypeOK
  <2>7. GuessesCovered'
    <3>1. ASSUME NEW i \in DOMAIN codes \ {k} PROVE Guessing(i)' = Guessing(i)
      <4>1. Guessing(i)' = Guessing(i) \ {s}
        BY <2>1, <2>3, <3>1, GuessingChange
      <4>2. s \notin Guessing(i)
        BY <1>1 DEF Guessing
      <4> QED
        BY <4>1, <4>2
    <3>2. Guessing(k)' = Guessing(k) \cup {s} /\ s \notin Guessing(k)
      BY <1>1, <2>1, <2>3, GuessingChange DEF Guessing
    <3>3. IsFiniteSet(Guessing(k)) /\ codes[k].compared + Cardinality(Guessing(k)) <= codes[k].attempts
      BY <1>1 DEF PhoneIInv, GuessesCovered
    <3>4. /\ IsFiniteSet(Guessing(k)') /\ Cardinality(Guessing(k)') = Cardinality(Guessing(k)) + 1
          /\ Cardinality(Guessing(k)) \in Nat
      BY <3>2, <3>3, FS_AddElement, FS_CardinalityType
    <3>5. codes[k].compared \in Nat /\ codes[k].attempts \in Nat
      BY <1>1, RowTyped, PhoneCodesAssumption
    <3>6. c.compared + Cardinality(Guessing(k)') <= c.attempts
      BY <2>2, <3>3, <3>4, <3>5
    <3> QED
      BY <2>6, <3>1, <3>4, <3>6 DEF PhoneIInv, GuessesCovered
  <2>8. c.used <= 1 /\ c.compared <= c.attempts /\ codes[k].age <= c.age
    <3>1. codes[k].used <= 1 /\ codes[k].compared <= codes[k].attempts
      BY <1>1 DEF PhoneIInv, PhoneTypeOK
    <3> QED
      BY <1>1, <2>2, <3>1, RowTyped, PhoneCodesAssumption
  <2> QED
    BY <1>1, <1>2, <2>1, <2>2, <2>4, <2>5, <2>7, <2>8, CodeChanges DEF PhoneIInv, PhoneTypeOK
<1> QED
  BY <1>3, <1>4

\* A comparison uses up the guess that was counted for it.
LEMMA CompareStep ==
  ASSUME PhoneIInv, NEW s \in PhoneSlot, NEW right \in BOOLEAN, Compare(s, right)
  PROVE  PhoneIInv'
<1>0. PICK k : k = asked[s].code
  OBVIOUS
<1> DEFINE c == [codes[k] EXCEPT !.compared = @ + 1]
<1>1. /\ asked[s].pc = "compare" /\ UNCHANGED <<profile, confirmed, crossed>> /\ k \in DOMAIN codes
      /\ codes' = [codes EXCEPT ![k] = c]
  BY <1>0, SlotTyped DEF Compare, isAt, PointsAtRow
<1>2. PICK a \in Asked : a.pc # "compare" /\ PointsAtRow(a) /\ sets(s, a)
  <2> DEFINE b == [asked[s] EXCEPT !.pc = "consume"]
  <2>1. b \in Asked /\ b.pc = "consume" /\ b.code = k
    BY <1>0, SlotTyped DEF Asked
  <2>2. sets(s, b) \/ sets(s, AskedIdle)
    BY DEF Compare, done
  <2> HIDE DEF b
  <2>3. PointsAtRow(b) /\ PointsAtRow(AskedIdle)
    BY <1>1, <2>1, IdleAsked, SlotTyped DEF PointsAtRow, PhoneIInv, PhoneTypeOK
  <2> QED
    BY <2>1, <2>2, <2>3, IdleAsked
<1>3. VerifiedUnlessCrossed'
  BY <1>1 DEF PhoneIInv, VerifiedUnlessCrossed, VerifiedWasConfirmed
<1>4. /\ c \in Code /\ c.attempts = codes[k].attempts /\ c.compared = codes[k].compared + 1
      /\ c.used = codes[k].used /\ c.age = codes[k].age /\ c.gone = codes[k].gone
  BY <1>1, RowTyped DEF Code
<1> HIDE DEF c
<1>5. /\ asked' \in [PhoneSlot -> Asked] /\ asked'[s] = a
      /\ \A t \in PhoneSlot \ {s} : asked'[t] = asked[t]
  BY <1>2 DEF PhoneIInv, PhoneTypeOK, sets
<1>6. \A t \in PhoneSlot : PointsAtRow(asked'[t])
  BY <1>2, <1>5, SlotTyped
<1>7. /\ DOMAIN codes' = DOMAIN codes /\ codes'[k] = c
      /\ \A i \in DOMAIN codes \ {k} : codes'[i] = codes[i]
  BY <1>1 DEF PhoneIInv, PhoneTypeOK
<1>8. s \in Guessing(k)
  BY <1>0, <1>1 DEF Guessing
<1>9. /\ IsFiniteSet(Guessing(k)') /\ Cardinality(Guessing(k)') = Cardinality(Guessing(k)) - 1
      /\ Cardinality(Guessing(k)) \in Nat /\ Cardinality(Guessing(k)') \in Nat
      /\ codes[k].compared + Cardinality(Guessing(k)) <= codes[k].attempts
  <2>1. Guessing(k)' = Guessing(k) \ {s}
    BY <1>2, GuessingChange
  <2>2. IsFiniteSet(Guessing(k)) /\ codes[k].compared + Cardinality(Guessing(k)) <= codes[k].attempts
    BY <1>1 DEF PhoneIInv, GuessesCovered
  <2>3. IsFiniteSet(Guessing(k)') /\ Cardinality(Guessing(k)') = Cardinality(Guessing(k)) - 1
    BY <1>8, <2>1, <2>2, FS_RemoveElement
  <2> QED
    BY <2>2, <2>3, FS_CardinalityType
<1>10. codes[k].compared \in Nat /\ codes[k].attempts \in Nat /\ codes[k].used <= 1 /\ codes[k].age \in Nat
  BY <1>1, RowTyped, PhoneCodesAssumption DEF PhoneIInv, PhoneTypeOK
<1>11. c.used <= 1 /\ c.compared <= c.attempts /\ codes[k].age <= c.age
       /\ c.compared + Cardinality(Guessing(k)') <= c.attempts
  BY <1>4, <1>9, <1>10
<1>12. GuessesCovered'
  <2>1. ASSUME NEW i \in DOMAIN codes \ {k} PROVE Guessing(i)' = Guessing(i)
    BY <1>0, <1>1, <1>2, <2>1, GuessingChange DEF Guessing
  <2> QED
    BY <1>7, <1>9, <1>11, <2>1 DEF PhoneIInv, GuessesCovered
<1> QED
  BY <1>1, <1>3, <1>4, <1>5, <1>6, <1>11, <1>12, CodeChanges DEF PhoneIInv, PhoneTypeOK

\* A code is deleted whose message failed, or used once, for its own number.
LEMMA SmsFailsStep ==
  ASSUME PhoneIInv, NEW s \in PhoneSlot, SmsFails(s)
  PROVE  PhoneIInv'
<1> DEFINE k == asked[s].code
           c == [codes[k] EXCEPT !.gone = TRUE]
<1>1. /\ asked[s].pc = "send" /\ UNCHANGED <<profile, confirmed, crossed>> /\ k \in DOMAIN codes
      /\ codes' = [codes EXCEPT ![k] = c] /\ sets(s, AskedIdle)
  BY SlotTyped DEF SmsFails, isAt, done, PointsAtRow
<1>2. /\ c \in Code /\ c.attempts = codes[k].attempts /\ c.compared = codes[k].compared
      /\ c.used = codes[k].used /\ c.age = codes[k].age /\ c.gone = TRUE
  BY <1>1, RowTyped DEF Code
<1> HIDE DEF c, k
<1>3. asked' \in [PhoneSlot -> Asked] /\ \A t \in PhoneSlot : PointsAtRow(asked'[t])
  <2>1. PointsAtRow(AskedIdle)
    BY IdleAsked DEF PointsAtRow, PhoneIInv, PhoneTypeOK
  <2> QED
    BY <1>1, <2>1, IdleAsked DEF PhoneIInv, PhoneTypeOK, sets
<1>4. GuessesCovered' /\ VerifiedUnlessCrossed'
  BY <1>1, <1>2, IdleAsked, GuessesElsewhere DEF PhoneIInv, VerifiedUnlessCrossed, VerifiedWasConfirmed
<1>5. c.used <= 1 /\ c.compared <= c.attempts /\ codes[k].age <= c.age
  BY <1>1, <1>2, RowTyped DEF PhoneIInv, PhoneTypeOK
<1> QED
  BY <1>1, <1>2, <1>3, <1>4, <1>5, CodeChanges DEF PhoneIInv, PhoneTypeOK

LEMMA ConsumeStep ==
  ASSUME PhoneIInv, NEW s \in PhoneSlot, ConsumeAndVerify(s)
  PROVE  PhoneIInv'
<1> DEFINE k == asked[s].code
           c == [codes[k] EXCEPT !.used = @ + 1]
<1>1. /\ asked[s].pc = "consume" /\ k \in DOMAIN codes /\ codes[k].used = 0
      /\ codes' = [codes EXCEPT ![k] = c] /\ sets(s, AskedIdle)
      /\ profile' = [phone |-> codes[k].number, verified |-> TRUE]
      /\ confirmed' = confirmed \cup {codes[k].number} /\ UNCHANGED crossed
  BY SlotTyped DEF ConsumeAndVerify, consume, isAt, done, PointsAtRow
<1>2. /\ c \in Code /\ c.attempts = codes[k].attempts /\ c.compared = codes[k].compared
      /\ c.used = 1 /\ c.age = codes[k].age /\ c.gone = codes[k].gone
  BY <1>1, RowTyped DEF Code
<1> HIDE DEF c, k
<1>3. asked' \in [PhoneSlot -> Asked] /\ \A t \in PhoneSlot : PointsAtRow(asked'[t])
  <2>1. PointsAtRow(AskedIdle)
    BY IdleAsked DEF PointsAtRow, PhoneIInv, PhoneTypeOK
  <2> QED
    BY <1>1, <2>1, IdleAsked DEF PhoneIInv, PhoneTypeOK, sets
<1>4. GuessesCovered'
  BY <1>1, <1>2, IdleAsked, GuessesElsewhere
<1>5. VerifiedUnlessCrossed'
  BY <1>1 DEF VerifiedUnlessCrossed, VerifiedWasConfirmed
<1>6. c.used <= 1 /\ c.compared <= c.attempts /\ codes[k].age <= c.age
  <2>1. codes[k].compared <= codes[k].attempts
    BY <1>1 DEF PhoneIInv, PhoneTypeOK
  <2>2. codes[k].age \in Nat
    BY <1>1, RowTyped DEF Code
  <2> QED
    BY <1>2, <2>1, <2>2
<1>7. profile' \in [phone : Number \cup {"none"}, verified : BOOLEAN] /\ confirmed' \subseteq Number
  BY <1>1, RowTyped DEF PhoneIInv, PhoneTypeOK
<1> QED
  BY <1>1, <1>2, <1>3, <1>4, <1>5, <1>6, <1>7, CodeChanges DEF PhoneIInv, PhoneTypeOK

LEMMA AgeStep ==
  ASSUME PhoneIInv, NEW k \in DOMAIN codes, Age(k)
  PROVE  PhoneIInv'
<1> DEFINE c == [codes[k] EXCEPT !.age = @ + 1]
<1>1. codes' = [codes EXCEPT ![k] = c] /\ codes[k].age < 2 /\ UNCHANGED <<profile, asked, confirmed, crossed>>
  BY DEF Age
<1>2. /\ c \in Code /\ c.attempts = codes[k].attempts /\ c.compared = codes[k].compared
      /\ c.used = codes[k].used /\ c.age = codes[k].age + 1 /\ c.gone = codes[k].gone
  <2>1. codes[k].age + 1 \in 0..2
    BY <1>1, RowTyped
  <2> QED
    BY <2>1, RowTyped DEF Code
<1> HIDE DEF c
<1>3. /\ DOMAIN codes' = DOMAIN codes /\ codes'[k] = c
      /\ \A i \in DOMAIN codes \ {k} : codes'[i] = codes[i]
  BY <1>1 DEF PhoneIInv, PhoneTypeOK
<1>4. GuessesCovered'
  <2>1. \A i : Guessing(i)' = Guessing(i)
    BY <1>1 DEF Guessing
  <2> QED
    BY <1>2, <1>3, <2>1 DEF PhoneIInv, GuessesCovered
<1>5. c.used <= 1 /\ c.compared <= c.attempts /\ codes[k].age <= c.age
  BY <1>2, RowTyped DEF PhoneIInv, PhoneTypeOK
<1>6. VerifiedUnlessCrossed'
  BY <1>1 DEF PhoneIInv, VerifiedUnlessCrossed, VerifiedWasConfirmed
<1>7. asked' \in [PhoneSlot -> Asked] /\ \A t \in PhoneSlot : PointsAtRow(asked'[t])
  BY <1>1, SlotTyped DEF PhoneIInv, PhoneTypeOK
<1> QED
  BY <1>1, <1>2, <1>4, <1>5, <1>6, <1>7, CodeChanges DEF PhoneIInv, PhoneTypeOK

\* However guesses, codes, messages that fail and profile updates cross: no code
\* is guessed at or used more often than it allows, no more codes are sent than a
\* cooldown and an hour allow, and a verified phone was confirmed unless a save
\* overwrote one (PhoneVerificationService, UsersService.updateOwnProfile).
THEOREM PhoneCorrect == PhoneSpec => []PhoneInv
<1>1. PhoneIInv /\ [PhoneNext]_phoneVars => PhoneIInv'
  <2> SUFFICES ASSUME PhoneIInv, [PhoneNext]_phoneVars PROVE PhoneIInv'
    OBVIOUS
  <2>1. CASE PhoneNext
    BY <2>1, AskSteps, UpdateStep, CreateCodeStep, SmsFailsStep, RegisterAttemptStep, CompareStep,
       ConsumeStep, AgeStep DEF PhoneNext
  <2>2. CASE UNCHANGED phoneVars
    <3>1. \A i : Guessing(i)' = Guessing(i)
      BY <2>2 DEF Guessing, phoneVars
    <3>2. GuessesCovered'
      BY <2>2, <3>1 DEF GuessesCovered, PhoneIInv, phoneVars
    <3>3. kept' = kept
      BY <2>2 DEF kept, phoneVars
    <3> QED
      BY <2>2, <3>2, <3>3 DEF PhoneIInv, PhoneTypeOK, RecentOnce, PointsAtRow,
         VerifiedUnlessCrossed, VerifiedWasConfirmed, phoneVars
  <2> QED
    BY <2>1, <2>2
<1>2. PhoneIInv => PhoneInv
  <2> SUFFICES ASSUME PhoneIInv PROVE PhoneInv
    OBVIOUS
  <2>1. GuessesBounded
    <3> SUFFICES ASSUME NEW i \in DOMAIN codes PROVE codes[i].compared <= otpMaxAttempts
      BY DEF GuessesBounded
    <3>1. codes[i].compared <= codes[i].attempts
      BY DEF PhoneIInv, PhoneTypeOK
    <3> QED
      BY <3>1, RowTyped, PhoneCodesAssumption
  <2>2. Cardinality({i \in kept : codes[i].age = 0}) <= 1
    <3> DEFINE R == {i \in kept : codes[i].age = 0}
    <3>1. CASE R = {}
      BY <3>1, FS_EmptySet
    <3>2. ASSUME NEW i \in R PROVE Cardinality(R) <= 1
      <4>1. R = {i}
        BY DEF PhoneIInv, RecentOnce
      <4> HIDE DEF R
      <4> QED
        BY <4>1, FS_Singleton
    <3> QED
      BY <3>1, <3>2
  <2> QED
    BY <2>1, <2>2 DEF PhoneIInv, PhoneInv, SendsBounded
<1> QED
  BY <1>1, <1>2, PhoneStart, PTL DEF PhoneSpec

-----------------------------------------------------------------------------
(* A driver's row (Shift) *)

DeskAgrees ==
  \A c \in Clerk :
    /\ desk[c].pc = "write" => mayMove(desk[c].role, desk[c].read, desk[c].target)
    /\ desk[c].pc \in {"vehicle", "phone", "write"} => registered
    /\ desk[c].pc \in {"create", "vehicle"} => desk[c].vehicle \in Vehicle
    /\ desk[c].pc = "phone" => desk[c].role = "DRIVER" /\ desk[c].target = "AVAILABLE"

ShiftInv == ClaimsExclusive /\ DeskAgrees

LEMMA IdleTyped == DeskIdle \in Desk
BY DEF DeskIdle, Desk, DriverStatus

LEMMA ShiftStarts == ShiftInit => ShiftInv
<1> SUFFICES ASSUME ShiftInit PROVE ShiftInv
  OBVIOUS
<1>1. ShiftTypeOK
  <2>1. phoneOk \in BOOLEAN
    BY Zenon DEF ShiftInit
  <2> QED
    BY <2>1, IdleTyped, ShiftAssumption DEF ShiftInit, ShiftTypeOK, DriverStatus, Review
<1>2. EachClaimMoves
  BY DEF ShiftInit, EachClaimMoves
<1>3. DeskAgrees
  BY DEF ShiftInit, DeskAgrees, DeskIdle
<1> QED
  BY <1>1, <1>2, <1>3 DEF ShiftInv, ClaimsExclusive

\* The current status is the one the move was judged on, so a move into BUSY is a new one.
LEMMA MoveKeeps ==
  ASSUME ShiftInv, NEW c \in Clerk, TransitionStatus(c)
  PROVE  /\ ShiftInv'
         /\ standing' = desk[c].target /\ mayMove(desk[c].role, standing, standing')
         /\ desk[c].read = standing /\ UNCHANGED vehicle /\ registered
<1> USE DEF ShiftInv, ClaimsExclusive, ShiftTypeOK, TransitionStatus, writesStatus, answersMove, leaveDesk
<1>1. /\ standing' = desk[c].target /\ desk[c].read = standing
      /\ mayMove(desk[c].role, standing, standing') /\ standing' \in DriverStatus
      /\ UNCHANGED vehicle /\ registered
  BY DEF DeskAgrees, Desk
<1>2. standing' = "BUSY" => standing # "BUSY"
  BY <1>1 DEF mayMove, isTransitionAllowed, DRIVER_TRANSITIONS
<1>3. moved' \in 0..MaxClaims /\ won' \in 0..MaxClaims /\ EachClaimMoves'
  BY <1>1, <1>2, ShiftAssumption DEF EachClaimMoves
<1>4. desk' \in [Clerk -> Desk]
  BY IdleTyped
<1>5. DeskAgrees'
  BY <1>1 DEF DeskAgrees, registered, DeskIdle
<1> QED
  BY <1>1, <1>3, <1>4, <1>5

\* No other step changes the status, and the vehicle changes offline only.
LEMMA OthersKeep ==
  ASSUME ShiftInv, [ShiftNext]_shiftVars, \A c \in Clerk : ~TransitionStatus(c)
  PROVE  ShiftInv' /\ UNCHANGED standing /\ (vehicle' # vehicle => ~registered \/ standing = "OFFLINE")
<1> USE DEF ShiftInv, ClaimsExclusive, ShiftTypeOK, EachClaimMoves, leaveDesk, registered
<1>1. ASSUME NEW c \in Clerk, NEW v \in Vehicle, RegisterDriver(c, v) PROVE ShiftInv' /\ UNCHANGED <<standing, vehicle>>
  <2>1. desk' \in [Clerk -> Desk] /\ UNCHANGED <<standing, vehicle>>
    BY <1>1, IdleTyped DEF RegisterDriver, DeskIdle, Desk
  <2> QED
    BY <1>1, <2>1 DEF RegisterDriver, DeskAgrees, DeskIdle
<1>2. ASSUME NEW c \in Clerk, InsertDriver(c)
      PROVE  ShiftInv' /\ UNCHANGED standing /\ (vehicle' # vehicle => ~registered)
  <2>1. vehicle' \in Vehicle \cup {NoProfile} /\ registered'
    BY <1>2, ShiftAssumption DEF InsertDriver, DeskAgrees
  <2> QED
    BY <1>2, <2>1, IdleTyped DEF InsertDriver, DeskAgrees, DeskIdle
<1>3. ASSUME NEW c \in Clerk, NEW v \in Vehicle, ChangeVehicle(c, v) PROVE ShiftInv' /\ UNCHANGED <<standing, vehicle>>
  <2>1. desk' \in [Clerk -> Desk]
    BY <1>3, IdleTyped DEF ChangeVehicle, DeskIdle, Desk
  <2> QED
    BY <1>3, <2>1 DEF ChangeVehicle, DeskAgrees, DeskIdle
<1>4. ASSUME NEW c \in Clerk, WriteVehicle(c)
      PROVE  ShiftInv' /\ UNCHANGED standing /\ (vehicle' # vehicle => standing = "OFFLINE")
  <2>1. vehicle' \in Vehicle \cup {NoProfile} /\ registered'
    BY <1>4, ShiftAssumption DEF WriteVehicle, DeskAgrees
  <2> QED
    BY <1>4, <2>1, IdleTyped DEF WriteVehicle, DeskAgrees, DeskIdle
<1>5. ASSUME NEW c \in Clerk, NEW role \in {"DRIVER", "ADMIN"}, NEW t \in DriverStatus, AskStatus(c, role, t)
      PROVE  ShiftInv' /\ UNCHANGED <<standing, vehicle>>
  <2>1. CASE standing = t /\ t \in IDEMPOTENT_STATUSES
    BY <1>5, <2>1, IdleTyped DEF AskStatus, answersMove, IDEMPOTENT_STATUSES, DeskAgrees, DeskIdle
  <2>2. CASE ~(standing = t /\ t \in IDEMPOTENT_STATUSES)
    <3> DEFINE record == [DeskIdle EXCEPT !.pc = "write", !.role = role, !.target = t, !.read = standing]
    <3>0. record \in Desk
      BY DEF DeskIdle, Desk
    <3>1. desk' \in [Clerk -> Desk]
      BY <1>5, <2>2, <3>0 DEF AskStatus
    <3>2. DeskAgrees'
      BY <1>5, <2>2, ZenonT(30) DEF AskStatus, DeskIdle, DeskAgrees, mayMove
    <3>3. UNCHANGED <<standing, vehicle, reviewed, phoneOk, moved, won>>
      BY <1>5, <2>2 DEF AskStatus
    <3> QED
      BY <3>1, <3>2, <3>3
  <2> QED
    BY <2>1, <2>2
<1>6. ASSUME NEW c \in Clerk, GoOnlineAsks(c) PROVE ShiftInv' /\ UNCHANGED <<standing, vehicle>>
  <2>1. desk' \in [Clerk -> Desk]
    BY <1>6, IdleTyped DEF GoOnlineAsks, DeskIdle, Desk, DriverStatus
  <2> QED
    BY <1>6, <2>1 DEF GoOnlineAsks, DeskAgrees, DeskIdle
<1>7. ASSUME NEW c \in Clerk, CheckPhone(c) PROVE ShiftInv' /\ UNCHANGED <<standing, vehicle>>
  <2>1. desk' \in [Clerk -> Desk]
    BY <1>7, IdleTyped DEF CheckPhone, Desk
  <2> QED
    BY <1>7, <2>1 DEF CheckPhone, DeskAgrees, DeskIdle, Desk
<1>8. ASSUME NEW c \in Clerk, LoseTransition(c) PROVE ShiftInv' /\ UNCHANGED <<standing, vehicle>>
  BY <1>8, IdleTyped DEF LoseTransition, answersMove, IDEMPOTENT_STATUSES, DeskAgrees, DeskIdle
<1>9. CASE (\E review \in Review : SetVerification(review)) \/ PhoneChanges \/ UNCHANGED shiftVars
  BY <1>9 DEF SetVerification, PhoneChanges, shiftVars, DeskAgrees
<1> QED
  BY <1>1, <1>2, <1>3, <1>4, <1>5, <1>6, <1>7, <1>8, <1>9 DEF ShiftNext, ShiftStep

LEMMA ShiftInvariant == ShiftSpec => []ShiftInv
<1>1. ShiftInv /\ [ShiftNext]_shiftVars => ShiftInv'
  BY MoveKeeps, OthersKeep
<1> QED
  BY <1>1, ShiftStarts, PTL DEF ShiftSpec

(***************************************************************************)
(* A claim that was answered moved the driver: two requests never take the *)
(* same AVAILABLE driver, however they cross (DriversService.transition).  *)
(***************************************************************************)
THEOREM ClaimsMove == ShiftSpec => []ClaimsExclusive
BY ShiftInvariant, PTL DEF ShiftInv

(***************************************************************************)
(* The row is the job's mid-shift: the status moves along its table, only  *)
(* the platform takes a driver into a job or out of it, and the vehicle    *)
(* changes offline only (updateVehicleWhileOffline, transitionStatus).     *)
(***************************************************************************)
THEOREM RowIsTheJobs == ShiftSpec => ShiftKept
<1>1. ASSUME ShiftInv, [ShiftNext]_shiftVars
      PROVE  /\ vehicle' # vehicle => ~registered \/ standing = "OFFLINE"
             /\ registered /\ standing' # standing => <<standing, standing'>> \in DRIVER_TRANSITIONS
             /\ standing = "BUSY" /\ standing' # "BUSY" =>
                  \E c \in Clerk : desk[c].role = "ADMIN" /\ desk[c].target = standing' /\ desk[c].read = "BUSY"
             /\ ~registered => standing' = standing
  <2>1. ASSUME NEW c \in Clerk, TransitionStatus(c)
        PROVE  /\ <<standing, standing'>> \in DRIVER_TRANSITIONS /\ registered /\ UNCHANGED vehicle
               /\ standing = "BUSY" => desk[c].role = "ADMIN" /\ desk[c].target = standing' /\ desk[c].read = "BUSY"
    BY <1>1, <2>1, MoveKeeps DEF mayMove, isTransitionAllowed, DRIVER_SELF_TRANSITIONS
  <2> QED
    BY <1>1, <2>1, OthersKeep
<1> QED
  BY <1>1, ShiftInvariant, PTL DEF ShiftSpec, ShiftKept

-----------------------------------------------------------------------------
(* Earnings and ratings (Settlement) *)

Rated == {d \in Finished : rating[d] # NotRated}
AskedFor == Outcome \cup {"find", "insert", "recover"}

\* What each slot knows: what it read is still so, or can only have grown.
SlotHolds(a) ==
  /\ asker[a].pc \in AskedFor => asker[a].delivery \in Finished /\ asker[a].score \in Score
  /\ asker[a].pc \in {"settle", "totals"} => asker[a].now \subseteq due
  /\ asker[a].pc = "totals" => \A d \in asker[a].now : ledger[d] = "AVAILABLE"
  /\ asker[a].pc = "answered" =>
       /\ asker[a].now \subseteq asker[a].available
       /\ asker[a].available \subseteq due /\ asker[a].pending \cap asker[a].now = {}
  /\ asker[a].pc \in {"created", "replayed"} => rating[asker[a].delivery] = asker[a].score
  /\ asker[a].pc \in {"recover", "conflict"} => rating[asker[a].delivery] # NotRated
  /\ asker[a].pc = "conflict" => rating[asker[a].delivery] # asker[a].score

SlotTypes(x) ==
  /\ x.pc \in Outcome \cup {"idle", "find", "insert", "recover", "settle", "totals", "answered"}
  /\ x.delivery \in Finished \cup {NotRated} /\ x.score \in Score \cup {NotRated}
  /\ x.now \cup x.pending \cup x.available \subseteq Finished

AskerRecord == [pc : Outcome \cup {"idle", "find", "insert", "recover", "settle", "totals", "answered"},
                delivery : Finished \cup {NotRated}, score : Score \cup {NotRated},
                now : SUBSET Finished, pending : SUBSET Finished, available : SUBSET Finished]

SettlementIInv ==
  /\ ledger \in [Finished -> {"none", "PENDING", "AVAILABLE"}]
  /\ due \subseteq {d \in Finished : ledger[d] # "none"}
  /\ \A d \in Finished : ledger[d] = "AVAILABLE" => d \in due
  /\ rating \in [Finished -> Score \cup {NotRated}]
  /\ summary \in [count : Nat, sum : Nat]
  /\ summary.count = Cardinality(Rated) /\ summary.sum = SumOf(rating, Rated)
  /\ closed \subseteq {d \in Finished : ledger[d] # "none"}
  /\ asker \in [Asker -> AskerRecord]
  /\ \A a \in Asker : SlotHolds(a)

LEMMA IdleAsker == AskerIdle \in AskerRecord /\ AskerIdle.pc = "idle"
BY DEF AskerIdle, AskerRecord

LEMMA RatedFinite ==
  ASSUME NEW r
  PROVE  /\ IsFiniteSet({d \in Finished : r[d] # NotRated})
         /\ Cardinality({d \in Finished : r[d] # NotRated}) \in 0..Cardinality(Finished)
<1> DEFINE R == {d \in Finished : r[d] # NotRated}
<1>1. R \in SUBSET Finished /\ IsFiniteSet(Finished)
  BY SettlementAssumption
<1> HIDE DEF R
<1>2. IsFiniteSet(R) /\ Cardinality(R) <= Cardinality(Finished)
  BY <1>1, FS_Subset
<1>3. Cardinality(R) \in Nat /\ Cardinality(Finished) \in Nat
  BY <1>1, <1>2, FS_CardinalityType
<1> QED
  BY <1>2, <1>3 DEF R

LEMMA SettlementStart == SettlementInit => SettlementIInv
<1> SUFFICES ASSUME SettlementInit PROVE SettlementIInv
  OBVIOUS
<1> USE DEF SettlementInit
<1>1. Rated = {}
  BY DEF Rated
<1>2. summary.count = Cardinality(Rated) /\ summary.sum = SumOf(rating, Rated)
  BY <1>1, FS_EmptySet, SumOfNothing
<1>3. \A a \in Asker : SlotHolds(a)
  BY IdleAsker DEF SlotHolds, AskedFor, Outcome
<1> QED
  BY <1>2, <1>3, IdleAsker DEF SettlementIInv

\* A step of one slot that changes neither ledger nor ratings.
LEMMA AskerMoves ==
  ASSUME SettlementIInv, NEW a \in Asker, NEW x \in AskerRecord, asker' = [asker EXCEPT ![a] = x],
         UNCHANGED <<ledgerVars, ratingVars>>, SlotHolds(a)'
  PROVE  SettlementIInv'
<1>1. asker' \in [Asker -> AskerRecord] /\ \A b \in Asker \ {a} : asker'[b] = asker[b]
  BY DEF SettlementIInv
<1>2. ASSUME NEW b \in Asker \ {a} PROVE SlotHolds(b)'
  BY <1>1, <1>2 DEF SettlementIInv, SlotHolds, ledgerVars, ratingVars
<1>3. Rated' = Rated
  BY DEF Rated, ratingVars
<1> QED
  BY <1>1, <1>2, <1>3 DEF SettlementIInv, ledgerVars, ratingVars

\* The ledger and the due set only go forward.
LEMMA LedgerMoves ==
  ASSUME SettlementIInv, ledger' \in [Finished -> {"none", "PENDING", "AVAILABLE"}],
         \A d \in Finished : ledger[d] = "AVAILABLE" => ledger'[d] = "AVAILABLE",
         \A d \in Finished : ledger[d] # "none" => ledger'[d] # "none",
         due \subseteq due', due' \subseteq {d \in Finished : ledger'[d] # "none"},
         \A d \in Finished : ledger'[d] = "AVAILABLE" => d \in due',
         closed' \subseteq {d \in Finished : ledger'[d] # "none"},
         UNCHANGED <<rating, summary>>,
         asker' \in [Asker -> AskerRecord], \A a \in Asker : asker'[a] = asker[a] \/ SlotHolds(a)'
  PROVE  SettlementIInv'
<1>2. ASSUME NEW a \in Asker, asker'[a] = asker[a] PROVE SlotHolds(a)'
  BY <1>2 DEF SettlementIInv, SlotHolds, AskerRecord
<1>3. Rated' = Rated
  BY DEF Rated
<1> QED
  BY <1>2, <1>3 DEF SettlementIInv

-----------------------------------------------------------------------------
LEMMA DeliverySteps ==
  ASSUME SettlementIInv, Sweep \/ \E d \in Finished : AppendOnce(d) \/ FallDue(d) \/ CloseWindow(d)
  PROVE  SettlementIInv'
<1>1. CASE Sweep
  <2>1. UNCHANGED <<due, ratingVars, asker>> /\ ledger' = settled(due)
    BY <1>1 DEF Sweep
  <2>2. /\ ledger' \in [Finished -> {"none", "PENDING", "AVAILABLE"}]
        /\ \A d \in Finished : ledger[d] # "none" <=> ledger'[d] # "none"
        /\ \A d \in Finished : ledger[d] = "AVAILABLE" => ledger'[d] = "AVAILABLE"
        /\ \A d \in Finished : ledger'[d] = "AVAILABLE" => d \in due
    BY <2>1 DEF settled, SettlementIInv
  <2> QED
    BY <2>1, <2>2, LedgerMoves DEF ratingVars, SettlementIInv
<1>2. ASSUME NEW d \in Finished, AppendOnce(d) PROVE SettlementIInv'
  <2>1. UNCHANGED <<due, ratingVars, asker>> /\ ledger[d] = "none" /\ ledger' = [ledger EXCEPT ![d] = "PENDING"]
    BY <1>2 DEF AppendOnce
  <2>2. /\ ledger' \in [Finished -> {"none", "PENDING", "AVAILABLE"}]
        /\ \A e \in Finished : ledger[e] # "none" => ledger'[e] # "none"
        /\ \A e \in Finished : ledger[e] = "AVAILABLE" <=> ledger'[e] = "AVAILABLE"
    BY <2>1 DEF SettlementIInv
  <2> QED
    BY <2>1, <2>2, LedgerMoves DEF ratingVars, SettlementIInv
<1>3. ASSUME NEW d \in Finished, FallDue(d) PROVE SettlementIInv'
  <2>1. UNCHANGED <<ledger, ratingVars, asker>> /\ ledger[d] = "PENDING" /\ due' = due \cup {d}
    BY <1>3 DEF FallDue
  <2> QED
    BY <2>1, LedgerMoves DEF ratingVars, SettlementIInv
<1>4. ASSUME NEW d \in Finished, CloseWindow(d) PROVE SettlementIInv'
  <2>1. /\ UNCHANGED <<ledger, due, rating, summary, asker>>
        /\ ledger[d] # "none" /\ closed' = closed \cup {d}
    BY <1>4 DEF CloseWindow, ledgerVars
  <2> QED
    BY <2>1, LedgerMoves DEF SettlementIInv
<1> QED
  BY <1>1, <1>2, <1>3, <1>4

\* Reading the earnings: what was due is settled, and what is settled stays.
LEMMA EarningsSteps ==
  ASSUME SettlementIInv, NEW a \in Asker, GetEarnings(a) \/ SettleOwn(a) \/ Totals(a) \/ LoseRequest(a)
  PROVE  SettlementIInv'
<1>1. asker[a] \in AskerRecord
  BY DEF SettlementIInv
<1>2. CASE LoseRequest(a)
  <2>1. SlotHolds(a)'
    BY <1>2, IdleAsker DEF LoseRequest, SlotHolds, AskedFor, Outcome, SettlementIInv
  <2> QED
    BY <1>2, <2>1, IdleAsker, AskerMoves DEF LoseRequest
<1>3. CASE GetEarnings(a)
  <2> DEFINE x == [AskerIdle EXCEPT !.pc = "settle", !.now = due]
  <2>1. x \in AskerRecord /\ x.pc = "settle" /\ x.now = due
    BY DEF AskerIdle, AskerRecord, SettlementIInv
  <2>2. asker' = [asker EXCEPT ![a] = x] /\ UNCHANGED <<ledgerVars, ratingVars>>
    BY <1>3 DEF GetEarnings
  <2> HIDE DEF x
  <2>3. asker'[a] = x
    BY <2>2 DEF SettlementIInv
  <2>4. SlotHolds(a)'
    BY <2>1, <2>2, <2>3 DEF SlotHolds, AskedFor, Outcome, ledgerVars
  <2> QED
    BY <2>1, <2>2, <2>4, AskerMoves
<1>4. CASE SettleOwn(a)
  <2> DEFINE x == [asker[a] EXCEPT !.pc = "totals"]
  <2>1. x \in AskerRecord /\ x.pc = "totals" /\ x.now = asker[a].now
    BY <1>1 DEF AskerRecord
  <2>2. /\ asker' = [asker EXCEPT ![a] = x] /\ UNCHANGED <<due, ratingVars>>
        /\ ledger' = settled(asker[a].now) /\ asker[a].pc = "settle"
    BY <1>4 DEF SettleOwn
  <2> HIDE DEF x
  <2>3. asker[a].now \subseteq due
    BY <2>2 DEF SettlementIInv, SlotHolds
  <2>4. /\ ledger' \in [Finished -> {"none", "PENDING", "AVAILABLE"}]
        /\ \A d \in Finished : ledger[d] # "none" <=> ledger'[d] # "none"
        /\ \A d \in Finished : ledger[d] = "AVAILABLE" => ledger'[d] = "AVAILABLE"
        /\ \A d \in Finished : ledger'[d] = "AVAILABLE" => d \in due
        /\ \A d \in asker[a].now : ledger'[d] = "AVAILABLE"
    BY <2>2, <2>3 DEF settled, SettlementIInv
  <2>5. asker'[a] = x /\ asker' \in [Asker -> AskerRecord] /\ \A b \in Asker \ {a} : asker'[b] = asker[b]
    BY <2>1, <2>2 DEF SettlementIInv
  <2>6. SlotHolds(a)'
    BY <2>1, <2>2, <2>3, <2>4, <2>5 DEF SlotHolds, AskedFor, Outcome
  <2> QED
    BY <2>2, <2>4, <2>5, <2>6, LedgerMoves DEF ratingVars, SettlementIInv
<1>5. CASE Totals(a)
  <2> DEFINE p == {d \in Finished : ledger[d] = "PENDING"}
             v == {d \in Finished : ledger[d] = "AVAILABLE"}
             x == [asker[a] EXCEPT !.pc = "answered", !.pending = p, !.available = v]
  <2>1. x \in AskerRecord /\ x.pc = "answered" /\ x.now = asker[a].now /\ x.pending = p /\ x.available = v
    BY <1>1 DEF AskerRecord
  <2>2. asker' = [asker EXCEPT ![a] = x] /\ UNCHANGED <<ledgerVars, ratingVars>> /\ asker[a].pc = "totals"
    BY <1>5 DEF Totals
  <2> HIDE DEF x
  <2>3. asker'[a] = x
    BY <2>2 DEF SettlementIInv
  <2>4. v \subseteq due /\ asker[a].now \subseteq v /\ p \cap asker[a].now = {}
    BY <1>1, <2>2 DEF SettlementIInv, SlotHolds, AskerRecord
  <2>5. SlotHolds(a)'
    BY <2>1, <2>2, <2>3, <2>4 DEF SlotHolds, AskedFor, Outcome, ledgerVars
  <2> QED
    BY <2>1, <2>2, <2>5, AskerMoves
<1> QED
  BY <1>2, <1>3, <1>4, <1>5

-----------------------------------------------------------------------------
\* A request about a rating that changes nothing yet, or nothing at all.
LEMMA RatingSteps ==
  ASSUME SettlementIInv, NEW a \in Asker,
         \/ \E d \in Finished, score \in Score : Rate(a, d, score)
         \/ FindRating(a) \/ UniqueViolation(a) \/ RecoverRating(a)
  PROVE  SettlementIInv'
<1>1. asker[a] \in AskerRecord /\ SlotHolds(a)
  BY DEF SettlementIInv
<1>2. ASSUME NEW d \in Finished, NEW score \in Score, Rate(a, d, score) PROVE SettlementIInv'
  <2> DEFINE x == [AskerIdle EXCEPT !.pc = "find", !.delivery = d, !.score = score]
  <2>1. x \in AskerRecord /\ x.pc = "find" /\ x.delivery = d /\ x.score = score
    BY DEF AskerIdle, AskerRecord
  <2>2. asker' = [asker EXCEPT ![a] = x] /\ UNCHANGED <<ledgerVars, ratingVars>>
    BY <1>2 DEF Rate
  <2> HIDE DEF x
  <2>3. asker'[a] = x
    BY <2>2 DEF SettlementIInv
  <2>4. SlotHolds(a)'
    BY <2>1, <2>2, <2>3 DEF SlotHolds, AskedFor, Outcome
  <2> QED
    BY <2>1, <2>2, <2>4, AskerMoves
<1>3. CASE FindRating(a) \/ UniqueViolation(a) \/ RecoverRating(a)
  <2>1. asker[a].pc \in {"find", "insert", "recover"} /\ UNCHANGED <<ledgerVars, ratingVars>>
    BY <1>3 DEF FindRating, UniqueViolation, RecoverRating
  <2>2. PICK pc \in {"replayed", "conflict", "refused", "insert", "recover"} :
          /\ asker' = [asker EXCEPT ![a].pc = pc]
          /\ pc = "replayed" => rating[asker[a].delivery] = asker[a].score
          /\ pc \in {"recover", "conflict"} => rating[asker[a].delivery] # NotRated
          /\ pc = "conflict" => rating[asker[a].delivery] # asker[a].score
    BY <1>1, <1>3 DEF FindRating, UniqueViolation, RecoverRating, replayOrConflict, SlotHolds
  <2> DEFINE x == [asker[a] EXCEPT !.pc = pc]
  <2>3. x \in AskerRecord /\ x.pc = pc /\ x.delivery = asker[a].delivery /\ x.score = asker[a].score
    BY <1>1 DEF AskerRecord, Outcome
  <2>4. asker' = [asker EXCEPT ![a] = x]
    BY <2>2
  <2> HIDE DEF x
  <2>5. asker'[a] = x
    BY <2>4 DEF SettlementIInv
  <2>6. SlotHolds(a)'
    BY <1>1, <2>1, <2>2, <2>3, <2>5 DEF SlotHolds, AskedFor, Outcome, ratingVars
  <2> QED
    BY <2>1, <2>3, <2>4, <2>6, AskerMoves
<1> QED
  BY <1>2, <1>3

\* The only step that stores a rating counts it; no other delivery's changes.
LEMMA CreateRatingStep ==
  ASSUME SettlementIInv, NEW a \in Asker, CreateRating(a)
  PROVE  SettlementIInv'
<1>1. PICK d, n : d = asker[a].delivery /\ n = asker[a].score
  OBVIOUS
<1> DEFINE x == [asker[a] EXCEPT !.pc = "created"]
<1>2. /\ asker[a] \in AskerRecord /\ asker[a].pc = "insert" /\ rating[d] = NotRated
      /\ rating' = [rating EXCEPT ![d] = n]
      /\ summary' = [summary EXCEPT !.count = @ + 1, !.sum = @ + n]
      /\ asker' = [asker EXCEPT ![a] = x] /\ UNCHANGED <<ledger, due, closed>>
  BY <1>1 DEF SettlementIInv, CreateRating, ledgerVars
<1>3. d \in Finished /\ n \in Score /\ n \in Nat /\ n # NotRated
  BY <1>1, <1>2, SettlementAssumption DEF SettlementIInv, SlotHolds, AskedFor
<1>4. x \in AskerRecord /\ x.pc = "created" /\ x.delivery = d /\ x.score = n
  BY <1>1, <1>2 DEF AskerRecord, Outcome
<1> HIDE DEF x
<1>5. /\ rating' \in [Finished -> Score \cup {NotRated}] /\ rating'[d] = n
      /\ \A e \in Finished \ {d} : rating'[e] = rating[e]
  BY <1>2, <1>3 DEF SettlementIInv
<1>6. Rated' = Rated \cup {d} /\ d \notin Rated /\ IsFiniteSet(Rated)
  BY <1>2, <1>3, <1>5, RatedFinite DEF Rated
<1>7. /\ SumOf(rating, Rated) \in Nat
      /\ SumOf(rating', Rated') = SumOf(rating, Rated) + n
  <2>1. \A y \in Rated : rating[y] \in Nat /\ rating'[y] = rating[y]
    BY <1>5, <1>6, SettlementAssumption DEF Rated, SettlementIInv
  <2>2. rating'[d] \in Nat
    BY <1>3, <1>5
  <2> QED
    <3>1. SumOf(rating, Rated) \in Nat /\ SumOf(rating', Rated \cup {d}) = SumOf(rating, Rated) + rating'[d]
      BY <1>6, <2>1, <2>2, SumGrows
    <3> QED
      BY <1>5, <1>6, <3>1
<1>8. Cardinality(Rated) \in Nat /\ Cardinality(Rated') = Cardinality(Rated) + 1
  BY <1>6, FS_AddElement, FS_CardinalityType
<1>9. /\ summary' \in [count : Nat, sum : Nat]
      /\ summary'.count = Cardinality(Rated') /\ summary'.sum = SumOf(rating', Rated')
  <2>1. summary.count = Cardinality(Rated) /\ summary.sum = SumOf(rating, Rated)
        /\ summary \in [count : Nat, sum : Nat]
    BY DEF SettlementIInv
  <2>2. summary'.count = summary.count + 1 /\ summary'.sum = summary.sum + n
    BY <1>2, <2>1
  <2>3. summary' \in [count : Nat, sum : Nat]
    <3>1. PICK c \in Nat, t \in Nat : c = summary.count + 1 /\ t = summary.sum + n
      BY <1>3, <2>1
    <3>2. summary' = [summary EXCEPT !.count = c, !.sum = t]
      BY <1>2, <3>1
    <3> QED
      BY <2>1, <3>2
  <2> QED
    BY <1>7, <1>8, <2>1, <2>2, <2>3
<1>10. asker' \in [Asker -> AskerRecord] /\ asker'[a] = x /\ \A b \in Asker \ {a} : asker'[b] = asker[b]
  BY <1>2, <1>4 DEF SettlementIInv
<1>11. SlotHolds(a)'
  BY <1>3, <1>4, <1>5, <1>10 DEF SlotHolds, AskedFor, Outcome
<1>12. ASSUME NEW b \in Asker \ {a} PROVE SlotHolds(b)'
  <2>1. asker'[b] = asker[b] /\ SlotHolds(b)
    BY <1>10 DEF SettlementIInv
  <2>2. asker[b].pc \in {"created", "replayed", "recover", "conflict"} => rating'[asker[b].delivery] = rating[asker[b].delivery]
    <3>1. asker[b].pc \in {"created", "replayed", "recover", "conflict"} =>
            asker[b].delivery \in Finished /\ rating[asker[b].delivery] # NotRated
      BY <2>1, SettlementAssumption DEF SlotHolds, AskedFor, Outcome
    <3> QED
      BY <1>2, <1>5, <3>1
  <2> QED
    BY <1>2, <2>1, <2>2 DEF SlotHolds
<1> QED
  BY <1>2, <1>5, <1>9, <1>10, <1>11, <1>12 DEF SettlementIInv

\* However sweeps, reads of the earnings, ratings and their repetitions cross: an
\* answer about earnings is exact, the running summary is the count and the sum of
\* the ratings stored, and a repeated request gets its own rating back
\* (EarningsService, RatingsService.rate, RatingsRepository.create).
THEOREM SettlementCorrect == SettlementSpec => []SettlementInv
<1>1. SettlementIInv /\ [SettlementNext]_settlementVars => SettlementIInv'
  <2> SUFFICES ASSUME SettlementIInv, [SettlementNext]_settlementVars PROVE SettlementIInv'
    OBVIOUS
  <2>1. CASE SettlementNext
    BY <2>1, DeliverySteps, EarningsSteps, RatingSteps, CreateRatingStep DEF SettlementNext
  <2>2. CASE UNCHANGED settlementVars
    <3>1. Rated' = Rated /\ \A a \in Asker : SlotHolds(a)'
      BY <2>2 DEF Rated, SlotHolds, SettlementIInv, settlementVars
    <3> QED
      BY <2>2, <3>1 DEF SettlementIInv, settlementVars
  <2> QED
    BY <2>1, <2>2
<1>2. SettlementIInv => SettlementInv
  <2> SUFFICES ASSUME SettlementIInv PROVE SettlementInv
    OBVIOUS
  <2>1. Cardinality(Rated) \in 0..Cardinality(Finished)
    BY RatedFinite DEF Rated
  <2>2. SettlementTypeOK
    <3>1. summary \in [count : 0..Cardinality(Finished), sum : Nat]
      BY <2>1 DEF SettlementIInv
    <3> QED
      BY <3>1 DEF SettlementIInv, SettlementTypeOK, AskerRecord
  <2>3. SummaryCannotDrift
    BY DEF SettlementIInv, SummaryCannotDrift, SumOf, Rated
  <2>4. EarningsExact
    BY DEF SettlementIInv, EarningsExact, SlotHolds
  <2>5. RetryIsReplayed
    BY DEF SettlementIInv, RetryIsReplayed, SlotHolds
  <2> QED
    BY <2>2, <2>3, <2>4, <2>5 DEF SettlementInv
<1> QED
  BY <1>1, <1>2, SettlementStart, PTL DEF SettlementSpec
=============================================================================
