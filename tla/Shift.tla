-------------------------------- MODULE Shift --------------------------------
(***************************************************************************)
(* One driver's profile in driver-service: registering, the vehicle, the   *)
(* admin's review, and every route that moves the status.  A request reads *)
(* the row, is judged on what it read, and writes with a compare-and-set;  *)
(* going online asks user-service for the phone in between.                *)
(***************************************************************************)
EXTENDS Lifecycle, Naturals

CONSTANTS
  Clerk,      \* slots for requests at work
  Vehicle,    \* vehicles (type and plate)
  NoProfile,  \* before the driver registered
  MaxClaims   \* bound: moves into BUSY

ASSUME ShiftAssumption == MaxClaims \in Nat /\ NoProfile \notin Vehicle

VARIABLES
  standing,   \* drivers.status
  vehicle,    \* vehicleType and licensePlate, NoProfile without a row
  reviewed,   \* verificationStatus
  phoneOk,    \* user-service: the profile has a phoneVerifiedAt
  desk,       \* what each slot is doing
  moved,      \* moves AVAILABLE -> BUSY so far
  won         \* requests for BUSY answered without an error

shiftVars == <<standing, vehicle, reviewed, phoneOk, desk, moved, won>>

Review == {"PENDING", "VERIFIED", "REJECTED"}
DeskIdle == [pc |-> "idle", role |-> "DRIVER", target |-> "OFFLINE", read |-> "OFFLINE", vehicle |-> NoProfile]
Desk == [pc : {"idle", "create", "vehicle", "phone", "write"}, role : {"DRIVER", "ADMIN"},
         target : DriverStatus, read : DriverStatus, vehicle : Vehicle \cup {NoProfile}]

ShiftTypeOK ==
  /\ standing \in DriverStatus /\ vehicle \in Vehicle \cup {NoProfile}
  /\ reviewed \in Review /\ phoneOk \in BOOLEAN
  /\ desk \in [Clerk -> Desk]
  /\ moved \in 0..MaxClaims /\ won \in 0..MaxClaims

ShiftInit ==
  /\ standing = "OFFLINE" /\ vehicle = NoProfile /\ reviewed = "PENDING"
  /\ phoneOk = FALSE
  /\ desk = [c \in Clerk |-> DeskIdle]
  /\ moved = 0 /\ won = 0

leaveDesk(c) == desk' = [desk EXCEPT ![c] = DeskIdle]
registered == vehicle # NoProfile

-----------------------------------------------------------------------------
(* register, updateOwnVehicle, setVerification *)
RegisterDriver(c, v) ==
  /\ desk[c].pc = "idle" /\ ~registered
  /\ desk' = [desk EXCEPT ![c] = [DeskIdle EXCEPT !.pc = "create", !.vehicle = v]]
  /\ UNCHANGED <<standing, vehicle, reviewed, phoneOk, moved, won>>

\* The insert on the unique index of userId; the row starts OFFLINE and PENDING.
InsertDriver(c) ==
  /\ desk[c].pc = "create"
  /\ vehicle' = IF registered THEN vehicle ELSE desk[c].vehicle
  /\ leaveDesk(c)
  /\ UNCHANGED <<standing, reviewed, phoneOk, moved, won>>

ChangeVehicle(c, v) ==
  /\ desk[c].pc = "idle" /\ registered
  /\ standing = "OFFLINE"
  /\ desk' = [desk EXCEPT ![c] = [DeskIdle EXCEPT !.pc = "vehicle", !.vehicle = v]]
  /\ UNCHANGED <<standing, vehicle, reviewed, phoneOk, moved, won>>

WriteVehicle_Unchecked(c) ==
  /\ desk[c].pc = "vehicle"
  /\ vehicle' = desk[c].vehicle
  /\ leaveDesk(c)
  /\ UNCHANGED <<standing, reviewed, phoneOk, moved, won>>
WriteVehicle(c) ==
  /\ desk[c].pc = "vehicle"
  /\ vehicle' = IF standing = "OFFLINE" THEN desk[c].vehicle ELSE vehicle \* else 409
  /\ leaveDesk(c)
  /\ UNCHANGED <<standing, reviewed, phoneOk, moved, won>>

SetVerification(review) ==
  /\ registered
  /\ reviewed' = review
  /\ UNCHANGED <<standing, vehicle, phoneOk, desk, moved, won>>

-----------------------------------------------------------------------------
(* The routes that move the status, and transition *)
IDEMPOTENT_STATUSES == {"AVAILABLE", "OFFLINE"}
DRIVER_SELF_TRANSITIONS == {<<"OFFLINE", "AVAILABLE">>, <<"AVAILABLE", "OFFLINE">>}

mayMove(role, from, to) ==
  /\ isTransitionAllowed(DRIVER_TRANSITIONS, from, to)
  /\ role = "ADMIN" \/ <<from, to>> \in DRIVER_SELF_TRANSITIONS

\* The request is answered: a no-op, a move, or a lost race to the same target.
answersMove(c, target) ==
  /\ won' = IF target = "BUSY" THEN won + 1 ELSE won
  /\ leaveDesk(c)

\* POST /drivers/me/offline and me/status, PATCH /drivers/:id/status: the read.
AskStatus(c, role, target) ==
  /\ desk[c].pc = "idle" /\ registered
  /\ target = "BUSY" => won < MaxClaims
  /\ IF standing = target /\ target \in IDEMPOTENT_STATUSES
       THEN answersMove(c, target)
       ELSE /\ mayMove(role, standing, target) \* else 409 or 403
            /\ desk' = [desk EXCEPT ![c] = [DeskIdle EXCEPT !.pc = "write", !.role = role,
                                                            !.target = target, !.read = standing]]
            /\ UNCHANGED won
  /\ UNCHANGED <<standing, vehicle, reviewed, phoneOk, moved>>

\* POST /drivers/me/online with phoneVerificationRequired: one online already
\* stays online, anyone else's phone is looked up.
GoOnlineAsks(c) ==
  /\ desk[c].pc = "idle" /\ registered /\ standing # "AVAILABLE"
  /\ desk' = [desk EXCEPT ![c] = [DeskIdle EXCEPT !.pc = "phone", !.target = "AVAILABLE", !.read = standing]]
  /\ UNCHANGED <<standing, vehicle, reviewed, phoneOk, moved, won>>

CheckPhone(c) ==
  /\ desk[c].pc = "phone"
  /\ IF phoneOk /\ mayMove("DRIVER", desk[c].read, "AVAILABLE")
       THEN desk' = [desk EXCEPT ![c].pc = "write"] ELSE leaveDesk(c)
  /\ UNCHANGED <<standing, vehicle, reviewed, phoneOk, moved, won>>

PhoneChanges ==
  /\ phoneOk' = ~phoneOk
  /\ UNCHANGED <<standing, vehicle, reviewed, desk, moved, won>>

writesStatus(c) ==
  LET t == desk[c].target IN
  /\ t = "BUSY" => moved < MaxClaims
  /\ standing' = t
  /\ moved' = IF t = "BUSY" /\ standing # "BUSY" THEN moved + 1 ELSE moved
  /\ answersMove(c, t)
  /\ UNCHANGED <<vehicle, reviewed, phoneOk>>

TransitionStatus_Blind(c) == desk[c].pc = "write" /\ writesStatus(c)
TransitionStatus(c) == desk[c].pc = "write" /\ standing = desk[c].read /\ writesStatus(c)

\* Another writer changed the row first: fine if to the same idempotent status.
LoseTransition(c) ==
  /\ desk[c].pc = "write" /\ standing # desk[c].read
  /\ IF standing = desk[c].target /\ desk[c].target \in IDEMPOTENT_STATUSES
       THEN answersMove(c, desk[c].target) ELSE leaveDesk(c) /\ UNCHANGED won
  /\ UNCHANGED <<standing, vehicle, reviewed, phoneOk, moved>>

-----------------------------------------------------------------------------
ShiftStep(c) ==
  \/ InsertDriver(c) \/ WriteVehicle(c)
  \/ \E v \in Vehicle : RegisterDriver(c, v) \/ ChangeVehicle(c, v)
  \/ \E role \in {"DRIVER", "ADMIN"}, t \in DriverStatus : AskStatus(c, role, t)
  \/ GoOnlineAsks(c) \/ CheckPhone(c) \/ TransitionStatus(c) \/ LoseTransition(c)

ShiftNext ==
  \/ \E c \in Clerk : ShiftStep(c)
  \/ \E review \in Review : SetVerification(review)
  \/ PhoneChanges

ShiftSpec == ShiftInit /\ [][ShiftNext]_shiftVars

-----------------------------------------------------------------------------
(* What driver-service promises *)

\* "Claiming a driver must be exclusive, so a second claim of a BUSY driver is
\* always a conflict": each answer to a claim is a move of its own, whoever else
\* claims, releases or leaves meanwhile (transition, IDEMPOTENT_STATUSES).
EachClaimMoves == won <= moved

\* That, with the row well typed through registrations and reviews that cross
\* (DriversService.transition).
ClaimsExclusive == ShiftTypeOK /\ EachClaimMoves

\* Mid-shift the row is the job's: the vehicle the customer was shown does not
\* change, a second registration does not start it over, and only the platform
\* takes a driver into a job or out of it, though each was judged on a status
\* that may have changed (updateVehicleWhileOffline, transitionStatus).
ShiftKept ==
  [][/\ vehicle' # vehicle => ~registered \/ standing = "OFFLINE"
     /\ registered /\ standing' # standing => <<standing, standing'>> \in DRIVER_TRANSITIONS
     /\ standing = "BUSY" /\ standing' # "BUSY" =>
          \E c \in Clerk : desk[c].role = "ADMIN" /\ desk[c].target = standing' /\ desk[c].read = "BUSY"
     /\ ~registered => standing' = standing]_shiftVars
=============================================================================
