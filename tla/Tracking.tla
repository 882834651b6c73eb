------------------------------ MODULE Tracking ------------------------------
(***************************************************************************)
(* A customer's realtime stream of one delivery (tracking-service): the    *)
(* world it shows, the driver's reports that change it, the triggers Redis *)
(* carries at most once, and the Subscription that recomputes and sends.   *)
(*                                                                         *)
(* A trigger says only that something changed; the stream reloads and      *)
(* sends what differs.  Every await of the Subscription is a step of its   *)
(* own: opening it runs beside the recomputes it schedules, and the client *)
(* may leave at any of them.                                               *)
(***************************************************************************)
EXTENDS Naturals

CONSTANTS
  MaxReport  \* bound: positions the driver's device captures

ASSUME TrackingAssumption == MaxReport \in Nat

VARIABLES
  delivery,  \* delivery-service's state of the delivery
  onOther,   \* the driver is on another delivery
  position,  \* the driver's last accepted report in Redis
  report,    \* the report being handled
  triggers,  \* channels with a message on its way
  stream,    \* the Subscription
  opening,   \* where start() is
  running,   \* where run() is
  answered,  \* what delivery-service answered to start() and to run(), on its way back
  lost       \* a change nobody reported, not caught up with yet

world == <<delivery, onOther, position, report>>
trackingVars == <<world, triggers, stream, opening, running, answered, lost>>

Channel == {"delivery", "driver"}
NoPosition == [on |-> "none", recorded |-> 0, stale |-> FALSE]
Position == [on : {"none", "this", "other"}, recorded : 0..MaxReport, stale : BOOLEAN]
NoReport == [pc |-> "idle", on |-> "none", recorded |-> 0]
TrackingState == {"NO_DRIVER", "AWAITING_LOCATION", "LIVE", "STALE", "ENDED"}
NothingSent == [tracking |-> "none", on |-> "none", recorded |-> 0]
Snapshot == [tracking : TrackingState, on : {"none", "this", "other"}, recorded : 0..MaxReport]
Answer == {"none", "waiting", "assigned", "ended"}

TrackingTypeOK ==
  /\ delivery \in Answer \ {"none"} /\ onOther \in BOOLEAN
  /\ position \in Position
  /\ report \in [pc : {"idle", "check", "save"}, on : {"none", "this", "other"}, recorded : 0..MaxReport]
  /\ triggers \subseteq Channel
  /\ stream \in [closed : BOOLEAN, context : Answer,
                 followed : BOOLEAN, held : SUBSET Channel, joined : SUBSET Channel,
                 pending : {"none", "location", "full"}, armed : BOOLEAN, timers : BOOLEAN,
                 sent : Snapshot \cup {NothingSent}, ends : 0..2]
  /\ stream.held \subseteq stream.joined
  /\ opening \in {"new", "ask", "load", "join", "opened", "rejected"}
  /\ running \in {"idle", "ask", "load", "join", "read"}
  /\ answered \in [start : Answer, run : Answer]
  /\ lost \in BOOLEAN

TrackingInit ==
  /\ delivery = "waiting" /\ onOther = FALSE
  /\ position = NoPosition /\ report = NoReport
  /\ triggers = {} /\ lost = FALSE
  /\ stream = [closed |-> FALSE, context |-> "none", followed |-> FALSE, held |-> {}, joined |-> {},
               pending |-> "none", armed |-> FALSE, timers |-> FALSE, sent |-> NothingSent, ends |-> 0]
  /\ opening = "new" /\ running = "idle"
  /\ answered = [start |-> "none", run |-> "none"]

\* resolveTracking on what positionForDelivery lets through.
resolveTracking(status, p) ==
  CASE status = "ended" -> [NothingSent EXCEPT !.tracking = "ENDED"]
    [] status = "waiting" -> [NothingSent EXCEPT !.tracking = "NO_DRIVER"]
    [] status = "assigned" /\ p.on = "none" -> [NothingSent EXCEPT !.tracking = "AWAITING_LOCATION"]
    [] status = "assigned" /\ p.on # "none" ->
         [tracking |-> IF p.stale THEN "STALE" ELSE "LIVE", on |-> p.on, recorded |-> p.recorded]

positionForDelivery_Any(p) == p
positionForDelivery(p) == IF p.on = "this" THEN p ELSE NoPosition

current == resolveTracking(delivery, positionForDelivery(position))

-----------------------------------------------------------------------------
(* The world: delivery-service moves on, the driver's device reports *)
DeliveryMoves ==
  /\ \/ delivery = "waiting" /\ ~onOther /\ delivery' = "assigned"
     \/ delivery # "ended" /\ delivery' = "ended"
  /\ triggers' = triggers \cup {"delivery"}
  /\ UNCHANGED <<onOther, position, report, stream, opening, running, answered, lost>>

DriverTakesOther ==
  /\ delivery = "waiting" /\ onOther' = ~onOther
  /\ UNCHANGED <<delivery, position, report, triggers, stream, opening, running, answered, lost>>

\* getCurrentForDriver; a report may repeat or precede one already made.
UpdateLocation(n) ==
  /\ report.pc = "idle" /\ (delivery = "assigned" \/ onOther)
  /\ n <= position.recorded + 1
  /\ report' = [pc |-> "check", on |-> IF delivery = "assigned" THEN "this" ELSE "other", recorded |-> n]
  /\ UNCHANGED <<delivery, onOther, position, triggers, stream, opening, running, answered, lost>>

checkLocationReport == position.on = report.on => report.recorded > position.recorded

CheckReport ==
  /\ report.pc = "check"
  /\ report' = IF checkLocationReport THEN [report EXCEPT !.pc = "save"] ELSE NoReport
  /\ UNCHANGED <<delivery, onOther, position, triggers, stream, opening, running, answered, lost>>

SaveReport ==
  /\ report.pc = "save"
  /\ position' = [on |-> report.on, recorded |-> report.recorded, stale |-> FALSE]
  /\ report' = NoReport
  /\ triggers' = triggers \cup {"driver"}
  /\ UNCHANGED <<delivery, onOther, stream, opening, running, answered, lost>>

\* locationStaleAfterSeconds pass.
PositionAges ==
  /\ position.on # "none" /\ ~position.stale
  /\ position' = [position EXCEPT !.stale = TRUE]
  /\ UNCHANGED <<delivery, onOther, report, triggers, stream, opening, running, answered, lost>>

\* locationTtlSeconds pass: no trigger tells.
PositionExpires ==
  /\ position.stale
  /\ position' = NoPosition /\ lost' = TRUE
  /\ UNCHANGED <<delivery, onOther, report, triggers, stream, opening, running, answered>>

-----------------------------------------------------------------------------
(* The bus: at most once, to whoever has joined *)
merged(pending, mode) == IF pending = "full" \/ mode = "full" THEN "full" ELSE "location"

schedule(mode) ==
  stream' = IF stream.closed THEN stream ELSE [stream EXCEPT !.pending = merged(@, mode)]

\* A recompute with nothing to wait for goes on before this process takes up
\* anything else: a queued one begins, and one without a driver reads nothing.
goesOn ==
  \/ running = "idle" /\ stream.pending # "none"
  \/ running = "read" /\ stream.context # "assigned"

Dispatch(ch) ==
  /\ ch \in triggers /\ ~goesOn
  /\ triggers' = triggers \ {ch}
  /\ IF ch \in stream.joined THEN schedule(IF ch = "driver" THEN "location" ELSE "full")
     ELSE UNCHANGED stream
  /\ UNCHANGED <<world, opening, running, answered, lost>>

LoseTrigger(ch) ==
  /\ ch \in triggers
  /\ triggers' = triggers \ {ch} /\ lost' = TRUE
  /\ UNCHANGED <<world, stream, opening, running, answered>>

-----------------------------------------------------------------------------
(* Subscription: what an await ends with *)

\* unsubscribeAll leaves the channels whose unsubscribe is at hand, once; a
\* refused start() does so without stopping a timer a run may have armed.
dropped(s) == [s EXCEPT !.closed = TRUE, !.followed = FALSE, !.joined = @ \ s.held, !.held = {}]
closedStream(s) == [dropped(s) EXCEPT !.timers = FALSE, !.armed = FALSE]

\* The new context; the driver's channel is left at once, joined in a step of its own.
loaded(s, status) ==
  LET left == IF s.followed /\ status # "assigned" THEN s.held \cap {"driver"} ELSE {}
  IN [s EXCEPT !.context = status, !.followed = status = "assigned",
               !.joined = @ \ left, !.held = @ \ left]
joins(status) == status = "assigned" /\ ~stream.followed
hear(s, ch) == [s EXCEPT !.joined = @ \cup {ch}, !.held = @ \cup {ch}]

emitted(s, snapshot) ==
  [s EXCEPT !.sent = snapshot, !.armed = snapshot.tracking = "LIVE",
            !.ends = IF snapshot.tracking = "ENDED" /\ @ < 2 THEN @ + 1 ELSE @]

emit(s, snapshot) ==
  IF s.closed THEN s
  ELSE IF snapshot.tracking = "ENDED" THEN closedStream(emitted(s, snapshot)) ELSE emitted(s, snapshot)

-----------------------------------------------------------------------------
(* start(): subscribe, load, follow, first snapshot *)
StartSubscribes ==
  /\ opening = "new"
  /\ opening' = "ask" /\ stream' = hear(stream, "delivery")
  /\ UNCHANGED <<world, triggers, running, answered, lost>>

StartAsks ==
  /\ opening = "ask"
  /\ opening' = "load" /\ answered' = [answered EXCEPT !.start = delivery]
  /\ UNCHANGED <<world, triggers, stream, running, lost>>

\* start() after its last await: timers are armed and a recompute is queued,
\* whether or not a run closed the stream during that await.
opened(s) ==
  [s EXCEPT !.timers = TRUE, !.pending = IF s.closed THEN @ ELSE merged(@, "location")]

\* With no driver to follow there is no further await: the stream opens at once.
StartLoads ==
  LET status == answered.start IN
  /\ opening = "load" /\ ~goesOn
  /\ \/ joins(status) /\ opening' = "join" /\ stream' = loaded(stream, status)
     \/ ~joins(status) /\ opening' = "opened" /\ stream' = opened(loaded(stream, status))
  /\ answered' = [answered EXCEPT !.start = "none"]
  /\ UNCHANGED <<world, triggers, running, lost>>

\* The driver's channel is joined.  The context is loaded, so triggers may have
\* run recomputes during this await, and one may have closed the stream.
StartJoins ==
  /\ opening = "join" /\ opening' = "opened" /\ ~goesOn
  /\ stream' = opened(hear(stream, "driver"))
  /\ UNCHANGED <<world, triggers, running, answered, lost>>

\* A channel cannot be joined, or the delivery not be read.  The bus keeps the
\* channel's empty set: streams that share it later hear nothing (LoseTrigger).
StartRefused ==
  /\ opening \in {"new", "ask", "join"} /\ opening' = "rejected" /\ ~goesOn
  /\ stream' = IF opening = "new" THEN stream ELSE dropped(stream)
  /\ UNCHANGED <<world, triggers, running, answered, lost>>

-----------------------------------------------------------------------------
(* run(): one at a time, behind the queue *)

\* What comes while start() still loads is dropped.
RunBegins ==
  /\ running = "idle" /\ stream.pending # "none"
  /\ stream' = [stream EXCEPT !.pending = "none"]
  /\ running' = IF stream.closed \/ stream.context = "none" THEN "idle"
                ELSE IF stream.pending = "full" THEN "ask" ELSE "read"
  /\ lost' = (lost \/ stream.context = "none")
  /\ UNCHANGED <<world, triggers, opening, answered>>

RunAsks ==
  /\ running = "ask"
  /\ running' = "load" /\ answered' = [answered EXCEPT !.run = delivery]
  /\ lost' = FALSE
  /\ UNCHANGED <<world, triggers, stream, opening>>

RunLoads ==
  /\ running = "load"
  /\ stream' = loaded(stream, answered.run)
  /\ running' = IF joins(answered.run) THEN "join" ELSE IF stream.closed THEN "idle" ELSE "read"
  /\ answered' = [answered EXCEPT !.run = "none"]
  /\ UNCHANGED <<world, triggers, opening, lost>>

RunJoins ==
  /\ running = "join"
  /\ stream' = hear(stream, "driver")
  /\ running' = IF stream.closed THEN "idle" ELSE "read"
  /\ UNCHANGED <<world, triggers, opening, answered, lost>>

\* snapshot reads the position of the context's driver.
RunEmits ==
  /\ running = "read"
  /\ stream' = emit(stream, resolveTracking(stream.context, positionForDelivery(position)))
  /\ running' = "idle"
  /\ UNCHANGED <<world, triggers, opening, answered, lost>>

\* delivery-service, Redis or the bus fails.
RunFails ==
  /\ running \in {"ask", "join", "read"} /\ (running = "read" => stream.context = "assigned")
  /\ stream' = IF stream.closed THEN stream ELSE closedStream(stream)
  /\ running' = "idle"
  /\ UNCHANGED <<world, triggers, opening, answered, lost>>

\* The controller closes what open() has returned, however early the client left.
ClientLeaves ==
  /\ opening = "opened" /\ ~stream.closed /\ ~goesOn
  /\ stream' = closedStream(stream)
  /\ UNCHANGED <<world, triggers, opening, running, answered, lost>>

Resync_LocationOnly ==
  /\ stream.timers /\ ~goesOn /\ schedule("location")
  /\ UNCHANGED <<world, triggers, opening, running, answered, lost>>

Resync ==
  /\ stream.timers /\ ~goesOn /\ schedule("full")
  /\ UNCHANGED <<world, triggers, opening, running, answered, lost>>

staleDue == stream.armed /\ (position.stale \/ position.recorded # stream.sent.recorded)

StaleTimer ==
  /\ staleDue /\ ~goesOn
  /\ stream' = [stream EXCEPT !.armed = FALSE, !.pending = IF stream.closed THEN @ ELSE merged(@, "location")]
  /\ UNCHANGED <<world, triggers, opening, running, answered, lost>>

-----------------------------------------------------------------------------
WorldNext ==
  \/ DeliveryMoves \/ DriverTakesOther
  \/ \E n \in 1..MaxReport : UpdateLocation(n)
  \/ CheckReport \/ SaveReport \/ PositionAges \/ PositionExpires

StartStep == StartAsks \/ StartLoads \/ StartJoins
RunStep == RunBegins \/ RunAsks \/ RunLoads \/ RunJoins \/ RunEmits

TrackingNext ==
  \/ WorldNext
  \/ \E ch \in Channel : Dispatch(ch) \/ LoseTrigger(ch)
  \/ StartSubscribes \/ StartStep \/ StartRefused
  \/ RunStep \/ RunFails \/ ClientLeaves
  \/ Resync \/ StaleTimer

TrackingSpec == TrackingInit /\ [][TrackingNext]_trackingVars

\* Calls are answered, and the timers of an open stream fire; triggers are owed nothing.
TrackingFairness ==
  /\ WF_trackingVars(StartStep) /\ WF_trackingVars(RunStep) /\ WF_trackingVars(Resync)

FairTrackingSpec == TrackingSpec /\ TrackingFairness

-----------------------------------------------------------------------------
(* What the customer is shown *)

\* No stream tells the end twice, and an ended one is closed: a late recompute
\* or a trigger in flight adds nothing (emit, close).
EndedOnce == stream.ends <= 1 /\ (stream.sent.tracking = "ENDED" => stream.closed)

showing ==
  [waiting |-> {"NO_DRIVER"}, assigned |-> {"AWAITING_LOCATION", "LIVE", "STALE"}, ended |-> {"ENDED"}]

\* A position reported on another delivery is never shown, whenever the driver
\* was assigned and whatever is still in Redis (positionForDelivery).
OwnPosition == stream.sent.on # "other"

\* With no trigger on its way, nothing pending and the stale timer not due, an
\* open stream shows the delivery as it is, unless a message was lost, a
\* position expired or a trigger came while start() still loaded (schedule, run).
QuietMeansCurrent ==
  (opening = "opened" /\ ~stream.closed /\ triggers = {} /\ stream.pending = "none"
     /\ running = "idle" /\ ~staleDue /\ ~lost) => stream.sent = current

\* Closing stops the timers and leaves every channel, once start() and run()
\* have nothing under way (close: "stops timers, leaves every channel").
ClosedIsQuiet ==
  (stream.closed /\ opening \in {"opened", "rejected"} /\ running = "idle")
    => stream.joined = {} /\ ~stream.timers /\ ~stream.armed

\* An open stream comes to show where the delivery is, again after every move
\* and whatever trigger was lost: the resync reloads it (start, run).
CatchesUp ==
  []<>(opening = "opened" /\ ~stream.closed => stream.sent.tracking \in showing[delivery])

\* What every stream may rely on, while triggers, timers and the loads of start()
\* and run() cross (TrackingStreamService.emit, positionForDelivery, schedule).
StreamTellsTruth == TrackingTypeOK /\ EndedOnce /\ OwnPosition /\ QuietMeansCurrent
=============================================================================
