------------------------------ MODULE Dispatch ------------------------------
(***************************************************************************)
(* Ride dispatch of the Otuuse back end: app/services/dispatch.py with the *)
(* handlers, chat flows and Celery tasks that call it or write the same    *)
(* rows.                                                                   *)
(*                                                                         *)
(* A worker is one request handler or one Celery task in flight.  Every    *)
(* handler is cut at its awaits: what it read is kept in its own record    *)
(* req[w], and each commit, Redis call or broker call is one step, so that *)
(* handlers interleave exactly where the event loop and the database let   *)
(* them (sessions are READ COMMITTED, no row is locked for a later write). *)
(* The UPDATEs of one transaction hold their row locks until the commit,   *)
(* so they take effect together, at the commit.                            *)
(*                                                                         *)
(* A request may come at any time and for any ride that exists: a guard of *)
(* a "...Start" action is a test the handler makes, or a query that finds  *)
(* nothing, never what an app would display.                               *)
(***************************************************************************)
EXTENDS Naturals, FiniteSets

CONSTANTS
    Rides,            \* ride identifiers
    Drivers,          \* driver user identifiers
    Workers,          \* handlers and tasks that can be in flight together
    None,             \* NULL driver, absent Redis key
    MaxReassign,      \* DISPATCH_MAX_REASSIGNMENT_ATTEMPTS
    AcceptTTL,        \* life of the acceptance key, in ticks (30 s)
    TimeoutDelay,     \* countdown of the timeout task, in ticks (35 s)
    MaxAuto,          \* bound: auto-complete tasks queued for one ride
    MaxFaults,        \* bound: handlers that die between two awaits
    CeleryRuns        \* whether a Celery worker consumes the queues

ASSUME ConstantsAssumption ==
    /\ None \notin Drivers /\ None \notin Rides
    /\ MaxReassign \in Nat
    /\ AcceptTTL \in Nat \ {0}
    /\ TimeoutDelay \in Nat \ {0}
    /\ MaxAuto \in Nat
    /\ MaxFaults \in Nat
    /\ CeleryRuns \in BOOLEAN

VARIABLES
    ride,      \* rows of table rides
    driver,    \* rows of table driver_profiles
    window,    \* Redis ride_acceptance:{ride}
    tried,     \* Redis ride_tried_drivers:{ride}
    timeouts,  \* queued check_driver_acceptance_timeout tasks, by time left
    autos,     \* queued auto_complete_ride tasks
    req,       \* the handler or task each worker is running
    faults     \* handlers that have died so far

vars == <<ride, driver, window, tried, timeouts, autos, req, faults>>

-----------------------------------------------------------------------------
(* Rows and requests *)

RideStatus == {"NONE", "REQUESTED", "MATCHED", "ACCEPTED", "DRIVER_ARRIVING",
               "IN_PROGRESS", "COMPLETED", "PAID", "CANCELLED"}

DriverAvailability == {"ONLINE", "OFFLINE", "ON_RIDE"}

\* "NONE" is a ride that has no row yet; priced is final_fare_ugx being set.
RideRow == [status : RideStatus, driver : Drivers \cup {None},
            tries : Nat, priced : BOOLEAN]

DriverRow == [availability : DriverAvailability, subscribed : BOOLEAN]

\* ttl is the remaining life of the key, 0 when there is none.
Window == [driver : Drivers \cup {None}, ttl : 0 .. AcceptTTL]

Step == {"idle", "pick", "match", "open", "alert", "noDriver",
         "accept", "close", "clear", "count", "release", "strike",
         "cancel", "arrived", "start", "gpsArrived", "gpsStart",
         "complete", "split", "confirm", "lowBalance", "goOnline", "goOffline"}

Source == {"api", "chat", "timeout", "auto"}

\* silent is the driver whom the timeout task has found not to answer.
Request == [pc : Step, src : Source, ride : Rides \cup {None},
            driver : Drivers \cup {None}, tries : Nat, silent : Drivers \cup {None}]

Idle == [pc |-> "idle", src |-> "api", ride |-> None, driver |-> None,
         tries |-> 0, silent |-> None]

Absent == [driver |-> None, ttl |-> 0]

Live == {"MATCHED", "ACCEPTED", "DRIVER_ARRIVING", "IN_PROGRESS"}

\* The statuses _get_active_ride_for_driver looks for.
OnTheRoad == {"ACCEPTED", "DRIVER_ARRIVING", "IN_PROGRESS"}

TypeOK ==
    /\ ride \in [Rides -> RideRow]
    /\ driver \in [Drivers -> DriverRow]
    /\ window \in [Rides -> Window]
    /\ tried \in [Rides -> SUBSET Drivers]
    /\ timeouts \in [Rides -> [0 .. TimeoutDelay -> Nat]]
    /\ autos \in [Rides -> 0 .. MaxAuto]
    /\ req \in [Workers -> Request]
    /\ faults \in 0 .. MaxFaults

Init ==
    /\ ride = [r \in Rides |->
                 [status |-> "NONE", driver |-> None, tries |-> 0, priced |-> FALSE]]
    /\ driver = [d \in Drivers |-> [availability |-> "ONLINE", subscribed |-> TRUE]]
    /\ window = [r \in Rides |-> Absent]
    /\ tried = [r \in Rides |-> {}]
    /\ timeouts = [r \in Rides |-> [k \in 0 .. TimeoutDelay |-> 0]]
    /\ autos = [r \in Rides |-> 0]
    /\ req = [w \in Workers |-> Idle]
    /\ faults = 0

-----------------------------------------------------------------------------
(* Control of a worker *)

Silent(src, d) == IF src = "timeout" THEN d ELSE None

Begin(w, pc, src, r, d) ==
    /\ req[w].pc = "idle"
    /\ req' = [req EXCEPT ![w] = [pc |-> pc, src |-> src, ride |-> r, driver |-> d,
                                  tries |-> 0, silent |-> Silent(src, d)]]

At(w, pc) == req[w].pc = pc

Goto(w, pc) == req' = [req EXCEPT ![w].pc = pc]

Done(w) == req' = [req EXCEPT ![w] = Idle]

\* A decline run by the timeout task is followed by the no-show strike.
AfterDecline(w) == IF req[w].src = "timeout" THEN Goto(w, "strike") ELSE Done(w)

SetStatus(r, s) == ride' = [ride EXCEPT ![r].status = s]

\* UPDATE driver_profiles ... WHERE user_id = d: no row matches None.
SetAvailability(d, a) ==
    driver' = [x \in Drivers |->
                 IF x = d THEN [driver[x] EXCEPT !.availability = a] ELSE driver[x]]

\* The tried list holds user ids; the query compares profile ids with it.
ProfileId(d) == <<"profile", d>>

-----------------------------------------------------------------------------
(* dispatch_ride: pick, commit, open the window, alert *)

\* Mutant: drivers who are busy or off duty are considered.
AvailableAnyone(r) ==
    {d \in Drivers : driver[d].subscribed /\ ProfileId(d) \notin tried[r]}

Available(r) ==
    {d \in Drivers : /\ driver[d].availability = "ONLINE"
                     /\ driver[d].subscribed
                     /\ ProfileId(d) \notin tried[r]}

\* The ride row is already in the session's identity map, so the status test
\* at the top of dispatch_ride sees the REQUESTED its caller wrote.
PickDriver(w) ==
    /\ At(w, "pick")
    /\ \/ \E d \in Available(req[w].ride) :
             req' = [req EXCEPT ![w].pc = "match", ![w].driver = d]
       \/ IF req[w].src = "chat" THEN Goto(w, "noDriver") ELSE AfterDecline(w)
    /\ UNCHANGED <<ride, driver, window, tried, timeouts, autos, faults>>

CommitMatch(w) ==
    /\ At(w, "match")
    /\ ride' = [ride EXCEPT ![req[w].ride].status = "MATCHED",
                            ![req[w].ride].driver = req[w].driver]
    /\ SetAvailability(req[w].driver, "ON_RIDE")
    /\ Goto(w, "open")
    /\ UNCHANGED <<window, tried, timeouts, autos, faults>>

\* Mutant: the key lives as long as the countdown of the timeout task.
OpenWindowForCountdown(w) ==
    /\ At(w, "open")
    /\ window' = [window EXCEPT ![req[w].ride] =
                    [driver |-> req[w].driver, ttl |-> TimeoutDelay]]
    /\ Goto(w, "alert")
    /\ UNCHANGED <<ride, driver, tried, timeouts, autos, faults>>

OpenWindow(w) ==
    /\ At(w, "open")
    /\ window' = [window EXCEPT ![req[w].ride] =
                    [driver |-> req[w].driver, ttl |-> AcceptTTL]]
    /\ Goto(w, "alert")
    /\ UNCHANGED <<ride, driver, tried, timeouts, autos, faults>>

\* Records the driver, pushes the alert and schedules the timeout task;
\* a broker error is swallowed and leaves no task, and a task that no Celery
\* worker will ever take is not kept.
AlertDriver(w) ==
    /\ At(w, "alert")
    /\ LET r == req[w].ride IN
       /\ tried' = [tried EXCEPT ![r] = @ \cup {req[w].driver}]
       /\ \/ /\ CeleryRuns
             /\ timeouts' = [timeouts EXCEPT ![r][TimeoutDelay] = @ + 1]
          \/ UNCHANGED timeouts
    /\ AfterDecline(w)
    /\ UNCHANGED <<ride, driver, window, autos, faults>>

-----------------------------------------------------------------------------
(* The chat flow around dispatch_ride: create, and cancel when nobody is found *)

RequestRide(w, r) ==
    /\ ride[r].status = "NONE"
    /\ Begin(w, "pick", "chat", r, None)
    /\ SetStatus(r, "REQUESTED")
    /\ UNCHANGED <<driver, window, tried, timeouts, autos, faults>>

CancelUndispatched(w) ==
    /\ At(w, "noDriver")
    /\ SetStatus(req[w].ride, "CANCELLED")
    /\ Done(w)
    /\ UNCHANGED <<driver, window, tried, timeouts, autos, faults>>

-----------------------------------------------------------------------------
(* handle_driver_acceptance *)

\* Mutant: the key is not looked at.
AcceptStartWithoutKey(w, r, d) ==
    /\ ride[r].status # "NONE"
    /\ Begin(w, "accept", "api", r, d)
    /\ UNCHANGED <<ride, driver, window, tried, timeouts, autos, faults>>

\* A tap that finds no key, or another driver's, changes nothing; the ride is
\* not looked at, it may have been cancelled.
AcceptStart(w, r, d) ==
    /\ window[r].driver = d
    /\ Begin(w, "accept", "api", r, d)
    /\ UNCHANGED <<ride, driver, window, tried, timeouts, autos, faults>>

CommitAccept(w) ==
    /\ At(w, "accept")
    /\ SetStatus(req[w].ride, "ACCEPTED")
    /\ Goto(w, "close")
    /\ UNCHANGED <<driver, window, tried, timeouts, autos, faults>>

CloseWindow(w) ==
    /\ At(w, "close")
    /\ window' = [window EXCEPT ![req[w].ride] = Absent]
    /\ Done(w)
    /\ UNCHANGED <<ride, driver, tried, timeouts, autos, faults>>

-----------------------------------------------------------------------------
(* handle_driver_decline, from the driver's tap or from the timeout task *)

\* Nothing is tested: any driver may decline any ride, whatever its status.
DeclineStart(w, r, d) ==
    /\ ride[r].status # "NONE"
    /\ Begin(w, "clear", "api", r, d)
    /\ UNCHANGED <<ride, driver, window, tried, timeouts, autos, faults>>

DeclineClear(w) ==
    /\ At(w, "clear")
    /\ window' = [window EXCEPT ![req[w].ride] = Absent]
    /\ Goto(w, "count")
    /\ UNCHANGED <<ride, driver, tried, timeouts, autos, faults>>

DeclineCount(w) ==
    /\ At(w, "count")
    /\ req' = [req EXCEPT ![w].pc = "release", ![w].tries = ride[req[w].ride].tries]
    /\ UNCHANGED <<ride, driver, window, tried, timeouts, autos, faults>>

\* The driver goes back ONLINE in the same transaction, whatever the profile
\* and the ride hold by now.
GiveUp(w) ==
    /\ At(w, "release")
    /\ req[w].tries >= MaxReassign
    /\ SetStatus(req[w].ride, "CANCELLED")
    /\ SetAvailability(req[w].driver, "ONLINE")
    /\ AfterDecline(w)
    /\ UNCHANGED <<window, tried, timeouts, autos, faults>>

\* Mutant: one reassignment too many.
ReassignOnceMore(w) ==
    /\ At(w, "release")
    /\ req[w].tries <= MaxReassign
    /\ ride' = [ride EXCEPT ![req[w].ride].status = "REQUESTED",
                            ![req[w].ride].driver = None,
                            ![req[w].ride].tries = req[w].tries + 1]
    /\ SetAvailability(req[w].driver, "ONLINE")
    /\ Goto(w, "pick")
    /\ UNCHANGED <<window, tried, timeouts, autos, faults>>

\* Mutant: the ride keeps the driver who declined.
ReassignKeepingDriver(w) ==
    /\ At(w, "release")
    /\ req[w].tries < MaxReassign
    /\ ride' = [ride EXCEPT ![req[w].ride].status = "REQUESTED",
                            ![req[w].ride].tries = req[w].tries + 1]
    /\ SetAvailability(req[w].driver, "ONLINE")
    /\ Goto(w, "pick")
    /\ UNCHANGED <<window, tried, timeouts, autos, faults>>

Reassign(w) ==
    /\ At(w, "release")
    /\ req[w].tries < MaxReassign
    /\ ride' = [ride EXCEPT ![req[w].ride].status = "REQUESTED",
                            ![req[w].ride].driver = None,
                            ![req[w].ride].tries = req[w].tries + 1]
    /\ SetAvailability(req[w].driver, "ONLINE")
    /\ Goto(w, "pick")
    /\ UNCHANGED <<window, tried, timeouts, autos, faults>>

-----------------------------------------------------------------------------
(* Celery: the acceptance timeout *)

\* With no key the task only logs; otherwise it declines for the driver the
\* key names now, whoever that is.
TimeoutFires(w, r) ==
    /\ CeleryRuns
    /\ timeouts[r][0] > 0
    /\ timeouts' = [timeouts EXCEPT ![r][0] = @ - 1]
    /\ IF window[r].driver = None
       THEN UNCHANGED req
       ELSE Begin(w, "clear", "timeout", r, window[r].driver)
    /\ UNCHANGED <<ride, driver, window, tried, autos, faults>>

\* issue_driver_strike for the driver the task began with, not the one matched
\* since: the third active strike also takes the driver out.
NoShowStrike(w) ==
    /\ At(w, "strike")
    /\ \/ UNCHANGED driver
       \/ driver' = [driver EXCEPT ![req[w].silent] =
                       [availability |-> "OFFLINE", subscribed |-> FALSE]]
    /\ Done(w)
    /\ UNCHANGED <<ride, window, tried, timeouts, autos, faults>>

-----------------------------------------------------------------------------
(* The passenger cancels: in the chat a ride that is REQUESTED or MATCHED, *)
(* on the fare card any ride.  Neither touches the driver or the key.      *)

CancelStart(w, r) ==
    /\ ride[r].status # "NONE"
    /\ Begin(w, "cancel", "api", r, None)
    /\ UNCHANGED <<ride, driver, window, tried, timeouts, autos, faults>>

CommitCancel(w) ==
    /\ At(w, "cancel")
    /\ SetStatus(req[w].ride, "CANCELLED")
    /\ Done(w)
    /\ UNCHANGED <<driver, window, tried, timeouts, autos, faults>>

-----------------------------------------------------------------------------
(* The driver's Arrived, Start and Complete buttons *)

ArrivedStart(w, r, d) ==
    /\ ride[r].status # "NONE"
    /\ Begin(w, "arrived", "api", r, d)
    /\ UNCHANGED <<ride, driver, window, tried, timeouts, autos, faults>>

StartStart(w, r, d) ==
    /\ ride[r].status # "NONE"
    /\ Begin(w, "start", "api", r, d)
    /\ UNCHANGED <<ride, driver, window, tried, timeouts, autos, faults>>

\* One UPDATE guarded by the ride's driver and by nothing else: a ride that was
\* cancelled, completed or paid is under way again.
DriverMoves(w, pc, status) ==
    /\ At(w, pc)
    /\ IF ride[req[w].ride].driver = req[w].driver
       THEN SetStatus(req[w].ride, status)
       ELSE UNCHANGED ride
    /\ Done(w)
    /\ UNCHANGED <<driver, window, tried, timeouts, autos, faults>>

CommitArrived(w) == DriverMoves(w, "arrived", "DRIVER_ARRIVING")

CommitStart(w) == DriverMoves(w, "start", "IN_PROGRESS")

\* complete_ride reads the ride once; any other status makes it return.
CompleteStart(w, r, src) ==
    /\ ride[r].status \in {"IN_PROGRESS", "DRIVER_ARRIVING"}
    /\ Begin(w, "complete", src, r, ride[r].driver)

CompleteTap(w, r) ==
    /\ CompleteStart(w, r, "api")
    /\ UNCHANGED <<ride, driver, window, tried, timeouts, autos, faults>>

CommitComplete(w) ==
    /\ At(w, "complete")
    /\ ride' = [ride EXCEPT ![req[w].ride].status = "COMPLETED",
                            ![req[w].ride].priced = TRUE]
    /\ SetAvailability(req[w].driver, "ONLINE")
    /\ Goto(w, "split")
    /\ UNCHANGED <<window, tried, timeouts, autos, faults>>

\* process_ride_payment in the same session: PAID, or an error such as an
\* insufficient wallet balance (the money itself is in module Wallet).
SplitPayment(w) ==
    /\ At(w, "split")
    /\ \/ req[w].driver # None /\ SetStatus(req[w].ride, "PAID")
       \/ UNCHANGED ride
    /\ Done(w)
    /\ UNCHANGED <<driver, window, tried, timeouts, autos, faults>>

-----------------------------------------------------------------------------
(* confirm_payment and process_commission_deduction *)

\* Mutant: any ride that is not PAID yet can be confirmed.
ConfirmStartEarly(w, r) ==
    /\ ride[r].status \in OnTheRoad \cup {"COMPLETED"}
    /\ Begin(w, "confirm", "api", r, ride[r].driver)
    /\ UNCHANGED <<ride, driver, window, tried, timeouts, autos, faults>>

ConfirmStart(w, r) ==
    /\ ride[r].status = "COMPLETED"
    /\ Begin(w, "confirm", "api", r, ride[r].driver)
    /\ UNCHANGED <<ride, driver, window, tried, timeouts, autos, faults>>

CommitConfirm(w) ==
    /\ At(w, "confirm")
    /\ req[w].driver # None
    /\ SetStatus(req[w].ride, "PAID")
    /\ \/ Goto(w, "lowBalance")
       \/ Done(w)
    /\ UNCHANGED <<driver, window, tried, timeouts, autos, faults>>

\* The driver row of a ride without driver is not found: the handler raises.
ConfirmFails(w) ==
    /\ At(w, "confirm")
    /\ req[w].driver = None
    /\ Done(w)
    /\ UNCHANGED <<ride, driver, window, tried, timeouts, autos, faults>>

LowBalanceOffline(w) ==
    /\ At(w, "lowBalance")
    /\ SetAvailability(req[w].driver, "OFFLINE")
    /\ Done(w)
    /\ UNCHANGED <<ride, window, tried, timeouts, autos, faults>>

-----------------------------------------------------------------------------
(* process_driver_location_update and its geofences.  Where the driver is, *)
(* how fast and for how long is left open: the geofence of the status read *)
(* may hold or not.                                                        *)

ActiveRides(d) == {r \in Rides : ride[r].driver = d /\ ride[r].status \in OnTheRoad}

\* scalar_one_or_none raises when the driver has two such rides.
GpsUpdate(w, d) ==
    /\ \E r \in Rides :
         /\ ActiveRides(d) = {r}
         /\ \/ /\ ride[r].status = "ACCEPTED"
               /\ Begin(w, "gpsArrived", "api", r, d)
               /\ UNCHANGED autos
            \/ /\ ride[r].status = "DRIVER_ARRIVING"
               /\ Begin(w, "gpsStart", "api", r, d)
               /\ UNCHANGED autos
            \/ /\ ride[r].status = "IN_PROGRESS"
               /\ req[w].pc = "idle"
               /\ autos[r] < MaxAuto
               /\ autos' = [autos EXCEPT ![r] = @ + 1]
               /\ UNCHANGED req
    /\ UNCHANGED <<ride, driver, window, tried, timeouts, faults>>

\* These UPDATEs name the ride only.
GpsMoves(w, pc, status) ==
    /\ At(w, pc)
    /\ SetStatus(req[w].ride, status)
    /\ Done(w)
    /\ UNCHANGED <<driver, window, tried, timeouts, autos, faults>>

GpsArrived(w) == GpsMoves(w, "gpsArrived", "DRIVER_ARRIVING")

GpsStarted(w) == GpsMoves(w, "gpsStart", "IN_PROGRESS")

\* Mutant: the task looks for the wrong status.
AutoCompleteFiresArriving(w, r) ==
    /\ CeleryRuns
    /\ autos[r] > 0
    /\ autos' = [autos EXCEPT ![r] = @ - 1]
    /\ IF ride[r].status = "DRIVER_ARRIVING"
       THEN CompleteStart(w, r, "auto")
       ELSE UNCHANGED req
    /\ UNCHANGED <<ride, driver, window, tried, timeouts, faults>>

\* The task completes an IN_PROGRESS ride and does nothing for any other.
AutoCompleteFires(w, r) ==
    /\ CeleryRuns
    /\ autos[r] > 0
    /\ autos' = [autos EXCEPT ![r] = @ - 1]
    /\ IF ride[r].status = "IN_PROGRESS"
       THEN CompleteStart(w, r, "auto")
       ELSE UNCHANGED req
    /\ UNCHANGED <<ride, driver, window, tried, timeouts, faults>>

-----------------------------------------------------------------------------
(* Availability: the driver's switch, and the nightly subscription check *)

\* Only the subscription is tested, so the switch works during a ride.
ToggleStart(w, d, online) ==
    /\ driver[d].subscribed
    /\ Begin(w, IF online THEN "goOnline" ELSE "goOffline", "api", None, d)
    /\ UNCHANGED <<ride, driver, window, tried, timeouts, autos, faults>>

CommitToggle(w) ==
    /\ \/ At(w, "goOnline") /\ SetAvailability(req[w].driver, "ONLINE")
       \/ At(w, "goOffline") /\ SetAvailability(req[w].driver, "OFFLINE")
    /\ Done(w)
    /\ UNCHANGED <<ride, window, tried, timeouts, autos, faults>>

SubscriptionExpires(d) ==
    /\ driver[d].subscribed
    /\ driver' = [driver EXCEPT ![d] = [availability |-> "OFFLINE", subscribed |-> FALSE]]
    /\ UNCHANGED <<ride, window, tried, timeouts, autos, req, faults>>

-----------------------------------------------------------------------------
(* Time and failure *)

Older(win) == IF win.ttl <= 1 THEN Absent ELSE [win EXCEPT !.ttl = @ - 1]

\* The tasks of one ride a tick later: those with time left have less of it.
Aged(q) ==
    [k \in 0 .. TimeoutDelay |->
        (IF k = 0 THEN q[0] ELSE 0) + (IF k < TimeoutDelay THEN q[k + 1] ELSE 0)]

\* One tick: keys expire, countdowns run.  A task whose countdown is over
\* may still wait for a free Celery worker.
Tick ==
    /\ window' = [r \in Rides |-> Older(window[r])]
    /\ timeouts' = [r \in Rides |-> Aged(timeouts[r])]
    /\ <<window', timeouts'>> # <<window, timeouts>>
    /\ UNCHANGED <<ride, driver, tried, autos, req, faults>>

\* A handler dies between two awaits: nothing uncommitted survives.  A task
\* is acknowledged late, so it may be delivered again.
Fault(w) ==
    /\ ~At(w, "idle")
    /\ faults < MaxFaults
    /\ faults' = faults + 1
    /\ LET r == req[w].ride IN
       \/ UNCHANGED <<timeouts, autos>>
       \/ /\ req[w].src = "timeout"
          /\ timeouts' = [timeouts EXCEPT ![r][0] = @ + 1]
          /\ UNCHANGED autos
       \/ /\ req[w].src = "auto" /\ autos[r] < MaxAuto
          /\ autos' = [autos EXCEPT ![r] = @ + 1]
          /\ UNCHANGED timeouts
    /\ Done(w)
    /\ UNCHANGED <<ride, driver, window, tried>>

-----------------------------------------------------------------------------
(* Specification *)

\* The next step of the handler that w is running.
Continue(w) ==
    \/ PickDriver(w) \/ CommitMatch(w) \/ OpenWindow(w) \/ AlertDriver(w)
    \/ CancelUndispatched(w)
    \/ CommitAccept(w) \/ CloseWindow(w)
    \/ DeclineClear(w) \/ DeclineCount(w) \/ GiveUp(w) \/ Reassign(w)
    \/ NoShowStrike(w)
    \/ CommitCancel(w) \/ CommitArrived(w) \/ CommitStart(w)
    \/ CommitComplete(w) \/ SplitPayment(w)
    \/ CommitConfirm(w) \/ ConfirmFails(w) \/ LowBalanceOffline(w)
    \/ GpsArrived(w) \/ GpsStarted(w)
    \/ CommitToggle(w)

Arrive(w) ==
    \/ \E r \in Rides :
         \/ RequestRide(w, r) \/ CancelStart(w, r) \/ CompleteTap(w, r)
         \/ ConfirmStart(w, r)
         \/ TimeoutFires(w, r) \/ AutoCompleteFires(w, r)
    \/ \E r \in Rides, d \in Drivers :
         \/ AcceptStart(w, r, d) \/ DeclineStart(w, r, d)
         \/ ArrivedStart(w, r, d) \/ StartStart(w, r, d)
    \/ \E d \in Drivers :
         \/ GpsUpdate(w, d)
         \/ \E online \in BOOLEAN : ToggleStart(w, d, online)

Next ==
    \/ \E w \in Workers : Arrive(w) \/ Continue(w) \/ Fault(w)
    \/ \E d \in Drivers : SubscriptionExpires(d)
    \/ Tick

Spec == Init /\ [][Next]_vars

\* A handler that has started runs on; time passes; a due task is delivered
\* once a worker is free (the Celery pool serves its queue in order).
Fairness ==
    /\ \A w \in Workers : WF_vars(Continue(w))
    /\ WF_vars(Tick)
    /\ \A r \in Rides :
         /\ SF_vars(\E w \in Workers : TimeoutFires(w, r))
         /\ SF_vars(\E w \in Workers : AutoCompleteFires(w, r))

FairSpec == Spec /\ Fairness

-----------------------------------------------------------------------------
(* Properties that hold however handlers overlap *)

\* A ride still waiting for a driver names none, and a ride offered to a driver
\* names one, whichever of dispatch, decline and cancellation wrote last.
OfferNamesDriver ==
    \A r \in Rides :
        /\ ride[r].status \in {"NONE", "REQUESTED"} => ride[r].driver = None
        /\ ride[r].status = "MATCHED" => ride[r].driver # None

\* No ride is COMPLETED or PAID without the final fare of complete_ride, even
\* when a late payment overwrites a ride that has moved on since.
SettledIsPriced ==
    \A r \in Rides : ride[r].status \in {"COMPLETED", "PAID"} => ride[r].priced

\* Once a GPS update at the dropoff has queued auto_complete_ride, the ride
\* does not stay IN_PROGRESS, even if the driver never taps Complete and
\* other handlers keep the workers busy.
ArrivedRideCompletes ==
    \A r \in Rides :
        ride[r].status = "IN_PROGRESS" /\ autos[r] > 0 ~> ride[r].status # "IN_PROGRESS"

-----------------------------------------------------------------------------
(* What comments and docstrings say of the code, and the code does not do: *)
(* refuted by a run of its own.                                            *)

TimeoutQueued(r) == \E k \in 0 .. TimeoutDelay : timeouts[r][k] > 0

\* dispatch_ride: "Mark driver as ON_RIDE to remove from available pool
\* immediately", so that a driver is on one live ride at most.
OneLiveRidePerDriver ==
    \A r, s \in Rides :
        /\ ride[r].status \in Live /\ ride[s].status \in Live
        /\ ride[r].driver = ride[s].driver /\ ride[r].driver # None
        => r = s

\* check_driver_acceptance_timeout: "If the driver still hasn't accepted, treat
\* it as a decline and reassign", so an offer with a task behind it ends.
UnansweredOfferEnds ==
    \A r \in Rides :
        ride[r].status = "MATCHED" /\ TimeoutQueued(r) ~> ride[r].status # "MATCHED"

=============================================================================
