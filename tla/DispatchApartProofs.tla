------------------------- MODULE DispatchApartProofs ------------------------
(***************************************************************************)
(* As long as handlers stay apart, Dispatch keeps the promise of           *)
(* RideLifecycle, counts every reassignment and matches drivers who are    *)
(* still in the pool: for any number of rides, drivers, handlers and       *)
(* tasks, whatever dies between two awaits.                                *)
(*                                                                         *)
(* HeldInv says what each handler in flight still finds true of the row it *)
(* read.  Two handlers on one ride or one driver are the ways to lose      *)
(* Held.                                                                   *)
(***************************************************************************)
EXTENDS DispatchProofs, DispatchRefines

\* A ride a handler is at work on, and its status.
Finds(w, pcs, statuses) == req[w].pc \in pcs => ride[req[w].ride].status \in statuses

\* What worker w relies on without looking again.
Held(w) ==
    /\ req[w].pc \notin OffRide => ride[req[w].ride].status # "NONE"
    /\ Finds(w, {"pick", "match", "noDriver"}, {"REQUESTED"})
    /\ Finds(w, {"complete"}, {"DRIVER_ARRIVING", "IN_PROGRESS"})
    /\ Finds(w, {"split", "confirm"}, {"COMPLETED"})
    /\ req[w].pc \in {"count", "release", "pick", "match"} => window[req[w].ride].driver = None
    /\ req[w].pc \in {"accept", "open", "gpsArrived", "gpsStart"} =>
         ride[req[w].ride].driver = req[w].driver /\ req[w].driver \in Drivers
    /\ req[w].pc \in {"arrived", "start"} => req[w].driver \in Drivers
    /\ req[w].pc = "release" => req[w].tries = ride[req[w].ride].tries
    /\ req[w].pc = "match" => InPool(req[w].driver)

\* The acceptance key names the driver the ride is matched with.
KeyFits == \A r \in Rides : window[r].driver # None => ride[r].driver = window[r].driver

HeldInv == KeyFits /\ ServedByDriver /\ \A w \in Workers : Held(w)

\* What a step has to keep, and what it has to be.
Kept ==
    HeldInv' /\ [Lifecycle!Next]_(Lifecycle!vars) /\ CountedStep /\ MatchedStep

Served == Live \cup {"COMPLETED", "PAID"}

-----------------------------------------------------------------------------
(* The refinement mapping *)

\* How a step moves ride r along its life, as seen from the row.
Along(r) ==
    LET s == ride[r].status
        t == ride'[r].status
        d == ride[r].driver
        e == ride'[r].driver
    IN  \/ s = t /\ d = e
        \/ s = "NONE" /\ t = "REQUESTED" /\ e = None
        \/ s = "REQUESTED" /\ t = "MATCHED" /\ e \in Drivers
        \/ t \in OnTheRoad /\ e = d /\ d # None
        \/ s # "NONE" /\ t = "REQUESTED" /\ e = None
        \/ s \in OnTheRoad /\ t = "COMPLETED" /\ e = d
        \/ s = "COMPLETED" /\ t = "PAID" /\ e = d
        \/ s # "NONE" /\ t = "CANCELLED" /\ e = d

Phases == [r \in Rides |-> PhaseOf(ride[r].status)]
Holders == [r \in Rides |-> ride[r].driver]

LEMMA PhasesAre ==
    /\ PhaseOf("NONE") = "none" /\ PhaseOf("REQUESTED") = "seeking"
    /\ PhaseOf("MATCHED") = "offered" /\ PhaseOf("CANCELLED") = "cancelled"
    /\ PhaseOf("ACCEPTED") = "riding" /\ PhaseOf("DRIVER_ARRIVING") = "riding"
    /\ PhaseOf("IN_PROGRESS") = "riding"
    /\ PhaseOf("COMPLETED") = "finished" /\ PhaseOf("PAID") = "paid"
BY DEF PhaseOf, OnTheRoad

LEMMA LifeStep ==
    ASSUME IInv, NEW r \in Rides, \A x \in Rides : x # r => ride'[x] = ride[x], Along(r)
    PROVE  [Lifecycle!Next]_(Lifecycle!vars)
<1> DEFINE s == ride[r].status
           t == ride'[r].status
           d == ride[r].driver
           e == ride'[r].driver
<1>1. /\ Phases' = [Phases EXCEPT ![r] = PhaseOf(t)]
      /\ Holders' = [Holders EXCEPT ![r] = e]
  BY DEF Phases, Holders
<1>2. Phases[r] = PhaseOf(s) /\ Holders[r] = d
  BY DEF Phases, Holders
<1>3. s # "NONE" => Phases[r] # "none"
  BY <1>2, PhasesAre DEF IInv, TypeOK, RideRow, RideStatus
<1>5. CASE s = t /\ d = e
  <2>1. Phases' = Phases /\ Holders' = Holders
    BY <1>5 DEF Phases, Holders
  <2> QED
    BY <2>1 DEF Lifecycle!vars, Phases, Holders
<1>6. CASE s = "NONE" /\ t = "REQUESTED" /\ e = None
  <2>1. Phases[r] = "none"
    BY <1>2, <1>3, <1>6, PhasesAre DEF OnTheRoad
  <2>2. Phases' = [Phases EXCEPT ![r] = "seeking"] /\ Holders' = [Holders EXCEPT ![r] = None]
    BY <1>1, <1>2, <1>6, PhasesAre
  <2>3. Lifecycle!Request(r)
    BY <2>1, <2>2 DEF Lifecycle!Request, Lifecycle!Move, Phases, Holders
  <2> QED
    BY <2>3 DEF Lifecycle!Next
<1>7. CASE s = "REQUESTED" /\ t = "MATCHED" /\ e \in Drivers
  <2>1. Phases[r] = "seeking"
    BY <1>2, <1>3, <1>7, PhasesAre DEF OnTheRoad
  <2>2. Phases' = [Phases EXCEPT ![r] = "offered"] /\ Holders' = [Holders EXCEPT ![r] = e]
    BY <1>1, <1>2, <1>7, PhasesAre
  <2>3. Lifecycle!Offer(r, e)
    BY <2>1, <2>2 DEF Lifecycle!Offer, Lifecycle!Move, Phases, Holders
  <2> QED
    BY <1>7, <2>3 DEF Lifecycle!Next
<1>8. CASE t \in OnTheRoad /\ e = d /\ d # None
  <2>1. Holders[r] # None
    BY <1>2, <1>3, <1>8, PhasesAre DEF OnTheRoad
  <2>2. Phases' = [Phases EXCEPT ![r] = "riding"] /\ Holders' = [Holders EXCEPT ![r] = Holders[r]]
    BY <1>1, <1>2, <1>8, PhasesAre DEF OnTheRoad
  <2>3. Lifecycle!Carry(r)
    BY <2>1, <2>2 DEF Lifecycle!Carry, Lifecycle!Move, Phases, Holders
  <2> QED
    BY <2>3 DEF Lifecycle!Next
<1>9. CASE s # "NONE" /\ t = "REQUESTED" /\ e = None
  <2>1. Phases[r] # "none"
    BY <1>2, <1>3, <1>9, PhasesAre DEF OnTheRoad
  <2>2. Phases' = [Phases EXCEPT ![r] = "seeking"] /\ Holders' = [Holders EXCEPT ![r] = None]
    BY <1>1, <1>2, <1>9, PhasesAre
  <2>3. Lifecycle!Release(r)
    BY <2>1, <2>2 DEF Lifecycle!Release, Lifecycle!Move, Phases, Holders
  <2> QED
    BY <2>3 DEF Lifecycle!Next
<1>10. CASE s \in OnTheRoad /\ t = "COMPLETED" /\ e = d
  <2>1. Phases[r] = "riding"
    BY <1>2, <1>3, <1>10, PhasesAre DEF OnTheRoad
  <2>2. Phases' = [Phases EXCEPT ![r] = "finished"] /\ Holders' = [Holders EXCEPT ![r] = Holders[r]]
    BY <1>1, <1>2, <1>10, PhasesAre
  <2>3. Lifecycle!Finish(r)
    BY <2>1, <2>2 DEF Lifecycle!Finish, Lifecycle!Move, Phases, Holders
  <2> QED
    BY <2>3 DEF Lifecycle!Next
<1>11. CASE s = "COMPLETED" /\ t = "PAID" /\ e = d
  <2>1. Phases[r] = "finished"
    BY <1>2, <1>3, <1>11, PhasesAre DEF OnTheRoad
  <2>2. Phases' = [Phases EXCEPT ![r] = "paid"] /\ Holders' = [Holders EXCEPT ![r] = Holders[r]]
    BY <1>1, <1>2, <1>11, PhasesAre
  <2>3. Lifecycle!Settle(r)
    BY <2>1, <2>2 DEF Lifecycle!Settle, Lifecycle!Move, Phases, Holders
  <2> QED
    BY <2>3 DEF Lifecycle!Next
<1>12. CASE s # "NONE" /\ t = "CANCELLED" /\ e = d
  <2>1. Phases[r] # "none"
    BY <1>2, <1>3, <1>12, PhasesAre DEF OnTheRoad
  <2>2. Phases' = [Phases EXCEPT ![r] = "cancelled"] /\ Holders' = [Holders EXCEPT ![r] = Holders[r]]
    BY <1>1, <1>2, <1>12, PhasesAre DEF OnTheRoad
  <2>3. Lifecycle!Cancel(r)
    BY <2>1, <2>2 DEF Lifecycle!Cancel, Lifecycle!Move, Phases, Holders
  <2> QED
    BY <2>3 DEF Lifecycle!Next
<1> QED
  BY <1>5, <1>6, <1>7, <1>8, <1>9, <1>10, <1>11, <1>12 DEF Along

-----------------------------------------------------------------------------
(* What a step leaves true *)

Others(w) == \A v \in Workers : v # w => req'[v] = req[v]

\* What v relies on is left alone.
Undisturbed(v) ==
    req[v].pc \notin OffRide =>
        /\ ride'[req[v].ride] = ride[req[v].ride]
        /\ window[req[v].ride].driver = None => window'[req[v].ride].driver = None
        /\ req[v].pc = "match" /\ InPool(req[v].driver) => InPool(req[v].driver)'

OthersUndisturbed(w) == \A v \in Workers : v # w => Undisturbed(v)

\* The worker's step sends no ride out again.
NotResent(w) == ~(At(w, "release") /\ At(w, "pick")')

LEMMA OthersHeld ==
    ASSUME HeldInv, NEW w \in Workers, Others(w), OthersUndisturbed(w), Held(w)'
    PROVE  \A v \in Workers : Held(v)'
<1> SUFFICES ASSUME NEW v \in Workers, v # w PROVE Held(v)'
  OBVIOUS
<1>1. Held(v) /\ req'[v] = req[v] /\ Undisturbed(v)
  BY DEF HeldInv, Others, OthersUndisturbed
<1> QED
  BY <1>1 DEF Held, Finds, OffRide, Undisturbed

LEMMA CountedBy ==
    ASSUME NEW w \in Workers, Others(w), \A r \in Rides : ride'[r].tries >= ride[r].tries,
           \/ NotResent(w)
           \/ /\ ride'[req[w].ride].tries = ride[req[w].ride].tries + 1
              /\ ride'[req[w].ride].tries <= MaxReassign
    PROVE  CountedStep
<1> SUFFICES ASSUME NEW v \in Workers, At(v, "release"), At(v, "pick")'
             PROVE  /\ ride'[req[v].ride].tries = ride[req[v].ride].tries + 1
                    /\ ride'[req[v].ride].tries <= MaxReassign
  BY DEF CountedStep
<1>1. v = w
  BY DEF Others, At
<1> QED
  BY <1>1 DEF NotResent

\* A step that writes one ride and its key.
LEMMA StepKept ==
    ASSUME IInv, HeldInv, NEW w \in Workers, Others(w), NEW r \in Rides,
           \A x \in Rides : x # r => ride'[x] = ride[x] /\ window'[x] = window[x],
           Along(r),
           window'[r].driver # None => ride'[r].driver = window'[r].driver,
           ride'[r].status \in Served => ride'[r].driver # None,
           ride'[r].tries >= ride[r].tries,
           \/ NotResent(w)
           \/ /\ ride'[req[w].ride].tries = ride[req[w].ride].tries + 1
              /\ ride'[req[w].ride].tries <= MaxReassign,
           ride'[r].status = "MATCHED" /\ ride[r].status # "MATCHED" => InPool(ride'[r].driver),
           OthersUndisturbed(w), Held(w)'
    PROVE  Kept
<1>1. [Lifecycle!Next]_(Lifecycle!vars)
  BY LifeStep
<1>2. KeyFits' /\ ServedByDriver'
  BY DEF HeldInv, KeyFits, ServedByDriver, Served
<1>3. \A v \in Workers : Held(v)'
  BY OthersHeld
<1>4. \A x \in Rides : ride'[x].tries >= ride[x].tries
  <2>1. ASSUME NEW x \in Rides, x # r PROVE ride'[x] = ride[x] /\ ride[x].tries \in Nat
    BY <2>1 DEF IInv, TypeOK, RideRow
  <2>2. ASSUME NEW x \in Rides, x # r PROVE ride'[x].tries >= ride[x].tries
    BY <2>1, <2>2
  <2> QED
    BY <2>2
<1>5. CountedStep
  BY <1>4, CountedBy
<1>6. MatchedStep
  BY DEF MatchedStep
<1> QED
  BY <1>1, <1>2, <1>3, <1>5, <1>6 DEF Kept, HeldInv

\* A step that writes no ride; keys may go.
LEMMA RideUntouched ==
    ASSUME IInv, HeldInv, UNCHANGED ride,
           \A x \in Rides : window'[x].driver \in {None, window[x].driver}
    PROVE  /\ KeyFits' /\ ServedByDriver' /\ MatchedStep
           /\ UNCHANGED Lifecycle!vars
           /\ \A r \in Rides : ride'[r].tries >= ride[r].tries
<1>1. KeyFits' /\ ServedByDriver'
  BY DEF HeldInv, KeyFits, ServedByDriver
<1>2. \A r \in Rides : ride'[r].tries >= ride[r].tries
  BY DEF IInv, TypeOK, RideRow
<1> QED
  BY <1>1, <1>2 DEF MatchedStep, Lifecycle!vars

LEMMA QuietKept ==
    ASSUME IInv, HeldInv, NEW w \in Workers, Others(w), UNCHANGED ride,
           \A x \in Rides : window'[x].driver \in {None, window[x].driver},
           NotResent(w), OthersUndisturbed(w), Held(w)'
    PROVE  Kept
BY RideUntouched, OthersHeld, CountedBy DEF Kept, HeldInv

-----------------------------------------------------------------------------
(* How a handler goes on *)

LEMMA AtRide ==
    ASSUME IInv, NEW w \in Workers, req[w].pc \notin OffRide
    PROVE  req[w].ride \in Rides
BY DEF IInv, InFlight, Sound

\* The steps before which nothing is relied on but that the ride exists.
Calm == {"idle", "alert", "close", "clear", "strike", "cancel", "lowBalance", "goOnline",
         "goOffline"}

LEMMA CalmHeld ==
    ASSUME NEW w \in Workers, req'[w].pc \in Calm,
           req'[w].pc \notin OffRide => ride'[req'[w].ride].status # "NONE"
    PROVE  Held(w)' /\ NotResent(w)
BY DEF Calm, Held, Finds, NotResent, At

\* A handler that ends, or goes on to a step that relies on nothing.
LEMMA CalmMoves ==
    ASSUME IInv, NEW w \in Workers, req[w].pc \notin OffRide,
           ride'[req[w].ride].status # "NONE",
           Done(w) \/ AfterDecline(w) \/ (\E pc \in Calm : Goto(w, pc))
    PROVE  Held(w)' /\ NotResent(w)
<1>1. CASE Done(w)
  <2>1. req'[w].pc = "idle"
    BY <1>1 DEF IInv, TypeOK, Done, Idle
  <2> QED
    BY <2>1, CalmHeld DEF Calm, OffRide
<1>2. ASSUME NEW pc \in Calm, Goto(w, pc) PROVE Held(w)' /\ NotResent(w)
  <2>1. req'[w].pc = pc /\ req'[w].ride = req[w].ride
    BY <1>2 DEF IInv, TypeOK, Request, Goto
  <2> QED
    BY <2>1, CalmHeld
<1>3. CASE AfterDecline(w)
  BY <1>1, <1>2, <1>3 DEF AfterDecline, Calm
<1> QED
  BY <1>1, <1>2, <1>3

LEMMA DoneHeld ==
    ASSUME IInv, NEW w \in Workers, Done(w)
    PROVE  Held(w)' /\ NotResent(w)
<1>1. req'[w].pc = "idle"
  BY DEF IInv, TypeOK, Done, Idle
<1> QED
  BY <1>1, CalmHeld DEF Calm, OffRide

LEMMA OthersWait ==
    ASSUME IInv, NEW w \in Workers, Arrive(w) \/ Continue(w) \/ Fault(w)
    PROVE  Others(w)
<1>1. req \in [Workers -> Request]
  BY DEF IInv, TypeOK
<1>2. ASSUME Done(w) PROVE Others(w)
  BY <1>1, <1>2 DEF Done, Others
<1>3. ASSUME NEW pc, Goto(w, pc) PROVE Others(w)
  BY <1>1, <1>3 DEF Goto, Others
<1>4. ASSUME NEW pc, NEW src, NEW r, NEW d, Begin(w, pc, src, r, d) PROVE Others(w)
  BY <1>1, <1>4 DEF Begin, Others
<1>5. ASSUME UNCHANGED req PROVE Others(w)
  BY <1>5 DEF Others
<1>6. ASSUME AfterDecline(w) PROVE Others(w)
  BY <1>2, <1>3, <1>6 DEF AfterDecline
<1>7. ASSUME PickDriver(w) PROVE Others(w)
  <2>1. ASSUME NEW d, req' = [req EXCEPT ![w].pc = "match", ![w].driver = d] PROVE Others(w)
    BY <1>1, <2>1 DEF Others
  <2> QED
    BY <1>3, <1>6, <1>7, <2>1 DEF PickDriver
<1>8. ASSUME DeclineCount(w) PROVE Others(w)
  BY <1>1, <1>8 DEF DeclineCount, Others
<1>9. CASE Continue(w)
  BY <1>2, <1>3, <1>6, <1>7, <1>8, <1>9
     DEF Continue, CommitMatch, OpenWindow, AlertDriver, CancelUndispatched, CommitAccept, CloseWindow,
         DeclineClear, GiveUp, Reassign, NoShowStrike, CommitCancel, CommitArrived, CommitStart,
         DriverMoves, CommitComplete, SplitPayment, CommitConfirm, ConfirmFails, LowBalanceOffline,
         GpsArrived, GpsStarted, GpsMoves, CommitToggle
<1>10. CASE Arrive(w)
  BY <1>4, <1>5, <1>10
     DEF Arrive, RequestRide, CancelStart, CompleteTap, CompleteStart, ConfirmStart, AcceptStart,
         DeclineStart, ArrivedStart, StartStart, GpsUpdate, ToggleStart, TimeoutFires, AutoCompleteFires
<1>11. CASE Fault(w)
  BY <1>2, <1>11 DEF Fault
<1> QED
  BY <1>9, <1>10, <1>11

-----------------------------------------------------------------------------
(* A handler that goes on writes its own ride, key and driver only; a strike *)
(* takes another driver out for good.                                        *)

LEMMA OwnWrites ==
    ASSUME IInv, NEW w \in Workers, Continue(w) \/ Fault(w)
    PROVE  /\ \A x \in Rides : x # req[w].ride => ride'[x] = ride[x] /\ window'[x] = window[x]
           /\ \A d \in Drivers : d # req[w].driver => driver'[d] = driver[d] \/ ~driver'[d].subscribed
<1> USE DEF IInv, TypeOK
<1>1. ASSUME NEW s, SetStatus(req[w].ride, s)
      PROVE  \A x \in Rides : x # req[w].ride => ride'[x] = ride[x]
  BY <1>1 DEF SetStatus
<1>2. ASSUME NEW a, SetAvailability(req[w].driver, a)
      PROVE  \A d \in Drivers : d # req[w].driver => driver'[d] = driver[d]
  BY <1>2 DEF SetAvailability
<1>3. ASSUME CommitMatch(w) \/ Reassign(w) \/ CommitComplete(w)
      PROVE  \A x \in Rides : x # req[w].ride => ride'[x] = ride[x]
  BY <1>3 DEF CommitMatch, Reassign, CommitComplete
<1>4. ASSUME OpenWindow(w) \/ CloseWindow(w) \/ DeclineClear(w)
      PROVE  \A x \in Rides : x # req[w].ride => window'[x] = window[x]
  BY <1>4 DEF OpenWindow, CloseWindow, DeclineClear
<1>5. ASSUME NoShowStrike(w)
      PROVE  \A d \in Drivers : driver'[d] = driver[d] \/ ~driver'[d].subscribed
  BY <1>5 DEF NoShowStrike
<1>6. CASE CommitMatch(w) \/ Reassign(w) \/ CommitComplete(w)
  BY <1>2, <1>3, <1>6 DEF CommitMatch, Reassign, CommitComplete
<1>7. CASE OpenWindow(w) \/ CloseWindow(w) \/ DeclineClear(w)
  BY <1>4, <1>7 DEF OpenWindow, CloseWindow, DeclineClear
<1>8. CASE NoShowStrike(w)
  BY <1>5, <1>8 DEF NoShowStrike
<1>9. CASE GiveUp(w) \/ LowBalanceOffline(w) \/ CommitToggle(w)
  BY <1>1, <1>2, <1>9 DEF GiveUp, LowBalanceOffline, CommitToggle
<1>10. CASE CancelUndispatched(w) \/ CommitAccept(w) \/ CommitCancel(w) \/ CommitArrived(w)
            \/ CommitStart(w) \/ SplitPayment(w) \/ CommitConfirm(w) \/ GpsArrived(w)
            \/ GpsStarted(w)
  BY <1>1, <1>10 DEF CancelUndispatched, CommitAccept, CommitCancel, CommitArrived, CommitStart,
                    DriverMoves, SplitPayment, CommitConfirm, GpsArrived, GpsStarted, GpsMoves
<1>11. CASE PickDriver(w) \/ AlertDriver(w) \/ DeclineCount(w) \/ ConfirmFails(w) \/ Fault(w)
  BY <1>11 DEF PickDriver, AlertDriver, DeclineCount, ConfirmFails, Fault
<1> QED
  BY <1>6, <1>7, <1>8, <1>9, <1>10, <1>11 DEF Continue

LEMMA OwnUndisturbs ==
    ASSUME IInv, Apart, NEW w \in Workers, ~At(w, "idle"), Continue(w) \/ Fault(w)
    PROVE  OthersUndisturbed(w)
<1> SUFFICES ASSUME NEW v \in Workers, v # w, req[v].pc \notin OffRide PROVE Undisturbed(v)
  BY DEF OthersUndisturbed, Undisturbed
<1>1. req[v].ride \in Rides /\ req[v].ride # None
  BY AtRide, ConstantsAssumption
<1>2. req[v].ride # req[w].ride
  BY <1>1 DEF Apart, At, OffRide
<1>3. ride'[req[v].ride] = ride[req[v].ride] /\ window'[req[v].ride] = window[req[v].ride]
  BY <1>1, <1>2, OwnWrites
<1>4. ASSUME req[v].pc = "match", InPool(req[v].driver) PROVE InPool(req[v].driver)'
  <2>1. req[v].driver \in Drivers /\ req[v].driver # None
    BY <1>4, ConstantsAssumption DEF IInv, InFlight, Sound
  <2>2. req[v].driver # req[w].driver
    BY <2>1 DEF Apart, At, OffRide
  <2>3. driver'[req[v].driver] = driver[req[v].driver] \/ ~driver'[req[v].driver].subscribed
    BY <2>1, <2>2, OwnWrites
  <2>4. Others(w)
    BY OthersWait
  <2>5. req'[v] = req[v]
    BY <2>4 DEF Others
  <2> QED
    BY <1>4, <2>3, <2>5 DEF InPool
<1> QED
  BY <1>3, <1>4 DEF Undisturbed

LEMMA StatusKept ==
    ASSUME IInv, HeldInv, NEW w \in Workers, Others(w), OthersUndisturbed(w),
           req[w].pc \notin OffRide, NEW s, s # "MATCHED", SetStatus(req[w].ride, s),
           Along(req[w].ride), UNCHANGED window,
           s \in Served => ride[req[w].ride].driver # None,
           Held(w)', NotResent(w)
    PROVE  Kept
<1> DEFINE r == req[w].ride
<1>1. r \in Rides
  BY AtRide
<1>2. /\ \A x \in Rides : x # r => ride'[x] = ride[x] /\ window'[x] = window[x]
      /\ ride'[r].status = s /\ ride'[r].driver = ride[r].driver
      /\ ride'[r].tries = ride[r].tries /\ ride[r].tries \in Nat
  BY <1>1 DEF IInv, TypeOK, RideRow, SetStatus
<1>3. window'[r].driver # None => ride'[r].driver = window'[r].driver
  BY <1>1, <1>2 DEF HeldInv, KeyFits
<1> QED
  BY <1>1, <1>2, <1>3, StepKept

-----------------------------------------------------------------------------
(* Every step of a handler keeps HeldInv *)

LEMMA ContinueKept ==
    ASSUME IInv, HeldInv, Apart, NEW w \in Workers, Continue(w)
    PROVE  Kept
<1> DEFINE r == req[w].ride
<1>1. Others(w)
  BY OthersWait
<1>2. ~At(w, "idle")
  BY DEF Continue, PickDriver, CommitMatch, OpenWindow, AlertDriver, CancelUndispatched, CommitAccept,
         CloseWindow, DeclineClear, DeclineCount, GiveUp, Reassign, NoShowStrike, CommitCancel,
         CommitArrived, CommitStart, DriverMoves, CommitComplete, SplitPayment, CommitConfirm,
         ConfirmFails, LowBalanceOffline, GpsArrived, GpsStarted, GpsMoves, CommitToggle, At
<1>3. OthersUndisturbed(w)
  BY <1>2, OwnUndisturbs
<1>4. Held(w) /\ KeyFits /\ ServedByDriver
  BY DEF HeldInv
<1>5. ASSUME UNCHANGED <<ride, window>>, Held(w)', NotResent(w) PROVE Kept
  <2>1. \A x \in Rides : window'[x].driver \in {None, window[x].driver}
    BY <1>5
  <2> QED
    BY <1>1, <1>3, <1>5, <2>1, QuietKept
<1>6. CASE CommitToggle(w)
  BY <1>5, <1>6, DoneHeld DEF CommitToggle
<1>7. CASE req[w].pc \notin OffRide
  <2>1. r \in Rides /\ ride[r].status # "NONE"
    BY <1>4, <1>7, AtRide DEF Held
  <2>2. ASSUME UNCHANGED ride, Done(w) \/ AfterDecline(w) \/ (\E pc \in Calm : Goto(w, pc))
        PROVE  Held(w)' /\ NotResent(w)
    BY <1>7, <2>1, <2>2, CalmMoves
  <2>3. ASSUME NEW s \in RideStatus \ {"NONE", "MATCHED"}, SetStatus(r, s),
               Done(w) \/ AfterDecline(w) \/ (\E pc \in Calm : Goto(w, pc)), UNCHANGED window,
               Along(r), s \in Served => ride[r].driver # None
        PROVE  Kept
    <3>1. ride'[r].status # "NONE"
      BY <2>1, <2>3 DEF SetStatus, IInv, TypeOK, RideRow
    <3>2. Held(w)' /\ NotResent(w)
      BY <1>7, <2>3, <3>1, CalmMoves
    <3> QED
      BY <1>1, <1>3, <1>7, <2>3, <3>2, StatusKept
  <2>4. ASSUME NEW s, SetStatus(r, s)
        PROVE  ride'[r].status = s /\ ride'[r].driver = ride[r].driver
    BY <2>1, <2>4 DEF SetStatus, IInv, TypeOK, RideRow
  <2>5. CASE CloseWindow(w)
    <3>1. \A x \in Rides : window'[x].driver \in {None, window[x].driver}
      BY <2>5 DEF CloseWindow, Absent, IInv, TypeOK
    <3> QED
      BY <1>1, <1>3, <2>2, <2>5, <3>1, QuietKept DEF CloseWindow
  <2>6. CASE ConfirmFails(w) \/ LowBalanceOffline(w) \/ NoShowStrike(w) \/ AlertDriver(w)
    BY <1>5, <2>2, <2>6 DEF ConfirmFails, LowBalanceOffline, NoShowStrike, AlertDriver
  <2>7. CASE CancelUndispatched(w) \/ CommitCancel(w) \/ GiveUp(w)
    <3>1. SetStatus(r, "CANCELLED") /\ UNCHANGED window /\ (Done(w) \/ AfterDecline(w))
      BY <2>7 DEF CancelUndispatched, CommitCancel, GiveUp
    <3>2. Along(r)
      BY <2>1, <2>4, <3>1 DEF Along
    <3> QED
      BY <2>3, <3>1, <3>2 DEF RideStatus, Served, Live
  <2>8. CASE CommitArrived(w) \/ CommitStart(w)
    <3>1. PICK s \in {"DRIVER_ARRIVING", "IN_PROGRESS"} :
            /\ IF ride[r].driver = req[w].driver THEN SetStatus(r, s) ELSE UNCHANGED ride
            /\ Done(w) /\ UNCHANGED window
      BY <2>8 DEF CommitArrived, CommitStart, DriverMoves
    <3>2. req[w].driver \in Drivers
      BY <1>4, <2>8 DEF Held, CommitArrived, CommitStart, DriverMoves, At
    <3>3. CASE ride[r].driver = req[w].driver
      <4>1. Along(r)
        BY <2>4, <3>1, <3>2, <3>3, ConstantsAssumption DEF Along, OnTheRoad
      <4> QED
        BY <2>3, <3>1, <3>2, <3>3, <4>1, ConstantsAssumption DEF RideStatus
    <3>4. CASE ride[r].driver # req[w].driver
      BY <1>5, <2>2, <3>1, <3>4
    <3> QED
      BY <3>3, <3>4
  <2>9. CASE GpsArrived(w) \/ GpsStarted(w)
    <3>1. PICK s \in {"DRIVER_ARRIVING", "IN_PROGRESS"} :
            SetStatus(r, s) /\ Done(w) /\ UNCHANGED window
      BY <2>9 DEF GpsArrived, GpsStarted, GpsMoves
    <3>2. ride[r].driver # None
      BY <1>4, <2>9, ConstantsAssumption DEF Held, GpsArrived, GpsStarted, GpsMoves, At
    <3>3. Along(r)
      BY <2>4, <3>1, <3>2 DEF Along, OnTheRoad
    <3> QED
      BY <2>3, <3>1, <3>2, <3>3 DEF RideStatus
  <2>10. CASE CommitAccept(w)
    <3>1. SetStatus(r, "ACCEPTED") /\ Goto(w, "close") /\ UNCHANGED window
      BY <2>10 DEF CommitAccept
    <3>2. ride[r].driver # None
      BY <1>4, <2>10, ConstantsAssumption DEF Held, CommitAccept, At
    <3>3. Along(r)
      BY <2>4, <3>1, <3>2 DEF Along, OnTheRoad
    <3> QED
      BY <2>3, <3>1, <3>2, <3>3 DEF RideStatus, Calm
  <2>11. CASE SplitPayment(w) \/ CommitConfirm(w)
    <3>1. ride[r].status = "COMPLETED" /\ ride[r].driver # None
      BY <1>4, <2>1, <2>11 DEF Held, Finds, SplitPayment, CommitConfirm, At, ServedByDriver
    <3>2. CASE UNCHANGED ride
      BY <1>5, <2>2, <2>11, <3>2 DEF SplitPayment, CommitConfirm, Calm
    <3>3. CASE SetStatus(r, "PAID")
      <4>1. Along(r)
        BY <2>4, <3>1, <3>3 DEF Along
      <4> QED
        BY <2>3, <2>11, <3>1, <3>3, <4>1 DEF SplitPayment, CommitConfirm, Calm, RideStatus
    <3> QED
      BY <2>11, <3>2, <3>3 DEF SplitPayment, CommitConfirm
  <2>12. CASE PickDriver(w)
    <3>1. CASE Goto(w, "noDriver")
      <4>1. req'[w].pc = "noDriver" /\ req'[w].ride = r
        BY <3>1 DEF Goto, IInv, TypeOK, Request
      <4>2. Held(w)' /\ NotResent(w)
        BY <1>4, <2>1, <2>12, <4>1 DEF PickDriver, At, Held, Finds, NotResent
      <4> QED
        BY <1>5, <2>12, <4>2 DEF PickDriver
    <3>2. CASE AfterDecline(w)
      BY <1>5, <2>2, <2>12, <3>2 DEF PickDriver
    <3>3. ASSUME NEW d \in Available(r), req' = [req EXCEPT ![w].pc = "match", ![w].driver = d]
          PROVE  Kept
      <4>1. req'[w].pc = "match" /\ req'[w].ride = r /\ req'[w].driver = d
        BY <3>3 DEF IInv, TypeOK, Request
      <4>2. InPool(d)'
        BY <2>12, <3>3 DEF PickDriver, Available, InPool
      <4>3. InPool(req[w].driver)'
        BY <4>1, <4>2 DEF InPool
      <4>4. Held(w)' /\ NotResent(w)
        BY <1>4, <2>1, <2>12, <4>1, <4>3 DEF PickDriver, At, Held, Finds, NotResent
      <4> QED
        BY <1>5, <2>12, <4>4 DEF PickDriver
    <3> QED
      BY <2>12, <3>1, <3>2, <3>3 DEF PickDriver
  <2>13. CASE CommitMatch(w)
    <3>1. /\ ride[r].status = "REQUESTED" /\ window[r].driver = None /\ InPool(req[w].driver)
          /\ req[w].driver \in Drivers /\ req[w].driver # None
      BY <1>4, <2>13, ConstantsAssumption DEF CommitMatch, At, Held, Finds, IInv, InFlight, Sound
    <3>2. /\ \A x \in Rides : x # r => ride'[x] = ride[x] /\ window'[x] = window[x]
          /\ ride'[r].status = "MATCHED" /\ ride'[r].driver = req[w].driver
          /\ ride'[r].tries = ride[r].tries /\ ride[r].tries \in Nat /\ UNCHANGED window
      BY <2>1, <2>13 DEF CommitMatch, IInv, TypeOK, RideRow
    <3>3. req'[w].pc = "open" /\ req'[w].ride = r /\ req'[w].driver = req[w].driver
      BY <2>13 DEF CommitMatch, Goto, IInv, TypeOK, Request
    <3>4. Held(w)' /\ NotResent(w)
      BY <3>1, <3>2, <3>3 DEF Held, Finds, NotResent, At
    <3>5. Along(r)
      BY <3>1, <3>2 DEF Along
    <3> QED
      BY <1>1, <1>3, <2>1, <3>1, <3>2, <3>4, <3>5, StepKept
  <2>14. CASE OpenWindow(w)
    <3>1. ride[r].driver = req[w].driver
      BY <1>4, <2>14 DEF OpenWindow, At, Held
    <3>2. /\ UNCHANGED ride /\ ride[r].tries \in Nat
          /\ \A x \in Rides : x # r => window'[x] = window[x]
          /\ window'[r].driver = req[w].driver
      BY <2>1, <2>14 DEF OpenWindow, IInv, TypeOK, RideRow
    <3>3. Held(w)' /\ NotResent(w)
      BY <2>2, <2>14 DEF OpenWindow, Calm
    <3>4. Along(r)
      BY <3>2 DEF Along
    <3>5. ride'[r].status \in Served => ride'[r].driver # None
      BY <1>4, <2>1, <3>2 DEF ServedByDriver, Served
    <3> QED
      BY <1>1, <1>3, <2>1, <3>1, <3>2, <3>3, <3>4, <3>5, StepKept
  <2>15. CASE DeclineClear(w)
    <3>1. /\ req'[w].pc = "count" /\ req'[w].ride = r /\ window'[r].driver = None
          /\ UNCHANGED ride
      BY <2>1, <2>15 DEF DeclineClear, Goto, Absent, IInv, TypeOK, Request
    <3>2. Held(w)' /\ NotResent(w)
      BY <2>1, <3>1 DEF Held, Finds, NotResent, At
    <3>3. \A x \in Rides : window'[x].driver \in {None, window[x].driver}
      BY <2>15 DEF DeclineClear, Absent, IInv, TypeOK
    <3> QED
      BY <1>1, <1>3, <3>1, <3>2, <3>3, QuietKept
  <2>16. CASE DeclineCount(w)
    <3>1. /\ req'[w].pc = "release" /\ req'[w].ride = r /\ req'[w].tries = ride[r].tries
          /\ UNCHANGED <<ride, window>>
      BY <2>16 DEF DeclineCount, IInv, TypeOK, Request
    <3>2. window[r].driver = None
      BY <1>4, <2>16 DEF DeclineCount, At, Held
    <3>3. Held(w)' /\ NotResent(w)
      BY <2>1, <3>1, <3>2 DEF Held, Finds, NotResent, At
    <3> QED
      BY <1>5, <3>1, <3>3
  <2>17. CASE Reassign(w)
    <3>1. window[r].driver = None /\ req[w].tries = ride[r].tries
      BY <1>4, <2>17 DEF Reassign, At, Held
    <3>2. /\ \A x \in Rides : x # r => ride'[x] = ride[x] /\ window'[x] = window[x]
          /\ ride'[r].status = "REQUESTED" /\ ride'[r].driver = None
          /\ ride'[r].tries = req[w].tries + 1 /\ ride[r].tries \in Nat
          /\ req[w].tries < MaxReassign /\ UNCHANGED window
      BY <2>1, <2>17 DEF Reassign, IInv, TypeOK, RideRow
    <3>3. req'[w].pc = "pick" /\ req'[w].ride = r
      BY <2>17 DEF Reassign, Goto, IInv, TypeOK, Request
    <3>4. Held(w)'
      BY <2>1, <3>1, <3>2, <3>3 DEF Held, Finds
    <3>5. Along(r)
      BY <2>1, <3>2 DEF Along
    <3>6. ride'[r].status \notin Served
      BY <3>2 DEF Served, Live
    <3>7. /\ ride'[r].tries = ride[r].tries + 1 /\ ride'[r].tries <= MaxReassign
          /\ ride'[r].tries >= ride[r].tries
      BY <3>1, <3>2, ConstantsAssumption
    <3> QED
      BY <1>1, <1>3, <2>1, <3>1, <3>2, <3>4, <3>5, <3>6, <3>7, StepKept
  <2>18. CASE CommitComplete(w)
    <3>1. ride[r].status \in {"DRIVER_ARRIVING", "IN_PROGRESS"}
      BY <1>4, <2>18 DEF CommitComplete, At, Held, Finds
    <3>2. /\ \A x \in Rides : x # r => ride'[x] = ride[x] /\ window'[x] = window[x]
          /\ ride'[r].status = "COMPLETED" /\ ride'[r].driver = ride[r].driver
          /\ ride'[r].tries = ride[r].tries /\ ride[r].tries \in Nat /\ UNCHANGED window
      BY <2>1, <2>18 DEF CommitComplete, IInv, TypeOK, RideRow
    <3>3. req'[w].pc = "split" /\ req'[w].ride = r
      BY <2>18 DEF CommitComplete, Goto, IInv, TypeOK, Request
    <3>4. Held(w)' /\ NotResent(w)
      BY <2>1, <3>2, <3>3 DEF Held, Finds, NotResent, At
    <3>5. Along(r)
      BY <3>1, <3>2 DEF Along, OnTheRoad
    <3>6. ride[r].driver # None
      BY <1>4, <2>1, <3>1 DEF ServedByDriver, Live
    <3>7. window'[r].driver # None => ride'[r].driver = window'[r].driver
      BY <1>4, <2>1, <3>2 DEF KeyFits
    <3> QED
      BY <1>1, <1>3, <2>1, <3>2, <3>4, <3>5, <3>6, <3>7, StepKept
  <2> QED
    BY <1>6, <2>5, <2>6, <2>7, <2>8, <2>9, <2>10, <2>11, <2>12, <2>13, <2>14, <2>15, <2>16, <2>17,
       <2>18 DEF Continue
<1>8. CASE req[w].pc \in OffRide
  BY <1>6, <1>8
     DEF Continue, PickDriver, CommitMatch, OpenWindow, AlertDriver, CancelUndispatched, CommitAccept,
         CloseWindow, DeclineClear, DeclineCount, GiveUp, Reassign, NoShowStrike, CommitCancel,
         CommitArrived, CommitStart, DriverMoves, CommitComplete, SplitPayment, CommitConfirm,
         ConfirmFails, LowBalanceOffline, GpsArrived, GpsStarted, GpsMoves, At, OffRide
<1> QED
  BY <1>7, <1>8

-----------------------------------------------------------------------------
(* Requests and tasks that arrive, time and faults keep HeldInv *)

LEMMA BeginHeld ==
    ASSUME IInv, NEW w \in Workers, UNCHANGED ride, NEW src, NEW r, NEW d,
           NEW pc \in Calm \cup {"accept", "arrived", "start", "gpsArrived", "gpsStart", "complete",
                                "confirm"},
           Begin(w, pc, src, r, d),
           pc \notin OffRide => ride[r].status # "NONE",
           pc \in {"accept", "gpsArrived", "gpsStart"} => ride[r].driver = d,
           pc \in {"accept", "arrived", "start", "gpsArrived", "gpsStart"} => d \in Drivers,
           pc = "complete" => ride[r].status \in {"DRIVER_ARRIVING", "IN_PROGRESS"},
           pc = "confirm" => ride[r].status = "COMPLETED"
    PROVE  Held(w)' /\ NotResent(w)
<1>1. req'[w].pc = pc /\ req'[w].ride = r /\ req'[w].driver = d /\ req[w].pc = "idle"
  BY DEF Begin, IInv, TypeOK
<1> QED
  BY <1>1 DEF Held, Finds, Calm, OffRide, NotResent, At

LEMMA SameHeld ==
    ASSUME IInv, HeldInv, NEW w \in Workers, UNCHANGED <<ride, driver, window, req>>
    PROVE  Held(w)' /\ NotResent(w)
<1>1. Held(w)
  BY DEF HeldInv
<1>2. Held(w)'
  BY <1>1 DEF Held, Finds, InPool
<1> QED
  BY <1>2 DEF NotResent, At

LEMMA RequestKept ==
    ASSUME IInv, HeldInv, NEW w \in Workers, NEW r \in Rides, RequestRide(w, r)
    PROVE  Kept
<1>1. ride[r].status = "NONE" /\ ride[r].driver = None /\ window[r].driver = None
  BY DEF RequestRide, IInv, RowsOK, OfferNamesDriver, HeldInv, KeyFits
<1>2. /\ \A x \in Rides : x # r => ride'[x] = ride[x] /\ window'[x] = window[x]
      /\ ride'[r].status = "REQUESTED" /\ ride'[r].driver = None
      /\ ride'[r].tries = ride[r].tries /\ ride[r].tries \in Nat /\ UNCHANGED <<window, driver>>
  BY <1>1 DEF RequestRide, SetStatus, IInv, TypeOK, RideRow
<1>3. req'[w].pc = "pick" /\ req'[w].ride = r /\ req[w].pc = "idle"
  BY DEF RequestRide, Begin, IInv, TypeOK
<1>4. Others(w)
  BY OthersWait DEF Arrive
<1>5. OthersUndisturbed(w)
  <2> SUFFICES ASSUME NEW v \in Workers, v # w, req[v].pc \notin OffRide PROVE Undisturbed(v)
    BY DEF OthersUndisturbed, Undisturbed
  <2>1. req[v].ride \in Rides /\ ride[req[v].ride].status # "NONE" /\ req'[v] = req[v]
    BY <1>4, AtRide DEF HeldInv, Held, Others
  <2> QED
    BY <1>1, <1>2, <2>1 DEF Undisturbed, InPool
<1>6. Held(w)' /\ NotResent(w)
  BY <1>1, <1>2, <1>3 DEF Held, Finds, NotResent, At
<1>7. Along(r)
  BY <1>1, <1>2 DEF Along
<1>8. ride'[r].status \notin Served
  BY <1>2 DEF Served, Live
<1> QED
  BY <1>1, <1>2, <1>4, <1>5, <1>6, <1>7, <1>8, StepKept

LEMMA ArriveKept ==
    ASSUME IInv, HeldInv, NEW w \in Workers, Arrive(w)
    PROVE  Kept
<1>1. Others(w)
  BY OthersWait
<1>2. ASSUME UNCHANGED <<ride, driver, window>>, Held(w)', NotResent(w) PROVE Kept
  <2>1. OthersUndisturbed(w)
    <3> SUFFICES ASSUME NEW v \in Workers, v # w PROVE Undisturbed(v)
      BY DEF OthersUndisturbed
    <3>1. req'[v] = req[v]
      BY <1>1 DEF Others
    <3> QED
      BY <1>2, <3>1 DEF Undisturbed, InPool
  <2>2. \A x \in Rides : window'[x].driver \in {None, window[x].driver}
    BY <1>2
  <2> QED
    BY <1>1, <1>2, <2>1, <2>2, QuietKept
<1>3. ASSUME NEW r \in Rides, CancelStart(w, r) PROVE Kept
  BY <1>2, <1>3, BeginHeld DEF CancelStart, Calm
<1>4. ASSUME NEW r \in Rides, CompleteTap(w, r) PROVE Kept
  BY <1>2, <1>4, BeginHeld DEF CompleteTap, CompleteStart
<1>5. ASSUME NEW r \in Rides, ConfirmStart(w, r) PROVE Kept
  BY <1>2, <1>5, BeginHeld DEF ConfirmStart
<1>6. ASSUME NEW r \in Rides, TimeoutFires(w, r) PROVE Kept
  <2>1. UNCHANGED <<ride, driver, window>>
    BY <1>6 DEF TimeoutFires
  <2>2. CASE UNCHANGED req
    BY <1>2, <2>1, <2>2, SameHeld
  <2>3. CASE window[r].driver # None /\ Begin(w, "clear", "timeout", r, window[r].driver)
    <3>1. ride[r].status # "NONE"
      BY <2>3 DEF IInv, RowsOK, OfferNamesDriver, HeldInv, KeyFits
    <3> QED
      BY <1>2, <2>1, <2>3, <3>1, BeginHeld DEF Calm
  <2> QED
    BY <1>6, <2>2, <2>3 DEF TimeoutFires
<1>7. ASSUME NEW r \in Rides, AutoCompleteFires(w, r) PROVE Kept
  <2>1. UNCHANGED <<ride, driver, window>>
    BY <1>7 DEF AutoCompleteFires
  <2>2. CASE UNCHANGED req
    BY <1>2, <2>1, <2>2, SameHeld
  <2>3. CASE ride[r].status = "IN_PROGRESS" /\ CompleteStart(w, r, "auto")
    BY <1>2, <2>1, <2>3, BeginHeld DEF CompleteStart
  <2> QED
    BY <1>7, <2>2, <2>3 DEF AutoCompleteFires
<1>8. ASSUME NEW r \in Rides, NEW d \in Drivers, AcceptStart(w, r, d) PROVE Kept
  <2>1. ride[r].driver = d /\ ride[r].status # "NONE"
    BY <1>8, ConstantsAssumption
       DEF AcceptStart, IInv, RowsOK, OfferNamesDriver, HeldInv, KeyFits
  <2> QED
    BY <1>2, <1>8, <2>1, BeginHeld DEF AcceptStart
<1>9. ASSUME NEW r \in Rides, NEW d \in Drivers,
             DeclineStart(w, r, d) \/ ArrivedStart(w, r, d) \/ StartStart(w, r, d)
      PROVE  Kept
  BY <1>2, <1>9, BeginHeld DEF DeclineStart, ArrivedStart, StartStart, Calm
<1>10. ASSUME NEW d \in Drivers, GpsUpdate(w, d) PROVE Kept
  <2>1. UNCHANGED <<ride, driver, window>>
    BY <1>10 DEF GpsUpdate
  <2>2. PICK r \in Rides :
          /\ ActiveRides(d) = {r}
          /\ \/ Begin(w, "gpsArrived", "api", r, d)
             \/ Begin(w, "gpsStart", "api", r, d)
             \/ UNCHANGED req
    BY <1>10 DEF GpsUpdate
  <2>3. ride[r].driver = d /\ ride[r].status # "NONE"
    BY <2>2 DEF ActiveRides, OnTheRoad
  <2>4. CASE Begin(w, "gpsArrived", "api", r, d)
    BY <1>2, <2>1, <2>3, <2>4, BeginHeld
  <2>5. CASE Begin(w, "gpsStart", "api", r, d)
    BY <1>2, <2>1, <2>3, <2>5, BeginHeld
  <2>6. CASE UNCHANGED req
    BY <1>2, <2>1, <2>6, SameHeld
  <2> QED
    BY <2>2, <2>4, <2>5, <2>6
<1>11. ASSUME NEW d \in Drivers, NEW online \in BOOLEAN, ToggleStart(w, d, online) PROVE Kept
  BY <1>2, <1>11, BeginHeld DEF ToggleStart, Calm, OffRide
<1> QED
  BY <1>3, <1>4, <1>5, <1>6, <1>7, <1>8, <1>9, <1>10, <1>11, RequestKept DEF Arrive

\* Steps of no worker, and none at all.
LEMMA IdleKept ==
    ASSUME IInv, HeldInv, UNCHANGED <<ride, req>>,
           \A x \in Rides : window'[x].driver \in {None, window[x].driver},
           \A d \in Drivers : InPool(d) => InPool(d)'
    PROVE  Kept
<1>1. ASSUME NEW v \in Workers PROVE Held(v)'
  <2>1. Held(v)
    BY DEF HeldInv
  <2>2. req[v].pc \notin OffRide => req[v].ride \in Rides
    BY AtRide
  <2>3. req[v].pc = "match" => req[v].driver \in Drivers
    BY DEF IInv, InFlight, Sound
  <2>4. req[v].pc = "match" /\ InPool(req[v].driver) => InPool(req[v].driver)'
    BY <2>3 DEF InPool
  <2> QED
    BY <2>1, <2>2, <2>4 DEF Held, Finds, OffRide
<1>2. CountedStep
  BY RideUntouched DEF CountedStep, At
<1> QED
  BY <1>1, <1>2, RideUntouched DEF Kept, HeldInv

LEMMA NextKept == ASSUME IInv, HeldInv, Apart, [Next]_vars PROVE Kept
<1>1. ASSUME NEW w \in Workers, Arrive(w) PROVE Kept
  BY <1>1, ArriveKept
<1>2. ASSUME NEW w \in Workers, Continue(w) PROVE Kept
  BY <1>2, ContinueKept
<1>3. ASSUME NEW w \in Workers, Fault(w) PROVE Kept
  <2>1. OthersUndisturbed(w) /\ Others(w)
    BY <1>3, OwnUndisturbs, OthersWait DEF Fault
  <2>2. Held(w)' /\ NotResent(w)
    BY <1>3, DoneHeld DEF Fault
  <2> QED
    BY <1>3, <2>1, <2>2, QuietKept DEF Fault
<1>4. ASSUME NEW d \in Drivers, SubscriptionExpires(d) PROVE Kept
  <2>1. \A x \in Drivers : InPool(x) => InPool(x)'
    BY <1>4 DEF SubscriptionExpires, InPool, IInv, TypeOK
  <2> QED
    BY <1>4, <2>1, IdleKept DEF SubscriptionExpires
<1>5. CASE Tick
  <2>1. \A x \in Rides : window'[x].driver \in {None, window[x].driver}
    BY <1>5 DEF Tick, Older, Absent, IInv, TypeOK, Window
  <2> QED
    BY <1>5, <2>1, IdleKept DEF Tick, InPool
<1>6. CASE UNCHANGED vars
  BY <1>6, IdleKept DEF vars, InPool
<1> QED
  BY <1>1, <1>2, <1>3, <1>4, <1>5, <1>6 DEF Next

LEMMA HeldInit == Init => HeldInv /\ Lifecycle!Init
<1> SUFFICES ASSUME Init PROVE HeldInv /\ Lifecycle!Init
  OBVIOUS
<1>1. HeldInv
  BY DEF Init, HeldInv, KeyFits, ServedByDriver, Live, Held, Finds, Idle, Absent, OffRide
<1>2. Phases = [r \in Rides |-> "none"] /\ Holders = [r \in Rides |-> None]
  BY PhasesAre DEF Init, Phases, Holders
<1> QED
  BY <1>1, <1>2 DEF Lifecycle!Init, Phases, Holders

-----------------------------------------------------------------------------
(* The theorems *)

LEMMA HeldInductive == Spec /\ []Apart => []HeldInv
<1>1. Init => HeldInv
  BY HeldInit
<1>2. Apart /\ IInv /\ HeldInv /\ [Next]_vars => HeldInv'
  BY NextKept DEF Kept
<1> QED
  BY <1>1, <1>2, Inductive, PTL DEF Spec

\* handle_driver_acceptance looks at its key alone and complete_ride at nothing
\* but the status: as long as handlers stay apart, whatever they move on still
\* has its driver, after declines, cancellations and late taps too.
THEOREM RidesServedByDriver == Spec /\ []Apart => []ServedByDriver
<1>1. HeldInv => ServedByDriver
  BY DEF HeldInv
<1> QED
  BY <1>1, HeldInductive, PTL

\* The counter that handle_driver_decline reads and writes back is exact as long
\* as handlers stay apart: a ride is sent out again MaxReassign times at most.
THEOREM ReassignmentsAreCounted == Spec /\ []Apart => ReassignmentsCounted
<1>1. Apart /\ IInv /\ HeldInv /\ [Next]_vars => [CountedStep]_vars
  BY NextKept DEF Kept
<1> QED
  BY <1>1, HeldInductive, Inductive, PTL DEF Spec, ReassignmentsCounted

\* dispatch_ride never matches a driver whom another handler has taken, or whose
\* switch has gone off, since find_best_driver saw him.
THEOREM MatchesAreFromPool == Spec /\ []Apart => MatchedFromPool
<1>1. Apart /\ IInv /\ HeldInv /\ [Next]_vars => [MatchedStep]_vars
  BY NextKept DEF Kept
<1> QED
  BY <1>1, HeldInductive, Inductive, PTL DEF Spec, MatchedFromPool

\* Every step of every handler and task is a step of the ride's life or leaves
\* it alone.
THEOREM DispatchImplementsLifecycle == Spec /\ []Apart => RefinesLifecycle
<1>1. Init => Lifecycle!Init
  BY HeldInit
<1>2. Apart /\ IInv /\ HeldInv /\ [Next]_vars => [Lifecycle!Next]_(Lifecycle!vars)
  BY NextKept DEF Kept
<1> QED
  BY <1>1, <1>2, HeldInductive, Inductive, PTL DEF Spec, RefinesLifecycle, Lifecycle!Spec

=============================================================================
