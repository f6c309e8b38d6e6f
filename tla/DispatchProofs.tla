-------------------------- MODULE DispatchProofs ---------------------------
(***************************************************************************)
(* Type correctness of Dispatch and the invariants that hold however       *)
(* handlers overlap, for every number of rides, drivers, workers and every *)
(* value of the limits.                                                    *)
(***************************************************************************)
EXTENDS Dispatch, TLAPS

\* Steps of a worker that works on no ride.
OffRide == {"idle", "goOnline", "goOffline"}

\* What a handler in flight may rely on although it looks at the ride only
\* once: the ride exists, an offer names a driver, a payment is for a ride
\* whose fare was set and is never unset.
Sound(w) ==
    /\ req[w].pc \notin OffRide => req[w].ride \in Rides
    /\ req[w].pc \in {"match", "open", "alert"} => req[w].driver \in Drivers
    /\ req[w].pc \in {"split", "confirm"} => ride[req[w].ride].priced

InFlight == \A w \in Workers : Sound(w)

RowsOK == OfferNamesDriver /\ SettledIsPriced

IInv == TypeOK /\ RowsOK /\ InFlight

\* The fare of a ride, once set, stays set.
FaresKept == \A r \in Rides : ride[r].priced => ride'[r].priced

-----------------------------------------------------------------------------
(* Writes to one variable *)

LEMMA StatusWrite ==
    ASSUME TypeOK, RowsOK, NEW r \in Rides, NEW s \in RideStatus \ {"NONE", "REQUESTED", "MATCHED"},
           s \in {"COMPLETED", "PAID"} => ride[r].priced, SetStatus(r, s)
    PROVE  ride' \in [Rides -> RideRow] /\ RowsOK' /\ FaresKept
<1>1. \A x \in Rides :
        /\ ride'[x].driver = ride[x].driver
        /\ ride'[x].tries = ride[x].tries
        /\ ride'[x].priced = ride[x].priced
        /\ ride'[x].status = IF x = r THEN s ELSE ride[x].status
  BY DEF TypeOK, SetStatus, RideRow
<1>2. ride' \in [Rides -> RideRow]
  BY DEF TypeOK, SetStatus, RideRow
<1> QED
  BY <1>1, <1>2 DEF RowsOK, OfferNamesDriver, SettledIsPriced, FaresKept

LEMMA RideSame ==
    ASSUME TypeOK, RowsOK, UNCHANGED ride
    PROVE  ride' \in [Rides -> RideRow] /\ RowsOK' /\ FaresKept
BY DEF TypeOK, RowsOK, OfferNamesDriver, SettledIsPriced, FaresKept

LEMMA AvailabilityWrite ==
    ASSUME TypeOK, NEW d, NEW a \in DriverAvailability, SetAvailability(d, a)
    PROVE  driver' \in [Drivers -> DriverRow]
BY DEF TypeOK, SetAvailability, DriverRow

-----------------------------------------------------------------------------
(* Moves of one worker *)

LEMMA OthersSound ==
    ASSUME TypeOK, InFlight, FaresKept, NEW w \in Workers, NEW q \in Request,
           req' = [req EXCEPT ![w] = q], Sound(w)'
    PROVE  req' \in [Workers -> Request] /\ InFlight'
<1>1. req' \in [Workers -> Request]
  BY DEF TypeOK
<1>2. ASSUME NEW v \in Workers, v # w PROVE Sound(v)'
  <2>1. req'[v] = req[v] /\ Sound(v)
    BY <1>2 DEF TypeOK, InFlight
  <2> QED
    BY <2>1 DEF Sound, OffRide, FaresKept
<1> QED
  BY <1>1, <1>2 DEF InFlight

LEMMA DoneMove ==
    ASSUME TypeOK, InFlight, FaresKept, NEW w \in Workers, Done(w)
    PROVE  req' \in [Workers -> Request] /\ InFlight'
<1>1. Idle \in Request /\ Idle.pc = "idle"
  BY DEF Idle, Request, Step, Source
<1>2. req'[w] = Idle
  BY DEF TypeOK, Done
<1>3. Sound(w)'
  BY <1>1, <1>2 DEF Sound, OffRide
<1> QED
  BY <1>1, <1>3, OthersSound DEF Done

LEMMA GotoMove ==
    ASSUME TypeOK, InFlight, FaresKept, NEW w \in Workers, req[w].pc \notin OffRide,
           NEW pc \in Step, pc \in {"match", "open", "alert"} => req[w].driver \in Drivers,
           pc \in {"split", "confirm"} => ride'[req[w].ride].priced, Goto(w, pc)
    PROVE  req' \in [Workers -> Request] /\ InFlight'
<1> DEFINE q == [req[w] EXCEPT !.pc = pc]
<1>1. q \in Request /\ q.pc = pc /\ q.ride = req[w].ride /\ q.driver = req[w].driver
  BY DEF TypeOK, Request
<1>2. req' = [req EXCEPT ![w] = q] /\ req'[w] = q
  BY DEF TypeOK, Goto
<1>3. req[w].ride \in Rides
  BY DEF InFlight, Sound
<1>4. Sound(w)'
  BY <1>1, <1>2, <1>3 DEF Sound
<1> QED
  BY <1>1, <1>2, <1>4, OthersSound

LEMMA AfterDeclineMove ==
    ASSUME TypeOK, InFlight, FaresKept, NEW w \in Workers, req[w].pc \notin OffRide,
           AfterDecline(w)
    PROVE  req' \in [Workers -> Request] /\ InFlight'
<1>1. CASE Goto(w, "strike")
  BY <1>1, GotoMove DEF Step
<1>2. CASE Done(w)
  BY <1>2, DoneMove
<1> QED
  BY <1>1, <1>2 DEF AfterDecline

LEMMA BeginMove ==
    ASSUME TypeOK, InFlight, FaresKept, NEW w \in Workers,
           NEW pc \in Step \ {"match", "open", "alert", "split"}, NEW src \in Source,
           NEW r \in Rides \cup {None}, NEW d \in Drivers \cup {None},
           pc \notin OffRide => r \in Rides,
           pc = "confirm" => ride'[r].priced, Begin(w, pc, src, r, d)
    PROVE  req' \in [Workers -> Request] /\ InFlight'
<1> DEFINE q == [pc |-> pc, src |-> src, ride |-> r, driver |-> d, tries |-> 0,
              silent |-> Silent(src, d)]
<1>1. q \in Request /\ q.pc = pc /\ q.ride = r
  BY DEF Request, Silent
<1>2. req' = [req EXCEPT ![w] = q] /\ req'[w] = q
  BY DEF TypeOK, Begin
<1>3. Sound(w)'
  BY <1>1, <1>2 DEF Sound
<1> QED
  BY <1>1, <1>2, <1>3, OthersSound

-----------------------------------------------------------------------------
(* Every step of a handler keeps the invariant *)

LEMMA ContinueKeeps ==
    ASSUME IInv, NEW w \in Workers, Continue(w)
    PROVE  IInv'
<1>1. CASE CommitAccept(w)
  <2>1. req[w].ride \in Rides /\ req[w].pc \notin OffRide
    BY <1>1 DEF CommitAccept, At, IInv, InFlight, Sound, OffRide
  <2>2. ride' \in [Rides -> RideRow] /\ RowsOK' /\ FaresKept
    BY <1>1, <2>1, StatusWrite, RideSame DEF CommitAccept, IInv, RideStatus
  <2>3. req' \in [Workers -> Request] /\ InFlight'
    BY <1>1, <2>1, <2>2, GotoMove DEF CommitAccept, IInv, Step
  <2> QED
    BY <1>1, <2>2, <2>3 DEF CommitAccept, IInv, TypeOK
<1>2. CASE CancelUndispatched(w)
  <2>1. req[w].ride \in Rides /\ req[w].pc \notin OffRide
    BY <1>2 DEF CancelUndispatched, At, IInv, InFlight, Sound, OffRide
  <2>2. ride' \in [Rides -> RideRow] /\ RowsOK' /\ FaresKept
    BY <1>2, <2>1, StatusWrite, RideSame DEF CancelUndispatched, IInv, RideStatus
  <2>3. req' \in [Workers -> Request] /\ InFlight'
    BY <1>2, <2>1, <2>2, DoneMove DEF CancelUndispatched, IInv
  <2> QED
    BY <1>2, <2>2, <2>3 DEF CancelUndispatched, IInv, TypeOK
<1>3. CASE CommitCancel(w)
  <2>1. req[w].ride \in Rides /\ req[w].pc \notin OffRide
    BY <1>3 DEF CommitCancel, At, IInv, InFlight, Sound, OffRide
  <2>2. ride' \in [Rides -> RideRow] /\ RowsOK' /\ FaresKept
    BY <1>3, <2>1, StatusWrite, RideSame DEF CommitCancel, IInv, RideStatus
  <2>3. req' \in [Workers -> Request] /\ InFlight'
    BY <1>3, <2>1, <2>2, DoneMove DEF CommitCancel, IInv
  <2> QED
    BY <1>3, <2>2, <2>3 DEF CommitCancel, IInv, TypeOK
<1>4. CASE CommitArrived(w)
  <2>1. req[w].ride \in Rides /\ req[w].pc \notin OffRide
    BY <1>4 DEF CommitArrived, DriverMoves, At, IInv, InFlight, Sound, OffRide
  <2>2. ride' \in [Rides -> RideRow] /\ RowsOK' /\ FaresKept
    BY <1>4, <2>1, StatusWrite, RideSame DEF CommitArrived, DriverMoves, IInv, RideStatus
  <2>3. req' \in [Workers -> Request] /\ InFlight'
    BY <1>4, <2>1, <2>2, DoneMove DEF CommitArrived, DriverMoves, IInv
  <2> QED
    BY <1>4, <2>2, <2>3 DEF CommitArrived, DriverMoves, IInv, TypeOK
<1>5. CASE CommitStart(w)
  <2>1. req[w].ride \in Rides /\ req[w].pc \notin OffRide
    BY <1>5 DEF CommitStart, DriverMoves, At, IInv, InFlight, Sound, OffRide
  <2>2. ride' \in [Rides -> RideRow] /\ RowsOK' /\ FaresKept
    BY <1>5, <2>1, StatusWrite, RideSame DEF CommitStart, DriverMoves, IInv, RideStatus
  <2>3. req' \in [Workers -> Request] /\ InFlight'
    BY <1>5, <2>1, <2>2, DoneMove DEF CommitStart, DriverMoves, IInv
  <2> QED
    BY <1>5, <2>2, <2>3 DEF CommitStart, DriverMoves, IInv, TypeOK
<1>6. CASE GpsArrived(w)
  <2>1. req[w].ride \in Rides /\ req[w].pc \notin OffRide
    BY <1>6 DEF GpsArrived, GpsMoves, At, IInv, InFlight, Sound, OffRide
  <2>2. ride' \in [Rides -> RideRow] /\ RowsOK' /\ FaresKept
    BY <1>6, <2>1, StatusWrite, RideSame DEF GpsArrived, GpsMoves, IInv, RideStatus
  <2>3. req' \in [Workers -> Request] /\ InFlight'
    BY <1>6, <2>1, <2>2, DoneMove DEF GpsArrived, GpsMoves, IInv
  <2> QED
    BY <1>6, <2>2, <2>3 DEF GpsArrived, GpsMoves, IInv, TypeOK
<1>7. CASE GpsStarted(w)
  <2>1. req[w].ride \in Rides /\ req[w].pc \notin OffRide
    BY <1>7 DEF GpsStarted, GpsMoves, At, IInv, InFlight, Sound, OffRide
  <2>2. ride' \in [Rides -> RideRow] /\ RowsOK' /\ FaresKept
    BY <1>7, <2>1, StatusWrite, RideSame DEF GpsStarted, GpsMoves, IInv, RideStatus
  <2>3. req' \in [Workers -> Request] /\ InFlight'
    BY <1>7, <2>1, <2>2, DoneMove DEF GpsStarted, GpsMoves, IInv
  <2> QED
    BY <1>7, <2>2, <2>3 DEF GpsStarted, GpsMoves, IInv, TypeOK
<1>8. CASE ConfirmFails(w)
  <2>1. req[w].ride \in Rides /\ req[w].pc \notin OffRide
    BY <1>8 DEF ConfirmFails, At, IInv, InFlight, Sound, OffRide
  <2>2. ride' \in [Rides -> RideRow] /\ RowsOK' /\ FaresKept
    BY <1>8, RideSame DEF ConfirmFails, IInv
  <2>3. req' \in [Workers -> Request] /\ InFlight'
    BY <1>8, <2>1, <2>2, DoneMove DEF ConfirmFails, IInv
  <2> QED
    BY <1>8, <2>2, <2>3 DEF ConfirmFails, IInv, TypeOK
<1>9. CASE GiveUp(w)
  <2>1. req[w].ride \in Rides /\ req[w].pc \notin OffRide
    BY <1>9 DEF GiveUp, At, IInv, InFlight, Sound, OffRide
  <2>2. ride' \in [Rides -> RideRow] /\ RowsOK' /\ FaresKept
    BY <1>9, <2>1, StatusWrite, RideSame DEF GiveUp, IInv, RideStatus
  <2>3. req' \in [Workers -> Request] /\ InFlight'
    BY <1>9, <2>1, <2>2, AfterDeclineMove DEF GiveUp, IInv
  <2>4. driver' \in [Drivers -> DriverRow]
    BY <1>9, AvailabilityWrite DEF GiveUp, IInv, DriverAvailability
  <2> QED
    BY <1>9, <2>2, <2>3, <2>4 DEF GiveUp, IInv, TypeOK
<1>10. CASE LowBalanceOffline(w)
  <2>1. req[w].ride \in Rides /\ req[w].pc \notin OffRide
    BY <1>10 DEF LowBalanceOffline, At, IInv, InFlight, Sound, OffRide
  <2>2. ride' \in [Rides -> RideRow] /\ RowsOK' /\ FaresKept
    BY <1>10, RideSame DEF LowBalanceOffline, IInv
  <2>3. req' \in [Workers -> Request] /\ InFlight'
    BY <1>10, <2>1, <2>2, DoneMove DEF LowBalanceOffline, IInv
  <2>4. driver' \in [Drivers -> DriverRow]
    BY <1>10, AvailabilityWrite DEF LowBalanceOffline, IInv, DriverAvailability
  <2> QED
    BY <1>10, <2>2, <2>3, <2>4 DEF LowBalanceOffline, IInv, TypeOK
<1>11. CASE PickDriver(w)
  <2>1. req[w].ride \in Rides /\ req[w].pc \notin OffRide
    BY <1>11 DEF PickDriver, At, IInv, InFlight, Sound, OffRide
  <2>2. ride' \in [Rides -> RideRow] /\ RowsOK' /\ FaresKept
    BY <1>11, RideSame DEF PickDriver, IInv
  <2>3. CASE \E d \in Available(req[w].ride) :
                req' = [req EXCEPT ![w].pc = "match", ![w].driver = d]
    <3>1. PICK d \in Drivers : req' = [req EXCEPT ![w].pc = "match", ![w].driver = d]
      BY <2>3 DEF Available
    <3> DEFINE q == [req[w] EXCEPT !.pc = "match", !.driver = d]
    <3>2. q \in Request /\ q.pc = "match" /\ q.ride = req[w].ride /\ q.driver = d
      BY DEF IInv, TypeOK, Request, Step
    <3>3. req' = [req EXCEPT ![w] = q] /\ req'[w] = q
      BY <3>1 DEF IInv, TypeOK
    <3>4. Sound(w)'
      BY <2>1, <3>2, <3>3 DEF Sound
    <3>5. req' \in [Workers -> Request] /\ InFlight'
      BY <2>2, <3>2, <3>3, <3>4, OthersSound DEF IInv
    <3> QED
      BY <1>11, <2>2, <3>5 DEF PickDriver, IInv, TypeOK
  <2>4. CASE Goto(w, "noDriver") \/ AfterDecline(w)
    <3>1. req' \in [Workers -> Request] /\ InFlight'
      BY <2>1, <2>2, <2>4, GotoMove, AfterDeclineMove DEF IInv, Step
    <3> QED
      BY <1>11, <2>2, <3>1 DEF PickDriver, IInv, TypeOK
  <2> QED
    BY <1>11, <2>3, <2>4 DEF PickDriver
<1>12. CASE CommitMatch(w)
  <2>1. req[w].ride \in Rides /\ req[w].pc \notin OffRide /\ req[w].driver \in Drivers
    BY <1>12 DEF CommitMatch, At, IInv, InFlight, Sound, OffRide
  <2>2. ride' \in [Rides -> RideRow] /\ RowsOK' /\ FaresKept
    <3>1. \A x \in Rides : x # req[w].ride => ride'[x] = ride[x]
      BY <1>12 DEF CommitMatch, IInv, TypeOK
    <3>2. LET q == ride'[req[w].ride] IN
          /\ q.status = "MATCHED" /\ q.driver = req[w].driver
          /\ q.tries = ride[req[w].ride].tries /\ q.priced = ride[req[w].ride].priced
      BY <1>12, <2>1 DEF CommitMatch, IInv, TypeOK, RideRow
    <3> DEFINE row == [ride[req[w].ride] EXCEPT !.status = "MATCHED", !.driver = req[w].driver]
    <3>3. row \in RideRow
      <4>1. ride[req[w].ride] \in RideRow /\ req[w].tries \in Nat
        BY <2>1 DEF IInv, TypeOK, Request
      <4> QED
        BY <2>1, <4>1 DEF RideRow, RideStatus
    <3>4. ride' = [ride EXCEPT ![req[w].ride] = row]
      BY <1>12, <2>1 DEF CommitMatch, IInv, TypeOK
    <3>5. ride' \in [Rides -> RideRow]
      BY <2>1, <3>3, <3>4 DEF IInv, TypeOK
    <3> QED
      BY <2>1, <3>1, <3>2, <3>5, ConstantsAssumption
         DEF IInv, RowsOK, OfferNamesDriver, SettledIsPriced, FaresKept
  <2>3. req' \in [Workers -> Request] /\ InFlight'
    BY <1>12, <2>1, <2>2, GotoMove DEF CommitMatch, IInv, Step
  <2>4. driver' \in [Drivers -> DriverRow]
    BY <1>12, AvailabilityWrite DEF CommitMatch, IInv, DriverAvailability
  <2> QED
    BY <1>12, <2>2, <2>3, <2>4 DEF CommitMatch, IInv, TypeOK
<1>13. CASE Reassign(w)
  <2>1. req[w].ride \in Rides /\ req[w].pc \notin OffRide
    BY <1>13 DEF Reassign, At, IInv, InFlight, Sound, OffRide
  <2>2. ride' \in [Rides -> RideRow] /\ RowsOK' /\ FaresKept
    <3>1. \A x \in Rides : x # req[w].ride => ride'[x] = ride[x]
      BY <1>13 DEF Reassign, IInv, TypeOK
    <3>2. LET q == ride'[req[w].ride] IN
          /\ q.status = "REQUESTED" /\ q.driver = None
          /\ q.tries = req[w].tries + 1 /\ q.priced = ride[req[w].ride].priced
      BY <1>13, <2>1 DEF Reassign, IInv, TypeOK, RideRow
    <3> DEFINE row == [ride[req[w].ride] EXCEPT !.status = "REQUESTED", !.driver = None,
                                                    !.tries = req[w].tries + 1]
    <3>3. row \in RideRow
      <4>1. ride[req[w].ride] \in RideRow /\ req[w].tries \in Nat
        BY <2>1 DEF IInv, TypeOK, Request
      <4> DEFINE freed == [ride[req[w].ride] EXCEPT !.status = "REQUESTED", !.driver = None]
      <4>2. freed \in RideRow
        BY <4>1 DEF RideRow, RideStatus
      <4>3. row = [freed EXCEPT !.tries = req[w].tries + 1] /\ req[w].tries + 1 \in Nat
        BY <4>1
      <4> HIDE DEF freed
      <4> QED
        BY <4>2, <4>3 DEF RideRow
    <3>4. ride' = [ride EXCEPT ![req[w].ride] = row]
      BY <1>13, <2>1 DEF Reassign, IInv, TypeOK
    <3>5. ride' \in [Rides -> RideRow]
      BY <2>1, <3>3, <3>4 DEF IInv, TypeOK
    <3> QED
      BY <2>1, <3>1, <3>2, <3>5, ConstantsAssumption
         DEF IInv, RowsOK, OfferNamesDriver, SettledIsPriced, FaresKept
  <2>3. req' \in [Workers -> Request] /\ InFlight'
    BY <1>13, <2>1, <2>2, GotoMove DEF Reassign, IInv, Step
  <2>4. driver' \in [Drivers -> DriverRow]
    BY <1>13, AvailabilityWrite DEF Reassign, IInv, DriverAvailability
  <2> QED
    BY <1>13, <2>2, <2>3, <2>4 DEF Reassign, IInv, TypeOK
<1>14. CASE CommitComplete(w)
  <2>1. req[w].ride \in Rides /\ req[w].pc \notin OffRide
    BY <1>14 DEF CommitComplete, At, IInv, InFlight, Sound, OffRide
  <2>2. ride' \in [Rides -> RideRow] /\ RowsOK' /\ FaresKept
    <3>1. \A x \in Rides : x # req[w].ride => ride'[x] = ride[x]
      BY <1>14 DEF CommitComplete, IInv, TypeOK
    <3>2. LET q == ride'[req[w].ride] IN
          /\ q.status = "COMPLETED" /\ q.driver = ride[req[w].ride].driver
          /\ q.tries = ride[req[w].ride].tries /\ q.priced = TRUE
      BY <1>14, <2>1 DEF CommitComplete, IInv, TypeOK, RideRow
    <3> DEFINE row == [ride[req[w].ride] EXCEPT !.status = "COMPLETED", !.priced = TRUE]
    <3>3. row \in RideRow
      <4>1. ride[req[w].ride] \in RideRow /\ req[w].tries \in Nat
        BY <2>1 DEF IInv, TypeOK, Request
      <4> QED
        BY <2>1, <4>1 DEF RideRow, RideStatus
    <3>4. ride' = [ride EXCEPT ![req[w].ride] = row]
      BY <1>14, <2>1 DEF CommitComplete, IInv, TypeOK
    <3>5. ride' \in [Rides -> RideRow]
      BY <2>1, <3>3, <3>4 DEF IInv, TypeOK
    <3> QED
      BY <2>1, <3>1, <3>2, <3>5, ConstantsAssumption
         DEF IInv, RowsOK, OfferNamesDriver, SettledIsPriced, FaresKept
  <2>3. ride'[req[w].ride].priced
    BY <1>14, <2>1 DEF CommitComplete, IInv, TypeOK, RideRow
  <2>4. req' \in [Workers -> Request] /\ InFlight'
    BY <1>14, <2>1, <2>2, <2>3, GotoMove DEF CommitComplete, IInv, Step
  <2>5. driver' \in [Drivers -> DriverRow]
    BY <1>14, AvailabilityWrite DEF CommitComplete, IInv, DriverAvailability
  <2> QED
    BY <1>14, <2>2, <2>4, <2>5 DEF CommitComplete, IInv, TypeOK
<1>15. CASE SplitPayment(w)
  <2>1. req[w].ride \in Rides /\ req[w].pc \notin OffRide /\ ride[req[w].ride].priced
    BY <1>15 DEF SplitPayment, At, IInv, InFlight, Sound, OffRide
  <2>2. ride' \in [Rides -> RideRow] /\ RowsOK' /\ FaresKept
    BY <1>15, <2>1, StatusWrite, RideSame DEF SplitPayment, IInv, RideStatus
  <2>3. req' \in [Workers -> Request] /\ InFlight'
    BY <1>15, <2>1, <2>2, DoneMove DEF SplitPayment, IInv
  <2> QED
    BY <1>15, <2>2, <2>3 DEF SplitPayment, IInv, TypeOK
<1>16. CASE CommitConfirm(w)
  <2>1. req[w].ride \in Rides /\ req[w].pc \notin OffRide /\ ride[req[w].ride].priced
    BY <1>16 DEF CommitConfirm, At, IInv, InFlight, Sound, OffRide
  <2>2. ride' \in [Rides -> RideRow] /\ RowsOK' /\ FaresKept
    BY <1>16, <2>1, StatusWrite, RideSame DEF CommitConfirm, IInv, RideStatus
  <2>3. req' \in [Workers -> Request] /\ InFlight'
    BY <1>16, <2>1, <2>2, GotoMove, DoneMove DEF CommitConfirm, IInv, Step
  <2> QED
    BY <1>16, <2>2, <2>3 DEF CommitConfirm, IInv, TypeOK
<1>17. CASE OpenWindow(w)
  <2>1. req[w].ride \in Rides /\ req[w].pc \notin OffRide
    BY <1>17 DEF OpenWindow, At, IInv, InFlight, Sound, OffRide
  <2>2. ride' \in [Rides -> RideRow] /\ RowsOK' /\ FaresKept
    BY <1>17, RideSame DEF OpenWindow, IInv
  <2>3. req' \in [Workers -> Request] /\ InFlight'
    BY <1>17, <2>1, <2>2, GotoMove DEF OpenWindow, At, IInv, InFlight, Sound, Step
  <2>4. window' \in [Rides -> Window]
    BY <1>17, <2>1, ConstantsAssumption DEF OpenWindow, IInv, TypeOK, Request, Window, Absent
  <2> QED
    BY <1>17, <2>2, <2>3, <2>4 DEF OpenWindow, IInv, TypeOK
<1>18. CASE CloseWindow(w)
  <2>1. req[w].ride \in Rides /\ req[w].pc \notin OffRide
    BY <1>18 DEF CloseWindow, At, IInv, InFlight, Sound, OffRide
  <2>2. ride' \in [Rides -> RideRow] /\ RowsOK' /\ FaresKept
    BY <1>18, RideSame DEF CloseWindow, IInv
  <2>3. req' \in [Workers -> Request] /\ InFlight'
    BY <1>18, <2>1, <2>2, DoneMove DEF CloseWindow, IInv
  <2>4. window' \in [Rides -> Window]
    BY <1>18, <2>1, ConstantsAssumption DEF CloseWindow, IInv, TypeOK, Request, Window, Absent
  <2> QED
    BY <1>18, <2>2, <2>3, <2>4 DEF CloseWindow, IInv, TypeOK
<1>19. CASE DeclineClear(w)
  <2>1. req[w].ride \in Rides /\ req[w].pc \notin OffRide
    BY <1>19 DEF DeclineClear, At, IInv, InFlight, Sound, OffRide
  <2>2. ride' \in [Rides -> RideRow] /\ RowsOK' /\ FaresKept
    BY <1>19, RideSame DEF DeclineClear, IInv
  <2>3. req' \in [Workers -> Request] /\ InFlight'
    BY <1>19, <2>1, <2>2, GotoMove DEF DeclineClear, IInv, Step
  <2>4. window' \in [Rides -> Window]
    BY <1>19, <2>1, ConstantsAssumption DEF DeclineClear, IInv, TypeOK, Request, Window, Absent
  <2> QED
    BY <1>19, <2>2, <2>3, <2>4 DEF DeclineClear, IInv, TypeOK
<1>20. CASE AlertDriver(w)
  <2>1. req[w].ride \in Rides /\ req[w].pc \notin OffRide
    BY <1>20 DEF AlertDriver, At, IInv, InFlight, Sound, OffRide
  <2>2. ride' \in [Rides -> RideRow] /\ RowsOK' /\ FaresKept
    BY <1>20, RideSame DEF AlertDriver, IInv
  <2>3. req' \in [Workers -> Request] /\ InFlight'
    BY <1>20, <2>1, <2>2, AfterDeclineMove DEF AlertDriver, IInv
  <2>4. req[w].driver \in Drivers
    BY <1>20 DEF AlertDriver, At, IInv, InFlight, Sound
  <2>5. tried' \in [Rides -> SUBSET Drivers]
    BY <1>20, <2>1, <2>4 DEF AlertDriver, IInv, TypeOK
  <2> DEFINE queue == [timeouts[req[w].ride] EXCEPT ![TimeoutDelay] = @ + 1]
  <2>6. timeouts' \in [Rides -> [0 .. TimeoutDelay -> Nat]]
    <3>1. TimeoutDelay \in 0 .. TimeoutDelay
      BY ConstantsAssumption
    <3>2. queue \in [0 .. TimeoutDelay -> Nat]
      BY <2>1, <3>1 DEF IInv, TypeOK
    <3>3. timeouts' = timeouts \/ timeouts' = [timeouts EXCEPT ![req[w].ride] = queue]
      BY <1>20 DEF AlertDriver
    <3> QED
      BY <3>2, <3>3 DEF IInv, TypeOK
  <2> QED
    BY <1>20, <2>2, <2>3, <2>5, <2>6 DEF AlertDriver, IInv, TypeOK
<1>21. CASE DeclineCount(w)
  <2>1. req[w].ride \in Rides /\ req[w].pc \notin OffRide
    BY <1>21 DEF DeclineCount, At, IInv, InFlight, Sound, OffRide
  <2>2. ride' \in [Rides -> RideRow] /\ RowsOK' /\ FaresKept
    BY <1>21, RideSame DEF DeclineCount, IInv
  <2> DEFINE q == [req[w] EXCEPT !.pc = "release", !.tries = ride[req[w].ride].tries]
  <2>3. q \in Request /\ q.pc = "release" /\ q.ride = req[w].ride
    BY <2>1 DEF IInv, TypeOK, Request, Step, RideRow
  <2>4. req' = [req EXCEPT ![w] = q] /\ req'[w] = q
    BY <1>21 DEF DeclineCount, IInv, TypeOK
  <2>5. Sound(w)'
    BY <2>1, <2>3, <2>4 DEF Sound
  <2>6. req' \in [Workers -> Request] /\ InFlight'
    BY <2>2, <2>3, <2>4, <2>5, OthersSound DEF IInv
  <2> QED
    BY <1>21, <2>2, <2>6 DEF DeclineCount, IInv, TypeOK
<1>22. CASE NoShowStrike(w)
  <2>2. ride' \in [Rides -> RideRow] /\ RowsOK' /\ FaresKept
    BY <1>22, RideSame DEF NoShowStrike, IInv
  <2>3. req' \in [Workers -> Request] /\ InFlight'
    BY <1>22, <2>2, DoneMove DEF NoShowStrike, IInv
  <2> DEFINE out == [availability |-> "OFFLINE", subscribed |-> FALSE]
  <2>4. driver' \in [Drivers -> DriverRow]
    <3>1. out \in DriverRow
      BY DEF DriverRow, DriverAvailability
    <3>2. driver' = driver \/ driver' = [driver EXCEPT ![req[w].silent] = out]
      BY <1>22 DEF NoShowStrike
    <3> QED
      BY <3>1, <3>2 DEF IInv, TypeOK
  <2> QED
    BY <1>22, <2>2, <2>3, <2>4 DEF NoShowStrike, IInv, TypeOK
<1>23. CASE CommitToggle(w)
  <2>2. ride' \in [Rides -> RideRow] /\ RowsOK' /\ FaresKept
    BY <1>23, RideSame DEF CommitToggle, IInv
  <2>3. req' \in [Workers -> Request] /\ InFlight'
    BY <1>23, <2>2, DoneMove DEF CommitToggle, IInv
  <2>4. driver' \in [Drivers -> DriverRow]
    BY <1>23, AvailabilityWrite DEF CommitToggle, IInv, DriverAvailability
  <2> QED
    BY <1>23, <2>2, <2>3, <2>4 DEF CommitToggle, IInv, TypeOK
<1> QED
  BY <1>1, <1>2, <1>3, <1>4, <1>5, <1>6, <1>7, <1>8, <1>9, <1>10, <1>11, <1>12,
     <1>13, <1>14, <1>15, <1>16, <1>17, <1>18, <1>19, <1>20, <1>21, <1>22, <1>23
     DEF Continue

-----------------------------------------------------------------------------
(* Requests and tasks that arrive, time and faults keep the invariant *)

LEMMA RequestKeeps ==
    ASSUME IInv, NEW w \in Workers, NEW r \in Rides, RequestRide(w, r)
    PROVE  IInv'
<1>1. /\ ride[r].driver = None
      /\ \A x \in Rides :
           /\ ride'[x].driver = ride[x].driver
           /\ ride'[x].tries = ride[x].tries
           /\ ride'[x].priced = ride[x].priced
           /\ ride'[x].status = IF x = r THEN "REQUESTED" ELSE ride[x].status
  BY DEF RequestRide, SetStatus, IInv, TypeOK, RideRow, RowsOK, OfferNamesDriver
<1>2. ride' \in [Rides -> RideRow]
  BY DEF RequestRide, SetStatus, IInv, TypeOK, RideRow, RideStatus
<1>3. RowsOK' /\ FaresKept
  BY <1>1 DEF IInv, RowsOK, OfferNamesDriver, SettledIsPriced, FaresKept
<1>4. req' \in [Workers -> Request] /\ InFlight'
  BY <1>3, BeginMove DEF RequestRide, IInv, Step, Source
<1> QED
  BY <1>2, <1>3, <1>4 DEF RequestRide, IInv, TypeOK

\* Requests that only start a handler.
LEMMA StartKeeps ==
    ASSUME IInv, NEW w \in Workers,
           NEW pc \in Step \ {"match", "open", "alert", "split"},
           NEW src \in Source, NEW r \in Rides \cup {None}, NEW d \in Drivers \cup {None},
           pc \notin OffRide => r \in Rides,
           pc = "confirm" => ride[r].priced,
           Begin(w, pc, src, r, d),
           timeouts' \in [Rides -> [0 .. TimeoutDelay -> Nat]],
           autos' \in [Rides -> 0 .. MaxAuto],
           UNCHANGED <<ride, driver, window, tried, faults>>
    PROVE  IInv'
<1>1. RowsOK' /\ FaresKept
  BY RideSame DEF IInv
<1>2. req' \in [Workers -> Request] /\ InFlight'
  BY <1>1, BeginMove DEF IInv
<1> QED
  BY <1>1, <1>2 DEF IInv, TypeOK

\* Tasks that find nothing to do, and tasks that are queued.
LEMMA QueuesKeep ==
    ASSUME IInv,
           timeouts' \in [Rides -> [0 .. TimeoutDelay -> Nat]],
           autos' \in [Rides -> 0 .. MaxAuto],
           UNCHANGED <<ride, driver, window, tried, req, faults>>
    PROVE  IInv'
BY DEF IInv, TypeOK, RowsOK, OfferNamesDriver, SettledIsPriced,
       InFlight, Sound

LEMMA ArriveKeeps ==
    ASSUME IInv, NEW w \in Workers, Arrive(w)
    PROVE  IInv'
<1> USE DEF Source
<1>0. /\ timeouts \in [Rides -> [0 .. TimeoutDelay -> Nat]]
      /\ autos \in [Rides -> 0 .. MaxAuto]
      /\ \A r \in Rides : ride[r].driver \in Drivers \cup {None}
      /\ \A r \in Rides : window[r].driver \in Drivers \cup {None}
  BY DEF IInv, TypeOK, RideRow, Window
<1>1. CASE \E r \in Rides : RequestRide(w, r)
  BY <1>1, RequestKeeps
<1>2. CASE \E r \in Rides : CancelStart(w, r)
  BY <1>0, <1>2, StartKeeps DEF CancelStart, Step, OffRide
<1>3. CASE \E r \in Rides : CompleteTap(w, r)
  BY <1>0, <1>3, StartKeeps DEF CompleteTap, CompleteStart, Step, OffRide
<1>4. CASE \E r \in Rides : ConfirmStart(w, r)
  <2>1. PICK r \in Rides : ConfirmStart(w, r)
    BY <1>4
  <2>2. ride[r].priced
    BY <2>1 DEF ConfirmStart, IInv, RowsOK, SettledIsPriced
  <2> QED
    BY <1>0, <2>1, <2>2, StartKeeps DEF ConfirmStart, Step, OffRide
<1>5. CASE \E r \in Rides : TimeoutFires(w, r)
  <2>1. PICK r \in Rides : TimeoutFires(w, r)
    BY <1>5
  <2> DEFINE queue == [timeouts[r] EXCEPT ![0] = @ - 1]
  <2>2. timeouts' = [timeouts EXCEPT ![r] = queue] /\ timeouts[r][0] > 0
    BY <2>1 DEF TimeoutFires
  <2>3. 0 \in 0 .. TimeoutDelay /\ timeouts[r] \in [0 .. TimeoutDelay -> Nat]
    BY <1>0, ConstantsAssumption
  <2>4. queue \in [0 .. TimeoutDelay -> Nat]
    <3>1. timeouts[r][0] \in Nat
      BY <2>3
    <3>2. timeouts[r][0] - 1 \in Nat
      BY <2>2, <3>1
    <3> QED
      BY <2>3, <3>2
  <2>5. timeouts' \in [Rides -> [0 .. TimeoutDelay -> Nat]]
    BY <1>0, <2>2, <2>4
  <2>6. CASE window[r].driver = None
    BY <1>0, <2>1, <2>5, <2>6, QueuesKeep DEF TimeoutFires
  <2>7. CASE window[r].driver # None
    BY <1>0, <2>1, <2>5, <2>7, StartKeeps DEF TimeoutFires, Step, OffRide
  <2> QED
    BY <2>6, <2>7
<1>6. CASE \E r \in Rides : AutoCompleteFires(w, r)
  <2>1. PICK r \in Rides : AutoCompleteFires(w, r)
    BY <1>6
  <2>2. autos' \in [Rides -> 0 .. MaxAuto]
    BY <1>0, <2>1, ConstantsAssumption DEF AutoCompleteFires
  <2>3. CASE ride[r].status = "IN_PROGRESS"
    BY <1>0, <2>1, <2>2, <2>3, StartKeeps DEF AutoCompleteFires, CompleteStart, Step, OffRide
  <2>4. CASE ride[r].status # "IN_PROGRESS"
    BY <1>0, <2>1, <2>2, <2>4, QueuesKeep DEF AutoCompleteFires
  <2> QED
    BY <2>3, <2>4
<1>7. CASE \E r \in Rides, d \in Drivers : AcceptStart(w, r, d)
  BY <1>0, <1>7, StartKeeps DEF AcceptStart, Step, OffRide
<1>8. CASE \E r \in Rides, d \in Drivers : DeclineStart(w, r, d)
  BY <1>0, <1>8, StartKeeps DEF DeclineStart, Step, OffRide
<1>9. CASE \E r \in Rides, d \in Drivers : ArrivedStart(w, r, d)
  BY <1>0, <1>9, StartKeeps DEF ArrivedStart, Step, OffRide
<1>10. CASE \E r \in Rides, d \in Drivers : StartStart(w, r, d)
  BY <1>0, <1>10, StartKeeps DEF StartStart, Step, OffRide
<1>11. CASE \E d \in Drivers : GpsUpdate(w, d)
  <2>1. PICK d \in Drivers, r \in Rides :
          /\ \/ Begin(w, "gpsArrived", "api", r, d) /\ UNCHANGED autos
             \/ Begin(w, "gpsStart", "api", r, d) /\ UNCHANGED autos
             \/ /\ autos[r] < MaxAuto
                /\ autos' = [autos EXCEPT ![r] = @ + 1]
                /\ UNCHANGED req
          /\ UNCHANGED <<ride, driver, window, tried, timeouts, faults>>
    BY <1>11 DEF GpsUpdate
  <2>2. CASE Begin(w, "gpsArrived", "api", r, d) /\ UNCHANGED autos
    BY <1>0, <2>1, <2>2, StartKeeps DEF Step, OffRide
  <2>3. CASE Begin(w, "gpsStart", "api", r, d) /\ UNCHANGED autos
    BY <1>0, <2>1, <2>3, StartKeeps DEF Step, OffRide
  <2>4. CASE /\ autos[r] < MaxAuto
             /\ autos' = [autos EXCEPT ![r] = @ + 1]
             /\ UNCHANGED req
    <3>1. autos' \in [Rides -> 0 .. MaxAuto]
      BY <1>0, <2>4, ConstantsAssumption
    <3> QED
      BY <1>0, <2>1, <2>4, <3>1, QueuesKeep
  <2> QED
    BY <2>1, <2>2, <2>3, <2>4
<1>12. CASE \E d \in Drivers, online \in BOOLEAN : ToggleStart(w, d, online)
  <2>1. PICK d \in Drivers, online \in BOOLEAN : ToggleStart(w, d, online)
    BY <1>12
  <2>2. CASE online
    BY <1>0, <2>1, <2>2, StartKeeps DEF ToggleStart, Step, OffRide
  <2>3. CASE ~online
    BY <1>0, <2>1, <2>3, StartKeeps DEF ToggleStart, Step, OffRide
  <2> QED
    BY <2>2, <2>3
<1> QED
  BY <1>1, <1>2, <1>3, <1>4, <1>5, <1>6, <1>7, <1>8, <1>9, <1>10, <1>11, <1>12 DEF Arrive

LEMMA TickKeeps ==
    ASSUME IInv, Tick
    PROVE  IInv'
<1>1. \A r \in Rides : Older(window[r]) \in Window
  <2> TAKE r \in Rides
  <2>1. window[r] \in Window
    BY DEF IInv, TypeOK
  <2>2. CASE window[r].ttl <= 1
    BY <2>2, ConstantsAssumption DEF Older, Absent, Window
  <2>3. CASE ~(window[r].ttl <= 1)
    <3>1. window[r].ttl \in 0 .. AcceptTTL /\ window[r].ttl - 1 \in 0 .. AcceptTTL
      BY <2>1, <2>3, ConstantsAssumption DEF Window
    <3> QED
      BY <2>1, <2>3, <3>1 DEF Older, Window
  <2> QED
    BY <2>2, <2>3
<1>2. window' \in [Rides -> Window]
  BY <1>1 DEF Tick
<1>3. timeouts' \in [Rides -> [0 .. TimeoutDelay -> Nat]]
  <2>1. ASSUME NEW q \in [0 .. TimeoutDelay -> Nat], NEW k \in 0 .. TimeoutDelay
        PROVE  (IF k = 0 THEN q[0] ELSE 0) + (IF k < TimeoutDelay THEN q[k + 1] ELSE 0) \in Nat
    <3>1. 0 \in 0 .. TimeoutDelay /\ (k < TimeoutDelay => k + 1 \in 0 .. TimeoutDelay)
      BY <2>1, ConstantsAssumption
    <3>2. q[0] \in Nat /\ (k < TimeoutDelay => q[k + 1] \in Nat)
      BY <2>1, <3>1
    <3> QED
      BY <3>2
  <2>2. \A q \in [0 .. TimeoutDelay -> Nat] : Aged(q) \in [0 .. TimeoutDelay -> Nat]
    BY <2>1 DEF Aged
  <2> QED
    BY <2>2 DEF Tick, IInv, TypeOK
<1>4. UNCHANGED <<ride, driver, tried, autos, req, faults>>
  BY DEF Tick
<1> QED
  BY <1>2, <1>3, <1>4 DEF IInv, TypeOK, RowsOK, OfferNamesDriver,
     SettledIsPriced, InFlight, Sound

LEMMA FaultKeeps ==
    ASSUME IInv, NEW w \in Workers, Fault(w)
    PROVE  IInv'
<1>1. RowsOK' /\ FaresKept
  BY RideSame DEF Fault, IInv
<1>2. req' \in [Workers -> Request] /\ InFlight'
  BY <1>1, DoneMove DEF Fault, IInv
<1>3. faults' \in 0 .. MaxFaults
  BY ConstantsAssumption DEF Fault, IInv, TypeOK
<1> DEFINE r == req[w].ride
           queue == [timeouts[r] EXCEPT ![0] = @ + 1]
<1>4. timeouts' \in [Rides -> [0 .. TimeoutDelay -> Nat]]
  <2>1. timeouts' = timeouts \/ timeouts' = [timeouts EXCEPT ![r] = queue]
    BY DEF Fault
  <2>2. r \in Rides => queue \in [0 .. TimeoutDelay -> Nat]
    <3> SUFFICES ASSUME r \in Rides PROVE queue \in [0 .. TimeoutDelay -> Nat]
      OBVIOUS
    <3>1. timeouts[r] \in [0 .. TimeoutDelay -> Nat]
      BY DEF IInv, TypeOK
    <3>2. timeouts[r][0] + 1 \in Nat
      BY <3>1, ConstantsAssumption
    <3> HIDE DEF r
    <3> QED
      BY <3>1, <3>2
  <2> HIDE DEF queue, r
  <2> QED
    BY <2>1, <2>2 DEF IInv, TypeOK
<1>5. autos' \in [Rides -> 0 .. MaxAuto]
  <2>1. \/ autos' = autos
        \/ autos[r] < MaxAuto /\ autos' = [autos EXCEPT ![r] = @ + 1]
    BY DEF Fault
  <2>2. r \in Rides /\ autos[r] < MaxAuto => autos[r] + 1 \in 0 .. MaxAuto
    BY ConstantsAssumption DEF IInv, TypeOK
  <2> HIDE DEF r
  <2> QED
    BY <2>1, <2>2 DEF IInv, TypeOK
<1> QED
  BY <1>1, <1>2, <1>3, <1>4, <1>5 DEF Fault, IInv, TypeOK

LEMMA ExpiryKeeps ==
    ASSUME IInv, NEW d \in Drivers, SubscriptionExpires(d)
    PROVE  IInv'
<1> DEFINE row == [availability |-> "OFFLINE", subscribed |-> FALSE]
<1>1. row \in DriverRow
  BY DEF DriverRow, DriverAvailability
<1>2. driver' \in [Drivers -> DriverRow]
  BY <1>1 DEF SubscriptionExpires, IInv, TypeOK
<1>3. UNCHANGED <<ride, window, tried, timeouts, autos, req, faults>>
  BY DEF SubscriptionExpires
<1> QED
  BY <1>2, <1>3 DEF IInv, TypeOK, RowsOK, OfferNamesDriver,
     SettledIsPriced, InFlight, Sound

LEMMA InitHolds == Init => IInv
<1> SUFFICES ASSUME Init PROVE IInv
  OBVIOUS
<1>1. TypeOK
  BY ConstantsAssumption DEF Init, TypeOK, RideRow, DriverRow, Window, Request, RideStatus,
     DriverAvailability, Step, Source, Absent, Idle
<1>2. RowsOK
  BY ConstantsAssumption DEF Init, RowsOK, OfferNamesDriver, SettledIsPriced
<1>3. InFlight
  BY DEF Init, InFlight, Sound, OffRide, Idle
<1> QED
  BY <1>1, <1>2, <1>3 DEF IInv

LEMMA NextKeeps == IInv /\ [Next]_vars => IInv'
<1> SUFFICES ASSUME IInv, [Next]_vars PROVE IInv'
  OBVIOUS
<1>1. ASSUME NEW w \in Workers, Arrive(w) PROVE IInv'
  BY <1>1, ArriveKeeps
<1>2. ASSUME NEW w \in Workers, Continue(w) PROVE IInv'
  BY <1>2, ContinueKeeps
<1>3. ASSUME NEW w \in Workers, Fault(w) PROVE IInv'
  BY <1>3, FaultKeeps
<1>4. ASSUME NEW d \in Drivers, SubscriptionExpires(d) PROVE IInv'
  BY <1>4, ExpiryKeeps
<1>5. CASE Tick
  BY <1>5, TickKeeps
<1>6. CASE UNCHANGED vars
  BY <1>6 DEF vars, IInv, TypeOK, RowsOK, OfferNamesDriver,
     SettledIsPriced, InFlight, Sound
<1> QED
  BY <1>1, <1>2, <1>3, <1>4, <1>5, <1>6 DEF Next

-----------------------------------------------------------------------------
(* The theorems *)

LEMMA Inductive == Spec => []IInv
  BY InitHolds, NextKeeps, PTL DEF Spec

\* Every row, key, queue and handler record of the dispatch code stays of its
\* type, for any rides, drivers and workers.
THEOREM TypeCorrect == Spec => []TypeOK
<1>1. IInv => TypeOK
  BY DEF IInv
<1> QED
  BY <1>1, Inductive, PTL

\* A ride in MATCHED names a driver and one in REQUESTED does not, whatever the
\* order in which dispatch_ride, handle_driver_decline and the others commit.
THEOREM OffersNameDrivers == Spec => []OfferNamesDriver
<1>1. IInv => OfferNamesDriver
  BY DEF IInv, RowsOK
<1> QED
  BY <1>1, Inductive, PTL

\* complete_ride has set the fare of every COMPLETED or PAID ride.
THEOREM SettledRidesArePriced == Spec => []SettledIsPriced
<1>1. IInv => SettledIsPriced
  BY DEF IInv, RowsOK
<1> QED
  BY <1>1, Inductive, PTL

=============================================================================
