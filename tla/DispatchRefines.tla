-------------------------- MODULE DispatchRefines --------------------------
(***************************************************************************)
(* What dispatch promises as long as no two handlers are at work on one    *)
(* ride or for one driver, and Dispatch seen as a RideLifecycle: the       *)
(* ride's row alone tells its phase and its holder.                        *)
(***************************************************************************)
EXTENDS Dispatch

PhaseOf(s) ==
    CASE s = "NONE" -> "none"
      [] s = "REQUESTED" -> "seeking"
      [] s = "MATCHED" -> "offered"
      [] s \in OnTheRoad -> "riding"
      [] s = "COMPLETED" -> "finished"
      [] s = "PAID" -> "paid"
      [] s = "CANCELLED" -> "cancelled"

Lifecycle == INSTANCE RideLifecycle WITH
    phase <- [r \in Rides |-> PhaseOf(ride[r].status)],
    holder <- [r \in Rides |-> ride[r].driver]

\* No two handlers in flight are at work on one ride or for one driver.
Apart ==
    \A v, w \in Workers :
        v # w /\ ~At(v, "idle") /\ ~At(w, "idle") =>
            /\ req[v].ride = req[w].ride => req[v].ride = None
            /\ req[v].driver = req[w].driver => req[v].driver = None

\* As long as handlers stay apart, dispatch keeps the promise of RideLifecycle:
\* no cancellation, late tap, decline, GPS update or repeated task carries out
\* a ride for nobody, completes one that is not under way, or pays one that
\* was not completed.
RefinesLifecycle == Lifecycle!Spec

\* A ride that was matched, is under way or was settled names its driver: the
\* acceptance key of handle_driver_acceptance outlives neither a decline nor a
\* rematch, and complete_ride and process_ride_payment find somebody to pay.
ServedByDriver ==
    \A r \in Rides :
        ride[r].status \in Live \cup {"COMPLETED", "PAID"} => ride[r].driver # None

\* Every decline that sends a ride out again is counted in reassignment_count,
\* which never goes back and ends at the limit: so a ride is sent out again
\* MaxReassign times at most (handle_driver_decline writes back a counter it
\* read before its other awaits).
CountedStep ==
    /\ \A r \in Rides : ride'[r].tries >= ride[r].tries
    /\ \A w \in Workers : At(w, "release") /\ At(w, "pick")' =>
         /\ ride'[req[w].ride].tries = ride[req[w].ride].tries + 1
         /\ ride'[req[w].ride].tries <= MaxReassign

ReassignmentsCounted == [][CountedStep]_vars

\* dispatch_ride matches a driver some awaits after find_best_driver has read
\* him: he is still in the pool by then, or his subscription has ended meanwhile.
InPool(d) == driver[d].availability = "ONLINE" \/ ~driver[d].subscribed

MatchedStep ==
    \A r \in Rides :
        ride'[r].status = "MATCHED" /\ ride[r].status # "MATCHED" => InPool(ride'[r].driver)

MatchedFromPool == [][MatchedStep]_vars

=============================================================================
