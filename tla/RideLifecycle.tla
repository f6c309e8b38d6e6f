--------------------------- MODULE RideLifecycle ---------------------------
(***************************************************************************)
(* What dispatch promises of a ride, without handlers, Redis or tasks: a   *)
(* ride gets its driver by an offer and by nothing else, is carried out    *)
(* only by the driver it names, is finished only while it is carried out,  *)
(* and is paid only once finished.  Nothing is final: a ride that ended    *)
(* may be cancelled, sent out again or taken up again by its driver.       *)
(***************************************************************************)
CONSTANTS Rides, Drivers, None

VARIABLES
    phase,   \* of each ride: none, seeking, offered, riding, finished, paid, cancelled
    holder   \* the driver the ride names, or None

vars == <<phase, holder>>

Init ==
    /\ phase = [r \in Rides |-> "none"]
    /\ holder = [r \in Rides |-> None]

Move(r, to, d) ==
    /\ phase' = [phase EXCEPT ![r] = to]
    /\ holder' = [holder EXCEPT ![r] = d]

Request(r) == phase[r] = "none" /\ Move(r, "seeking", None)

Offer(r, d) == phase[r] = "seeking" /\ Move(r, "offered", d)

\* The driver accepts, arrives or starts.
Carry(r) == holder[r] # None /\ Move(r, "riding", holder[r])

Release(r) == phase[r] # "none" /\ Move(r, "seeking", None)

Finish(r) == phase[r] = "riding" /\ Move(r, "finished", holder[r])

Settle(r) == phase[r] = "finished" /\ Move(r, "paid", holder[r])

Cancel(r) == phase[r] # "none" /\ Move(r, "cancelled", holder[r])

Next ==
    \E r \in Rides :
        \/ Request(r) \/ Carry(r) \/ Release(r) \/ Finish(r) \/ Settle(r) \/ Cancel(r)
        \/ \E d \in Drivers : Offer(r, d)

Spec == Init /\ [][Next]_vars

=============================================================================
