------------------------------- MODULE Purse --------------------------------
(***************************************************************************)
(* What the wallets promise: every operation moves its money once and at   *)
(* one instant, and never more than there is.  A trip is charged once; a   *)
(* ride that is put on the road again is one more trip.                    *)
(***************************************************************************)
EXTENDS Naturals

CONSTANTS Passengers, Drivers, Topups, Rides, Withdrawals, None,
          TopupAmount, Fare, Commission, WithdrawAmount

VARIABLES
    purse,     \* what each user has
    credited,  \* the top-ups that were credited
    trips,     \* how often each ride was put on the road
    charged,   \* how often each ride was charged, by wallet or in cash
    taker,     \* who has taken each withdrawal
    failed     \* the withdrawals whose payout failed

vars == <<purse, credited, trips, charged, taker, failed>>

Users == Passengers \cup Drivers

Init ==
    /\ purse = [u \in Users |-> 0]
    /\ credited = {}
    /\ trips = [r \in Rides |-> 1]
    /\ charged = [r \in Rides |-> 0]
    /\ taker = [x \in Withdrawals |-> None]
    /\ failed = {}

Take(u, amount) ==
    /\ purse[u] >= amount
    /\ purse' = [purse EXCEPT ![u] = @ - amount]

Credit(t, u) ==
    /\ t \notin credited
    /\ credited' = credited \cup {t}
    /\ purse' = [purse EXCEPT ![u] = @ + TopupAmount]
    /\ UNCHANGED <<trips, charged, taker, failed>>

Open(r) ==
    /\ trips' = [trips EXCEPT ![r] = @ + 1]
    /\ UNCHANGED <<purse, credited, charged, taker, failed>>

Charge(r) ==
    /\ charged[r] < trips[r]
    /\ charged' = [charged EXCEPT ![r] = @ + 1]
    /\ UNCHANGED <<credited, trips, taker, failed>>

PayByWallet(r, p, d) ==
    /\ Charge(r)
    /\ purse[p] >= Fare
    /\ purse' = [purse EXCEPT ![p] = @ - Fare, ![d] = @ + (Fare - Commission)]

\* A driver who has less than the commission is left with nothing.
PayInCash(r, d) ==
    /\ Charge(r)
    /\ \/ Take(d, Commission)
       \/ purse[d] < Commission /\ purse' = [purse EXCEPT ![d] = 0]

Withdraw(x, d) ==
    /\ taker[x] = None
    /\ taker' = [taker EXCEPT ![x] = d]
    /\ Take(d, WithdrawAmount)
    /\ UNCHANGED <<credited, trips, charged, failed>>

\* What was taken for it may be given back, and then to its taker and once.
Fail(x) ==
    /\ taker[x] # None /\ x \notin failed
    /\ failed' = failed \cup {x}
    /\ \/ purse' = [purse EXCEPT ![taker[x]] = @ + WithdrawAmount]
       \/ UNCHANGED purse
    /\ UNCHANGED <<credited, trips, charged, taker>>

Next ==
    \/ \E t \in Topups, u \in Users : Credit(t, u)
    \/ \E r \in Rides :
         \/ Open(r)
         \/ \E d \in Drivers : PayInCash(r, d) \/ \E p \in Passengers : PayByWallet(r, p, d)
    \/ \E x \in Withdrawals : Fail(x) \/ \E d \in Drivers : Withdraw(x, d)

Spec == Init /\ [][Next]_vars

=============================================================================
