------------------------------ MODULE Standing ------------------------------
(***************************************************************************)
(* Whether a driver may work: the account, the subscription, the strikes   *)
(* and the documents that app/api/routes/admin.py, crud.issue_driver_strike*)
(* and the nightly task keep, next to the availability that the driver's   *)
(* switch and dispatch write.                                              *)
(*                                                                         *)
(* As in module Dispatch a worker is a handler or a task in flight, cut    *)
(* between what it reads and what it commits.  A handler that writes       *)
(* constants only is one step of a free worker.  Time counts the months    *)
(* subscriptions are sold by, and no handler lasts a month.                *)
(***************************************************************************)
EXTENDS Integers

CONSTANTS
    Drivers,         \* driver user identifiers
    Documents,       \* national_id, license, registration
    Workers,         \* handlers and tasks that can be in flight together
    None,            \* no driver
    StrikeLimit,     \* active strikes that suspend a driver (3)
    MaxMonths,       \* bound: months bought, or taken back, at once
    MaxNow,          \* bound: months that pass
    MaxStrikes,      \* bound: active strikes of one driver
    MaxRides,        \* bound: rides one driver has at a time
    MaxFaults        \* bound: handlers that die between two awaits

ASSUME StandingAssumption ==
    /\ None \notin Drivers
    /\ {StrikeLimit, MaxMonths, MaxNow, MaxStrikes, MaxRides, MaxFaults} \subseteq Nat
    /\ StrikeLimit > 0

VARIABLES
    account,   \* users.is_active, and whether there is an account
    profile,   \* rows of table driver_profiles
    strikes,   \* active rows of driver_strikes of the last 30 days
    rides,     \* rides each driver is matched with, and whether one was completed
    now,       \* the current month
    req,       \* the handler or task each worker is running
    faults     \* handlers that have died so far

vars == <<account, profile, strikes, rides, now, req, faults>>

-----------------------------------------------------------------------------
(* Rows and requests *)

\* An account that is not active is suspended, or renewed if its subscription
\* was renewed since; no handler tells these two apart.
Account == {"none", "active", "suspended", "renewed"}

Profile == [availability : {"ONLINE", "OFFLINE", "ON_RIDE"}, subscribed : BOOLEAN,
            expires : Int, docs : SUBSET Documents, verified : BOOLEAN]

NewProfile == [availability |-> "OFFLINE", subscribed |-> FALSE, expires |-> 0,
               docs |-> {}, verified |-> FALSE]

Step == {"idle", "reinstate", "renew", "strike", "verify", "goOnline", "goOffline", "match"}

\* read is what the handler keeps of its reads: whether the subscription is
\* valid, the month to extend it from, or the number of strikes.
Request == [pc : Step, driver : Drivers \cup {None}, read : Nat]

Idle == [pc |-> "idle", driver |-> None, read |-> 0]

TypeOK ==
    /\ account \in [Drivers -> Account]
    /\ profile \in [Drivers -> Profile]
    /\ strikes \in [Drivers -> 0 .. MaxStrikes]
    /\ rides \in [Drivers -> [live : 0 .. MaxRides, completed : BOOLEAN]]
    /\ now \in 0 .. MaxNow
    /\ req \in [Workers -> Request]
    /\ faults \in 0 .. MaxFaults

Init ==
    /\ account = [d \in Drivers |-> "none"]
    /\ profile = [d \in Drivers |-> NewProfile]
    /\ strikes = [d \in Drivers |-> 0]
    /\ rides = [d \in Drivers |-> [live |-> 0, completed |-> FALSE]]
    /\ now = 0
    /\ req = [w \in Workers |-> Idle]
    /\ faults = 0

-----------------------------------------------------------------------------
(* Control of a worker *)

At(w, pc) == req[w].pc = pc

Begin(w, pc, d, read) ==
    /\ At(w, "idle")
    /\ account[d] # "none"
    /\ req' = [req EXCEPT ![w] = [pc |-> pc, driver |-> d, read |-> read]]

Done(w) == req' = [req EXCEPT ![w] = Idle]

\* A handler of d that reads nothing it depends on.
Free(w, d) == At(w, "idle") /\ account[d] # "none" /\ UNCHANGED req

\* The drivers find_best_driver selects from.
Pool == {d \in Drivers : profile[d].availability = "ONLINE" /\ profile[d].subscribed}

\* Out of the pool: offline and without a subscription.
Withdrawn(p) == [p EXCEPT !.availability = "OFFLINE", !.subscribed = FALSE]

-----------------------------------------------------------------------------
(* Administrators: onboarding, suspension, reinstatement, renewal *)

\* Mutant: the expiry is left NULL.
OnboardWithoutExpiry(w, d) ==
    /\ At(w, "idle")
    /\ account[d] = "none"
    /\ account' = [account EXCEPT ![d] = "active"]
    /\ profile' = [profile EXCEPT ![d].subscribed = TRUE, ![d].expires = None]
    /\ UNCHANGED <<strikes, rides, now, req, faults>>

Onboard(w, d) ==
    /\ At(w, "idle")
    /\ account[d] = "none"
    /\ account' = [account EXCEPT ![d] = "active"]
    /\ \E months \in 1 .. MaxMonths :
         profile' = [profile EXCEPT ![d].subscribed = TRUE, ![d].expires = now + months]
    /\ UNCHANGED <<strikes, rides, now, req, faults>>

\* Mutant: the subscription stays active.
SuspendKeepingSubscription(w, d) ==
    /\ Free(w, d)
    /\ account' = [account EXCEPT ![d] = "suspended"]
    /\ profile' = [profile EXCEPT ![d].availability = "OFFLINE"]
    /\ UNCHANGED <<strikes, rides, now, faults>>

Suspend(w, d) ==
    /\ Free(w, d)
    /\ account' = [account EXCEPT ![d] = "suspended"]
    /\ profile' = [profile EXCEPT ![d] = Withdrawn(@)]
    /\ UNCHANGED <<strikes, rides, now, faults>>

\* The subscription is valid if it has not expired yet.
ReinstateStart(w, d) ==
    /\ Begin(w, "reinstate", d, IF profile[d].expires > now THEN 1 ELSE 0)
    /\ UNCHANGED <<account, profile, strikes, rides, now, faults>>

\* The strikes stay active.
Reinstate(w) ==
    /\ At(w, "reinstate")
    /\ account' = [account EXCEPT ![req[w].driver] = "active"]
    /\ profile' = [profile EXCEPT ![req[w].driver].subscribed = (req[w].read = 1)]
    /\ Done(w)
    /\ UNCHANGED <<strikes, rides, now, faults>>

\* From the current expiry or from now, whichever is later.  Nothing asks
\* whether the account is active, or whether the number of months is positive.
RenewStart(w, d) ==
    /\ Begin(w, "renew", d, IF profile[d].expires > now THEN profile[d].expires ELSE now)
    /\ UNCHANGED <<account, profile, strikes, rides, now, faults>>

Renew(w) ==
    /\ At(w, "renew")
    /\ \E months \in -MaxMonths .. MaxMonths :
         /\ req[w].read + months <= MaxNow + MaxMonths
         /\ profile' = [profile EXCEPT ![req[w].driver].subscribed = TRUE,
                                       ![req[w].driver].expires = req[w].read + months]
    /\ account' = [account EXCEPT ![req[w].driver] = IF @ = "suspended" THEN "renewed" ELSE @]
    /\ Done(w)
    /\ UNCHANGED <<strikes, rides, now, faults>>

-----------------------------------------------------------------------------
(* issue_driver_strike, for an administrator or for the no-show task *)

\* The count sees the committed strikes and the handler's own.
StrikeCount(w, d) ==
    /\ Begin(w, "strike", d, strikes[d] + 1)
    /\ UNCHANGED <<account, profile, strikes, rides, now, faults>>

\* Mutant: the limit itself is tolerated.
StrikeBeyondLimit(w) ==
    /\ At(w, "strike")
    /\ LET d == req[w].driver IN
       /\ strikes[d] < MaxStrikes
       /\ strikes' = [strikes EXCEPT ![d] = @ + 1]
       /\ IF req[w].read > StrikeLimit
          THEN /\ account' = [account EXCEPT ![d] = "suspended"]
               /\ profile' = [profile EXCEPT ![d] = Withdrawn(@)]
          ELSE UNCHANGED <<account, profile>>
    /\ Done(w)
    /\ UNCHANGED <<rides, now, faults>>

Strike(w) ==
    /\ At(w, "strike")
    /\ LET d == req[w].driver IN
       /\ strikes[d] < MaxStrikes
       /\ strikes' = [strikes EXCEPT ![d] = @ + 1]
       /\ IF req[w].read >= StrikeLimit
          THEN /\ account' = [account EXCEPT ![d] = "suspended"]
               /\ profile' = [profile EXCEPT ![d] = Withdrawn(@)]
          ELSE UNCHANGED <<account, profile>>
    /\ Done(w)
    /\ UNCHANGED <<rides, now, faults>>

\* A strike becomes 30 days old.
StrikeAges(d) ==
    /\ strikes[d] > 0
    /\ strikes' = [strikes EXCEPT ![d] = @ - 1]
    /\ UNCHANGED <<account, profile, rides, now, req, faults>>

-----------------------------------------------------------------------------
(* Documents: uploaded by the driver or an administrator, verified by one *)

UploadDocument(w, d, doc) ==
    /\ Free(w, d)
    /\ profile' = [profile EXCEPT ![d].docs = @ \cup {doc}, ![d].verified = FALSE]
    /\ UNCHANGED <<account, strikes, rides, now, faults>>

\* All three documents must be there.  Nothing ties the verification to what the
\* administrator was shown by get_driver_documents.
VerifyStart(w, d) ==
    /\ profile[d].docs = Documents
    /\ Begin(w, "verify", d, 0)
    /\ UNCHANGED <<account, profile, strikes, rides, now, faults>>

Verify(w) ==
    /\ At(w, "verify")
    /\ profile' = [profile EXCEPT ![req[w].driver].verified = TRUE]
    /\ Done(w)
    /\ UNCHANGED <<account, strikes, rides, now, faults>>

-----------------------------------------------------------------------------
(* Availability: the driver's switch, dispatch, and a low wallet *)

\* The account is tested when the request is authenticated.
ToggleStart(w, d, online) ==
    /\ account[d] = "active"
    /\ profile[d].subscribed
    /\ Begin(w, IF online THEN "goOnline" ELSE "goOffline", d, 0)
    /\ UNCHANGED <<account, profile, strikes, rides, now, faults>>

SetAvailability(d, a) == profile' = [profile EXCEPT ![d].availability = a]

Toggle(w) ==
    /\ \/ At(w, "goOnline") /\ SetAvailability(req[w].driver, "ONLINE")
       \/ At(w, "goOffline") /\ SetAvailability(req[w].driver, "OFFLINE")
    /\ Done(w)
    /\ UNCHANGED <<account, strikes, rides, now, faults>>

MatchStart(w, d) ==
    /\ d \in Pool
    /\ Begin(w, "match", d, 0)
    /\ UNCHANGED <<account, profile, strikes, rides, now, faults>>

Match(w) ==
    /\ At(w, "match")
    /\ rides[req[w].driver].live < MaxRides
    /\ rides' = [rides EXCEPT ![req[w].driver].live = @ + 1]
    /\ SetAvailability(req[w].driver, "ON_RIDE")
    /\ Done(w)
    /\ UNCHANGED <<account, strikes, now, faults>>

\* complete_ride and handle_driver_decline free the driver, whatever his
\* account is by then.
RideEnds(w, d) ==
    /\ rides[d].live > 0
    /\ Free(w, d)
    /\ \E completed \in BOOLEAN :
         rides' = [rides EXCEPT ![d].live = @ - 1, ![d].completed = @ \/ completed]
    /\ SetAvailability(d, "ONLINE")
    /\ UNCHANGED <<account, strikes, now, faults>>

\* The commission of a completed ride leaves less than the minimum.
LowBalanceOffline(w, d) ==
    /\ rides[d].completed
    /\ Free(w, d)
    /\ SetAvailability(d, "OFFLINE")
    /\ UNCHANGED <<account, strikes, rides, now, faults>>

-----------------------------------------------------------------------------
(* Time, the nightly task, failure, and the specification *)

MonthPasses ==
    /\ now < MaxNow
    /\ \A w \in Workers : At(w, "idle")
    /\ now' = now + 1
    /\ UNCHANGED <<account, profile, strikes, rides, req, faults>>

Expired(d) == account[d] # "none" /\ profile[d].subscribed /\ profile[d].expires <= now

\* Mutant: only drivers who are online are looked at.
SubscriptionCheckOnline ==
    /\ profile' = [d \in Drivers |->
                     IF Expired(d) /\ profile[d].availability = "ONLINE"
                     THEN Withdrawn(profile[d]) ELSE profile[d]]
    /\ UNCHANGED <<account, strikes, rides, now, req, faults>>

\* check_subscription_expiry: one UPDATE over all drivers, in a process of
\* its own.
SubscriptionCheck ==
    /\ profile' = [d \in Drivers |->
                     IF Expired(d) THEN Withdrawn(profile[d]) ELSE profile[d]]
    /\ UNCHANGED <<account, strikes, rides, now, req, faults>>

\* A handler dies: nothing it did was committed.
Fault(w) ==
    /\ ~At(w, "idle")
    /\ faults < MaxFaults
    /\ faults' = faults + 1
    /\ Done(w)
    /\ UNCHANGED <<account, profile, strikes, rides, now>>

Arrive(w) ==
    \E d \in Drivers :
        \/ Onboard(w, d) \/ Suspend(w, d) \/ ReinstateStart(w, d) \/ RenewStart(w, d)
        \/ StrikeCount(w, d) \/ VerifyStart(w, d)
        \/ \E doc \in Documents : UploadDocument(w, d, doc)
        \/ \E online \in BOOLEAN : ToggleStart(w, d, online)
        \/ MatchStart(w, d) \/ RideEnds(w, d) \/ LowBalanceOffline(w, d)

Continue(w) ==
    Reinstate(w) \/ Renew(w) \/ Strike(w) \/ Verify(w) \/ Toggle(w) \/ Match(w)

Next ==
    \/ \E w \in Workers : Arrive(w) \/ Continue(w) \/ Fault(w)
    \/ \E d \in Drivers : StrikeAges(d)
    \/ SubscriptionCheck
    \/ MonthPasses

Spec == Init /\ [][Next]_vars

\* Celery beat starts the nightly task every day; nothing else need happen.
Fairness == WF_vars(SubscriptionCheck)

FairSpec == Spec /\ Fairness

-----------------------------------------------------------------------------
(* When handlers keep out of each other's way *)

\* No two strikes of one driver are counted at once.
StrikesApart ==
    \A v, w \in Workers :
        v # w /\ At(v, "strike") /\ At(w, "strike") => req[v].driver # req[w].driver

-----------------------------------------------------------------------------
(* Properties *)

\* suspend_driver: a suspended driver "cannot receive rides" - whichever rides
\* end, strikes age and switches move afterwards, dispatch does not select him,
\* unless an administrator renews the subscription of the suspended account.
SuspendedOutOfPool == \A d \in Pool : account[d] # "suspended"

\* issue_driver_strike: the strike that reaches the limit suspends, however
\* many strikes have aged and however often the driver was reinstated before.
ThirdStrikeSuspends ==
    [][\A d \in Drivers :
          strikes'[d] > strikes[d] /\ strikes'[d] >= StrikeLimit
              => account'[d] = "suspended" /\ d \notin Pool']_vars

\* check_subscription_expiry: a subscription that has run out, or that was
\* renewed by no time at all, does not stay active, whether its driver is online,
\* offline or on a ride.
ExpiredLeavesPool ==
    \A d \in Drivers : Expired(d) ~> ~Expired(d)

=============================================================================
